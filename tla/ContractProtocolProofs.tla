----------------------- MODULE ContractProtocolProofs -----------------------
(***************************************************************************)
(* Proofs about the contract for every set of accounts, every proposal and *)
(* every bound: keys, domains and epochs stay in step, the parameters,     *)
(* votes and attestations behind a key event are sound, late votes and     *)
(* cancelled epochs do no harm, and the abstract key service is            *)
(* implemented.                                                            *)
(***************************************************************************)
EXTENDS ContractHistory, SequenceTheorems, FiniteSetTheorems, TLAPS

(***************************************************************************)
(* What the helpers return.                                                *)
(***************************************************************************)

\* KeyEvent::new makes a key event of its arguments.
LEMMA NewKeyEventType ==
  ASSUME NEW e \in Nat, NEW d \in Nat, NEW p, IsThresholdParameters(p)
  PROVE  IsKeyEvent(NewKeyEvent(e, d, p))
BY DEF IsKeyEvent, NewKeyEvent

\* KeyEvent::start keeps a key event a key event.
LEMMA StartType ==
  ASSUME NEW ke, IsKeyEvent(ke)
  PROVE  IsKeyEvent(Start(ke, KeyEventTimeoutBlocks))
<1> DEFINE i == [attempt_id |-> ke.next_attempt_id, left |-> 1 + KeyEventTimeoutBlocks,
                 completed |-> {}, public_key |-> NoKey]
<1>1. i \in KeyEventInstance
  BY BoundsAssumption DEF IsKeyEvent, KeyEventInstance
<1> HIDE DEF i
<1>2. Start(ke, KeyEventTimeoutBlocks)
        = [ke EXCEPT !.instance = i, !.next_attempt_id = ke.next_attempt_id + 1]
  BY DEF Start, i
<1>3. /\ ke.epoch_id \in Nat /\ ke.domain_id \in Nat /\ ke.next_attempt_id + 1 \in Nat
      /\ IsThresholdParameters(ke.parameters)
  BY DEF IsKeyEvent
<1>4. Start(ke, KeyEventTimeoutBlocks)
        = [epoch_id |-> ke.epoch_id, domain_id |-> ke.domain_id, parameters |-> ke.parameters,
           instance |-> i, next_attempt_id |-> ke.next_attempt_id + 1]
  BY <1>2 DEF IsKeyEvent
<1> QED
  BY <1>1, <1>3, <1>4 DEF IsKeyEvent

\* Dropping the attempt keeps a key event a key event.
LEMMA DropInstanceType ==
  ASSUME NEW ke, IsKeyEvent(ke)
  PROVE  IsKeyEvent(DropInstance(ke))
BY DEF IsKeyEvent, DropInstance

\* A live attempt can get one block older.
LEMMA AgeType ==
  ASSUME NEW ke, IsKeyEvent(ke), Active(ke)
  PROVE  IsKeyEvent(Age(ke))
BY DEF IsKeyEvent, Age, Active, KeyEventInstance

\* Counting a vote of a participant keeps a key event a key event.
LEMMA VoteSuccessType ==
  ASSUME NEW ke, IsKeyEvent(ke), Active(ke), NEW a \in Members(ke.parameters), NEW pk \in PublicKeys
  PROVE  IsKeyEvent(VoteSuccess(ke, a, pk))
BY DEF IsKeyEvent, VoteSuccess, Active, KeyEventInstance, IsThresholdParameters, Members

\* Some of the participants, as verify_tee keeps them, are parameters again.
LEMMA RestrictToType ==
  ASSUME NEW p, IsThresholdParameters(p), NEW S
  PROVE  IsThresholdParameters(RestrictTo(p, S)) /\ Members(RestrictTo(p, S)) = Members(p) \intersect S
BY DEF IsThresholdParameters, RestrictTo, Members

\* Dropping votes of others from a map of votes.
LEMMA RemainingVotesType ==
  ASSUME NEW T, NEW f, f \in [DOMAIN f -> T], NEW p
  PROVE  /\ RemainingVotes(f, p) \in [DOMAIN RemainingVotes(f, p) -> T]
         /\ DOMAIN RemainingVotes(f, p) = DOMAIN f \intersect Ids(p)
BY DEF RemainingVotes

\* The empty map.
LEMMA NoVotesType ==
  ASSUME NEW T
  PROVE  NoVotes \in [DOMAIN NoVotes -> T] /\ DOMAIN NoVotes = {}
BY DEF NoVotes

\* A registered domain has an id.
LEMMA DomainIdType ==
  ASSUME NEW r \in DomainRegistry, NEW i \in 1 .. Len(r.list)
  PROVE  r.list[i] \in DomainConfig /\ r.list[i].id \in Nat
<1>1. r.list \in Seq(DomainConfig)
  BY DEF DomainRegistry
<1>2. r.list[i] \in DomainConfig
  BY <1>1, ElementOfSeq
<1> QED
  BY <1>2 DEF DomainConfig

\* Entering Running leaves every variable but the attestations typed.
LEMMA BecomeRunningType ==
  ASSUME TypeOK, UNCHANGED attestations, accept_requests' \in BOOLEAN, cleanups' \in Nat,
         NEW registry \in DomainRegistry, NEW keys \in Keyset,
         NEW params, IsThresholdParameters(params),
         NEW dv, DOMAIN dv \subseteq Nat, dv \in [DOMAIN dv -> Batches],
         BecomeRunning(registry, keys, params, dv)
  PROVE  TypeOK'
<1>1. /\ DOMAIN add_domains_votes' \subseteq Nat
      /\ add_domains_votes' \in [DOMAIN add_domains_votes' -> Batches]
  <2>1. add_domains_votes' = RemainingVotes(dv, params)
    BY DEF BecomeRunning
  <2>2. /\ RemainingVotes(dv, params) \in [DOMAIN RemainingVotes(dv, params) -> Batches]
        /\ DOMAIN RemainingVotes(dv, params) = DOMAIN dv \intersect Ids(params)
    BY RemainingVotesType
  <2> QED BY <2>1, <2>2
<1>2. /\ DOMAIN parameters_votes' \subseteq Accounts
      /\ parameters_votes' \in [DOMAIN parameters_votes' -> Proposals]
  BY NoVotesType DEF BecomeRunning
<1> QED
  BY <1>1, <1>2 DEF TypeOK, BecomeRunning

\* Entering Resharing leaves every variable typed.
LEMMA BecomeResharingType ==
  ASSUME TypeOK, UNCHANGED <<attestations, cleanups>>, accept_requests' \in BOOLEAN,
         Len(domains.list) > 0,
         NEW e \in Nat, NEW p, IsThresholdParameters(p),
         BecomeResharing(e, p)
  PROVE  TypeOK'
<1>1. /\ DOMAIN add_domains_votes' \subseteq Nat
      /\ add_domains_votes' \in [DOMAIN add_domains_votes' -> Batches]
  BY RemainingVotesType DEF BecomeResharing, TypeOK
<1>2. /\ DOMAIN parameters_votes' \subseteq Accounts
      /\ parameters_votes' \in [DOMAIN parameters_votes' -> Proposals]
  BY NoVotesType DEF BecomeResharing
<1>3. domains.list[1].id \in Nat
  <2>1. domains \in DomainRegistry /\ Len(domains.list) \in Nat
    BY LenProperties DEF TypeOK, DomainRegistry
  <2> QED
    BY <2>1, DomainIdType
<1>4. IsKeyEvent(key_event')
  BY <1>3, NewKeyEventType DEF BecomeResharing
<1> QED
  BY <1>1, <1>2, <1>4 DEF TypeOK, BecomeResharing, running

\* The epoch a proposal would move to is one.
LEMMA ProspectiveEpochType ==
  ASSUME TypeOK
  PROVE  ProspectiveEpoch \in Nat
<1>1. keyset.epoch_id \in Nat
  BY DEF TypeOK, Keyset
<1>2. phase = "Resharing" => key_event.epoch_id \in Nat
  BY DEF TypeOK, IsKeyEvent
<1> QED
  BY <1>1, <1>2 DEF TypeOK, ProspectiveEpoch, NoEpoch

\* Adopting new parameters, at once or by a resharing.
LEMMA TransitionType ==
  ASSUME TypeOK, UNCHANGED <<attestations, cleanups>>, accept_requests' \in BOOLEAN,
         NEW p, IsThresholdParameters(p),
         TransitionToResharingNoChecks(p)
  PROVE  TypeOK'
<1>1. CASE Len(domains.list) > 0
  BY <1>1, BecomeResharingType, ProspectiveEpochType DEF TransitionToResharingNoChecks
<1>2. CASE ~(Len(domains.list) > 0)
  <2> DEFINE keys == [epoch_id |-> keyset.epoch_id + 1, keys |-> <<>>]
  <2>1. keys \in Keyset
    BY DEF TypeOK, Keyset
  <2>2. BecomeRunning(domains, keys, p, add_domains_votes)
    BY <1>2 DEF TransitionToResharingNoChecks
  <2>3. domains \in DomainRegistry /\ cleanups' \in Nat
    BY DEF TypeOK
  <2>4. DOMAIN add_domains_votes \subseteq Nat /\ add_domains_votes \in [DOMAIN add_domains_votes -> Batches]
    BY DEF TypeOK
  <2> HIDE DEF keys
  <2> QED
    BY <2>1, <2>2, <2>3, <2>4, BecomeRunningType
<1> QED
  BY <1>1, <1>2

\* A vote on new parameters keeps every variable typed.
LEMMA VoteNewParametersType ==
  ASSUME TypeOK, NEW a \in Accounts, NEW e, NEW p \in Proposals, VoteNewParameters(a, e, p)
  PROVE  TypeOK'
<1> DEFINE cast == Put(parameters_votes, a, p)
<1>1. CASE NVotes(cast, p, Accounts) = Size(p)
  <2>1. IsThresholdParameters(p)
    BY InputAssumption
  <2>2. TransitionToResharingNoChecks(p) /\ UNCHANGED tee
    BY <1>1 DEF VoteNewParameters
  <2>3. accept_requests' \in BOOLEAN /\ UNCHANGED <<attestations, cleanups>>
    BY <2>2 DEF tee, TypeOK
  <2> QED
    BY <2>1, <2>2, <2>3, TransitionType
<1>2. CASE NVotes(cast, p, Accounts) # Size(p)
  <2>1. /\ parameters_votes' = cast
        /\ UNCHANGED <<phase, running, add_domains_votes, previously_cancelled, key_event,
                       reshared_keys, cancels>>
        /\ UNCHANGED tee
    BY <1>2 DEF VoteNewParameters
  <2>2. DOMAIN cast \subseteq Accounts /\ cast \in [DOMAIN cast -> Proposals]
    <3>1. DOMAIN parameters_votes \subseteq Accounts /\ parameters_votes \in [DOMAIN parameters_votes -> Proposals]
      BY DEF TypeOK
    <3> QED
      BY <3>1 DEF Put
  <2> HIDE DEF cast
  <2> QED
    BY <2>1, <2>2 DEF TypeOK, running, cancels, tee
<1> QED
  BY <1>1, <1>2

\* A vote on new domains keeps every variable typed.
LEMMA VoteAddDomainsType ==
  ASSUME TypeOK, NEW a \in Accounts, NEW batch \in Batches, VoteAddDomains(a, batch)
  PROVE  TypeOK'
<1> DEFINE cast == Put(add_domains_votes, parameters.ids[a], batch)
<1>1. CASE NVotes(cast, batch, DOMAIN cast) = Size(parameters)
  <2>1. /\ phase' = "Initializing"
        /\ domains' = AddDomains(domains, batch)
        /\ key_event' = NewKeyEvent(keyset.epoch_id, batch[1].id, parameters)
        /\ parameters_votes' = NoVotes
        /\ add_domains_votes' = NoVotes
        /\ previously_cancelled' = NoEpoch
        /\ UNCHANGED <<keyset, parameters, reshared_keys, cancels, tee>>
        /\ batch # <<>>
    BY <1>1 DEF VoteAddDomains
  <2>2. batch \in Seq(DomainConfig)
    BY InputAssumption
  <2>3. batch[1].id \in Nat
    <3>1. 1 \in 1 .. Len(batch)
      BY <2>1, <2>2, EmptySeq, LenProperties
    <3>2. batch[1] \in DomainConfig
      BY <2>2, <3>1, ElementOfSeq
    <3> QED
      BY <3>2 DEF DomainConfig
  <2>4. domains' \in DomainRegistry
    <3>1. domains.list \in Seq(DomainConfig) /\ domains.next_domain_id \in Nat
      BY DEF TypeOK, DomainRegistry
    <3>2. domains.list \o batch \in Seq(DomainConfig) /\ Len(batch) \in Nat
      BY <2>2, <3>1, ConcatProperties, LenProperties
    <3> QED
      BY <2>1, <3>1, <3>2 DEF AddDomains, DomainRegistry
  <2>5. IsKeyEvent(key_event')
    BY <2>1, <2>3, NewKeyEventType DEF TypeOK, Keyset
  <2>6. /\ DOMAIN parameters_votes' \subseteq Accounts
        /\ parameters_votes' \in [DOMAIN parameters_votes' -> Proposals]
        /\ DOMAIN add_domains_votes' \subseteq Nat
        /\ add_domains_votes' \in [DOMAIN add_domains_votes' -> Batches]
    BY <2>1, NoVotesType
  <2> QED
    BY <2>1, <2>4, <2>5, <2>6 DEF TypeOK, cancels, tee
<1>2. CASE NVotes(cast, batch, DOMAIN cast) # Size(parameters)
  <2>1. /\ add_domains_votes' = cast
        /\ UNCHANGED <<phase, running, parameters_votes, previously_cancelled, key_event,
                       reshared_keys, cancels, tee>>
    BY <1>2 DEF VoteAddDomains
  <2>2. parameters.ids[a] \in Nat
    BY DEF VoteAddDomains, TypeOK, IsThresholdParameters, Members
  <2>3. DOMAIN cast \subseteq Nat /\ cast \in [DOMAIN cast -> Batches]
    <3>1. DOMAIN add_domains_votes \subseteq Nat /\ add_domains_votes \in [DOMAIN add_domains_votes -> Batches]
      BY DEF TypeOK
    <3> QED
      BY <2>2, <3>1 DEF Put
  <2> HIDE DEF cast
  <2> QED
    BY <2>1, <2>3 DEF TypeOK, running, cancels, tee
<1> QED
  BY <1>1, <1>2

\* Steps that change only the key event, outside Running, keep the types.
LEMMA OnlyKeyEventType ==
  ASSUME TypeOK, phase # "Running", IsKeyEvent(key_event'), OnlyKeyEventChanges
  PROVE  TypeOK'
BY DEF TypeOK, OnlyKeyEventChanges, running, votes, cancels, tee

\* Starting an attempt.
LEMMA StartInstanceType ==
  ASSUME TypeOK, NEW a, NEW id, NEW ph \in {"Initializing", "Resharing"}, StartInstance(ph, a, id)
  PROVE  TypeOK'
<1>1. phase # "Running" /\ IsKeyEvent(key_event) /\ OnlyKeyEventChanges
  BY DEF StartInstance, TypeOK
<1>2. IsKeyEvent(key_event')
  BY <1>1, StartType DEF StartInstance
<1> QED
  BY <1>1, <1>2, OnlyKeyEventType

\* A vote that does not finish the key event.
LEMMA VoteNotFinalType ==
  ASSUME TypeOK, phase # "Running", NEW a, NEW id, VerifyVote(key_event, a, id), NEW pk \in PublicKeys,
         VoteNotFinal(a, pk), OnlyKeyEventChanges
  PROVE  TypeOK'
<1>1. IsKeyEvent(key_event)
  BY DEF TypeOK
<1>2. IsKeyEvent(key_event')
  <2>1. CASE key_event' = DropInstance(key_event)
    BY <1>1, <2>1, DropInstanceType
  <2>2. CASE key_event' = VoteSuccess(key_event, a, pk)
    BY <1>1, <2>2, VoteSuccessType DEF VerifyVote
  <2> QED
    BY <2>1, <2>2 DEF VoteNotFinal
<1> QED
  BY <1>2, OnlyKeyEventType

\* The key that an attempt yields.
LEMMA KeyForType ==
  ASSUME NEW a, NEW id, NEW ke, IsKeyEvent(ke), VerifyVote(ke, a, id), NEW pk \in PublicKeys
  PROVE  KeyFor(id, pk) \in KeyForDomain /\ KeyFor(id, pk).domain_id = ke.domain_id
<1>1. ke.domain_id \in Nat /\ ke.instance.attempt_id \in Nat
  BY DEF IsKeyEvent, VerifyVote, Active, KeyEventInstance
<1>2. id.domain_id = ke.domain_id /\ id.attempt_id = ke.instance.attempt_id
  BY DEF VerifyVote
<1> QED
  BY <1>1, <1>2 DEF KeyFor, KeyForDomain

\* A vote for a generated key.
LEMMA VotePkType ==
  ASSUME TypeOK, NEW a \in Accounts, NEW id, NEW pk \in PublicKeys, VotePk(a, id, pk)
  PROVE  TypeOK'
<1>1. phase = "Initializing" /\ phase # "Running" /\ VerifyVote(key_event, a, id)
  BY DEF VotePk
<1>2. CASE VoteNotFinal(a, pk) /\ OnlyKeyEventChanges
  BY <1>1, <1>2, VoteNotFinalType
<1>3. CASE ~(VoteNotFinal(a, pk) /\ OnlyKeyEventChanges)
  <2> DEFINE generated == [keyset EXCEPT !.keys = Append(@, KeyFor(id, pk))]
             n         == Len(generated.keys)
  <2>1. IsKeyEvent(key_event) /\ keyset \in Keyset /\ domains \in DomainRegistry
    BY <1>1 DEF TypeOK
  <2>2. generated \in Keyset /\ n \in Nat
    <3>1. KeyFor(id, pk) \in KeyForDomain
      BY <1>1, <2>1, KeyForType
    <3>2. keyset.keys \in Seq(KeyForDomain)
      BY <2>1 DEF Keyset
    <3>3. Append(keyset.keys, KeyFor(id, pk)) \in Seq(KeyForDomain)
      BY <3>1, <3>2, AppendProperties
    <3>4. generated \in Keyset
      BY <2>1, <3>3 DEF Keyset
    <3>5. generated.keys \in Seq(KeyForDomain)
      BY <3>4 DEF Keyset
    <3> HIDE DEF generated
    <3> QED
      BY <3>4, <3>5, LenProperties
  <2>3. CASE n < Len(domains.list)
    <3>1. /\ keyset' = generated
          /\ key_event' = NewKeyEvent(keyset.epoch_id, domains.list[n + 1].id, key_event.parameters)
          /\ UNCHANGED <<phase, domains, parameters, votes, reshared_keys, cancels, tee>>
      BY <1>3, <2>3 DEF VotePk
    <3>2. domains.list[n + 1].id \in Nat
      <4>1. Len(domains.list) \in Nat
        BY <2>1, LenProperties DEF DomainRegistry
      <4>2. n + 1 \in 1 .. Len(domains.list)
        BY <2>2, <2>3, <4>1
      <4> QED
        BY <2>1, <4>2, DomainIdType
    <3>3. keyset.epoch_id \in Nat /\ IsThresholdParameters(key_event.parameters)
      BY <2>1 DEF Keyset, IsKeyEvent
    <3>4. IsKeyEvent(key_event')
      BY <3>1, <3>2, <3>3, NewKeyEventType
    <3> HIDE DEF generated
    <3> QED
      BY <1>1, <2>2, <3>1, <3>4 DEF TypeOK, votes, cancels, tee
  <2>4. CASE ~(n < Len(domains.list))
    <3>1. BecomeRunning(domains, generated, key_event.parameters, NoVotes) /\ UNCHANGED tee
      BY <1>3, <2>4 DEF VotePk
    <3>2. accept_requests' \in BOOLEAN /\ cleanups' \in Nat /\ UNCHANGED attestations
      BY <3>1 DEF tee, TypeOK
    <3>3. IsThresholdParameters(key_event.parameters)
      BY <2>1 DEF IsKeyEvent
    <3>4. DOMAIN NoVotes \subseteq Nat /\ NoVotes \in [DOMAIN NoVotes -> Batches]
      BY NoVotesType
    <3> HIDE DEF generated
    <3> QED
      BY <2>1, <2>2, <3>1, <3>2, <3>3, <3>4, BecomeRunningType
  <2> QED
    BY <2>3, <2>4
<1> QED
  BY <1>2, <1>3

\* The contract finds the key of the domain being reshared.
LEMMA PreviousKeyType ==
  ASSUME TypeOK, KeysFollowDomains, phase = "Resharing"
  PROVE  /\ Len(reshared_keys) + 1 \in 1 .. Len(keyset.keys)
         /\ PreviousKey \in PublicKeys
<1>1. /\ reshared_keys \in Seq(KeyForDomain) /\ Len(reshared_keys) \in Nat
      /\ keyset.keys \in Seq(KeyForDomain) /\ Len(keyset.keys) \in Nat
  BY LenProperties DEF TypeOK, Keyset
<1>2. Len(reshared_keys) < Len(keyset.keys)
  BY DEF KeysFollowDomains
<1>3. Len(reshared_keys) + 1 \in 1 .. Len(keyset.keys)
  BY <1>1, <1>2
<1>4. keyset.keys[Len(reshared_keys) + 1] \in KeyForDomain
  BY <1>1, <1>3, ElementOfSeq
<1> QED
  BY <1>3, <1>4 DEF PreviousKey, KeyForDomain

\* A vote for a reshared key.
LEMMA VoteResharedType ==
  ASSUME TypeOK, KeysFollowDomains, NEW a \in Accounts, NEW id, VoteReshared(a, id)
  PROVE  TypeOK'
<1> DEFINE pk == PreviousKey
<1>1. phase = "Resharing" /\ phase # "Running" /\ VerifyVote(key_event, a, id) /\ pk \in PublicKeys
  BY PreviousKeyType DEF VoteReshared
<1>2. CASE VoteNotFinal(a, pk) /\ OnlyKeyEventChanges
  BY <1>1, <1>2, VoteNotFinalType
<1>3. CASE ~(VoteNotFinal(a, pk) /\ OnlyKeyEventChanges)
  <2> DEFINE reshared == Append(reshared_keys, KeyFor(id, pk))
             n        == Len(reshared)
  <2>1. IsKeyEvent(key_event) /\ domains \in DomainRegistry /\ UNCHANGED <<attestations, accept_requests>>
    BY <1>1, <1>3 DEF TypeOK, VoteReshared
  <2>2. reshared \in Seq(KeyForDomain) /\ n \in Nat
    <3>1. KeyFor(id, pk) \in KeyForDomain
      BY <1>1, <2>1, KeyForType
    <3>2. reshared_keys \in Seq(KeyForDomain)
      BY DEF TypeOK
    <3>3. reshared \in Seq(KeyForDomain)
      BY <3>1, <3>2, AppendProperties
    <3> HIDE DEF reshared
    <3> QED
      BY <3>3, LenProperties
  <2>3. key_event.epoch_id \in Nat /\ IsThresholdParameters(key_event.parameters)
    BY <2>1 DEF IsKeyEvent
  <2>4. CASE n < Len(domains.list)
    <3>1. /\ reshared_keys' = reshared
          /\ key_event' = NewKeyEvent(key_event.epoch_id, domains.list[n + 1].id, key_event.parameters)
          /\ UNCHANGED <<phase, running, votes, cancels, cleanups>>
      BY <1>3, <2>4 DEF VoteReshared
    <3>2. domains.list[n + 1].id \in Nat
      <4>1. Len(domains.list) \in Nat
        BY <2>1, LenProperties DEF DomainRegistry
      <4>2. n + 1 \in 1 .. Len(domains.list)
        BY <2>2, <2>4, <4>1
      <4> QED
        BY <2>1, <4>2, DomainIdType
    <3>3. IsKeyEvent(key_event')
      BY <2>3, <3>1, <3>2, NewKeyEventType
    <3> HIDE DEF reshared
    <3> QED
      BY <1>1, <2>1, <2>2, <3>1, <3>3 DEF TypeOK, running, votes, cancels
  <2>5. CASE ~(n < Len(domains.list))
    <3> DEFINE keys == [epoch_id |-> key_event.epoch_id, keys |-> reshared]
    <3>1. /\ BecomeRunning(domains, keys, key_event.parameters, add_domains_votes)
          /\ cleanups' = cleanups + 1
      BY <1>3, <2>5 DEF VoteReshared
    <3>2. keys \in Keyset
      BY <2>2, <2>3 DEF Keyset
    <3>3. accept_requests' \in BOOLEAN /\ cleanups' \in Nat /\ UNCHANGED attestations
      BY <2>1, <3>1 DEF TypeOK
    <3>4. DOMAIN add_domains_votes \subseteq Nat /\ add_domains_votes \in [DOMAIN add_domains_votes -> Batches]
      BY DEF TypeOK
    <3> HIDE DEF keys
    <3> QED
      BY <2>1, <2>3, <3>1, <3>2, <3>3, <3>4, BecomeRunningType
  <2> QED
    BY <2>4, <2>5
<1> QED
  BY <1>2, <1>3

\* Aborting an attempt, and a block that passes.
LEMMA AbortAndTickType ==
  ASSUME TypeOK, (\E a, id : VoteAbortKeyEventInstance(a, id)) \/ Tick
  PROVE  TypeOK'
<1>1. phase # "Running" /\ IsKeyEvent(key_event) /\ OnlyKeyEventChanges
  BY DEF VoteAbortKeyEventInstance, Tick, TypeOK
<1>2. IsKeyEvent(key_event')
  BY <1>1, DropInstanceType, AgeType DEF VoteAbortKeyEventInstance, Tick
<1> QED
  BY <1>1, <1>2, OnlyKeyEventType

\* A vote to cancel the key generation.
LEMMA VoteCancelKeygenType ==
  ASSUME TypeOK, KeysFollowDomains, NEW a \in Accounts, NEW d, VoteCancelKeygen(a, d)
  PROVE  TypeOK'
<1> DEFINE cast == cancel_votes \union {key_event.parameters.ids[a]}
<1>1. phase = "Initializing" /\ IsKeyEvent(key_event) /\ keyset \in Keyset /\ domains \in DomainRegistry
  BY DEF VoteCancelKeygen, TypeOK
<1>2. IsThresholdParameters(key_event.parameters)
  BY <1>1 DEF IsKeyEvent
<1>3. CASE Cardinality(cast) >= key_event.parameters.threshold
  <2> DEFINE kept == RetainDomains(domains, Len(keyset.keys))
  <2>1. BecomeRunning(kept, keyset, key_event.parameters, NoVotes) /\ UNCHANGED tee
    BY <1>3 DEF VoteCancelKeygen
  <2>2. kept \in DomainRegistry
    <3>1. domains.list \in Seq(DomainConfig) /\ keyset.keys \in Seq(KeyForDomain)
      BY <1>1 DEF DomainRegistry, Keyset
    <3>2. Len(keyset.keys) \in Nat /\ Len(domains.list) \in Nat /\ Len(keyset.keys) <= Len(domains.list)
      BY <3>1, LenProperties DEF KeysFollowDomains
    <3>3. SubSeq(domains.list, 1, Len(keyset.keys)) \in Seq(DomainConfig)
      BY <3>1, <3>2, SubSeqProperties
    <3> QED
      BY <1>1, <3>3 DEF RetainDomains, DomainRegistry
  <2>3. accept_requests' \in BOOLEAN /\ cleanups' \in Nat /\ UNCHANGED attestations
    BY <2>1 DEF tee, TypeOK
  <2>4. DOMAIN NoVotes \subseteq Nat /\ NoVotes \in [DOMAIN NoVotes -> Batches]
    BY NoVotesType
  <2> HIDE DEF kept
  <2> QED
    BY <1>1, <1>2, <2>1, <2>2, <2>3, <2>4, BecomeRunningType
<1>4. CASE ~(Cardinality(cast) >= key_event.parameters.threshold)
  <2>1. /\ cancel_votes' = cast
        /\ UNCHANGED <<phase, running, votes, key_event, reshared_keys, cancellation_requests, tee>>
    BY <1>4 DEF VoteCancelKeygen
  <2>2. cast \subseteq Nat
    BY <1>2 DEF VoteCancelKeygen, TypeOK, IsThresholdParameters, Members
  <2> HIDE DEF cast
  <2> QED
    BY <2>1, <2>2 DEF TypeOK, running, votes, tee
<1> QED
  BY <1>3, <1>4

\* A vote to cancel the resharing.
LEMMA VoteCancelResharingType ==
  ASSUME TypeOK, NEW a \in Accounts, VoteCancelResharing(a)
  PROVE  TypeOK'
<1>1. phase = "Resharing" /\ IsKeyEvent(key_event) /\ key_event.epoch_id \in Nat
  BY DEF VoteCancelResharing, TypeOK, IsKeyEvent
<1>2. UNCHANGED <<running, parameters_votes, add_domains_votes, cancel_votes, tee>>
  BY DEF VoteCancelResharing
<1>3. CASE Cardinality(cancellation_requests \union {a}) >= parameters.threshold
  <2>1. /\ phase' = "Running"
        /\ previously_cancelled' = key_event.epoch_id
        /\ key_event' = NoKeyEvent
        /\ reshared_keys' = <<>>
        /\ cancellation_requests' = {}
    BY <1>3 DEF VoteCancelResharing
  <2> QED
    BY <1>1, <1>2, <2>1 DEF TypeOK, running, tee
<1>4. CASE ~(Cardinality(cancellation_requests \union {a}) >= parameters.threshold)
  <2>1. /\ cancellation_requests' = cancellation_requests \union {a}
        /\ UNCHANGED <<phase, previously_cancelled, key_event, reshared_keys>>
    BY <1>4 DEF VoteCancelResharing
  <2> QED
    BY <1>1, <1>2, <2>1 DEF TypeOK, running, tee
<1> QED
  BY <1>3, <1>4

\* Attestations come, lapse and are cleaned up.
LEMMA AttestationType ==
  ASSUME TypeOK, CleanTeeStatus \/ \E a \in Submitters : SubmitParticipantInfo(a) \/ AttestationLapses(a)
  PROVE  TypeOK'
<1>1. attestations' \in [Accounts -> {"none", "mock", "valid", "lapsed"}]
  BY AccountsAssumption
  DEF TypeOK, SubmitParticipantInfo, AttestationLapses, CleanTeeStatus, RemoveAttestationsOfOthers
<1>2. UNCHANGED <<phase, running, votes, key_event, reshared_keys, cancels, accept_requests>>
  BY DEF SubmitParticipantInfo, AttestationLapses, CleanTeeStatus
<1>3. cleanups' \in Nat
  BY DEF TypeOK, SubmitParticipantInfo, AttestationLapses, CleanTeeStatus
<1> QED
  BY <1>1, <1>2, <1>3 DEF TypeOK, running, votes, cancels

\* Re-verification of the participants.
LEMMA VerifyTeeType ==
  ASSUME TypeOK, NEW a, VerifyTee(a)
  PROVE  TypeOK'
<1> DEFINE valid == {b \in Members(parameters) : ValidAttestation(b)}
           kept  == RestrictTo(parameters, valid)
<1>1. UNCHANGED <<attestations, cleanups>> /\ accept_requests' \in BOOLEAN
  BY Zenon DEF VerifyTee
<1>2. CASE UNCHANGED <<phase, running, votes, key_event, reshared_keys, cancels>>
  BY <1>1, <1>2 DEF TypeOK, running, votes, cancels
<1>3. CASE TransitionToResharingNoChecks(kept)
  <2>1. IsThresholdParameters(kept)
    BY RestrictToType DEF TypeOK
  <2> HIDE DEF kept
  <2> QED
    BY <1>1, <1>3, <2>1, TransitionType
<1> QED
  BY <1>2, <1>3 DEF VerifyTee

(***************************************************************************)
(* KeysFollowDomains: the keys and the key event stay in step with the     *)
(* registry.                                                               *)
(***************************************************************************)

\* It depends on these variables only.
LEMMA KeysFrame ==
  ASSUME KeysFollowDomains, UNCHANGED <<phase, domains, keyset, reshared_keys>>,
         key_event'.domain_id = key_event.domain_id
  PROVE  KeysFollowDomains'
BY DEF KeysFollowDomains

\* The operations on an attempt stay with its domain.
LEMMA SameDomain ==
  ASSUME NEW ke, IsKeyEvent(ke), NEW a, NEW pk
  PROVE  /\ Start(ke, KeyEventTimeoutBlocks).domain_id = ke.domain_id
         /\ DropInstance(ke).domain_id = ke.domain_id
         /\ Age(ke).domain_id = ke.domain_id
         /\ VoteSuccess(ke, a, pk).domain_id = ke.domain_id
BY DEF IsKeyEvent, Start, DropInstance, Age, VoteSuccess

\* Every registered domain has its key: the contract may be Running.
LEMMA KeysOfRunning ==
  ASSUME NEW registry, NEW keys, NEW params, NEW dv, BecomeRunning(registry, keys, params, dv),
         Len(keys.keys) = Len(registry.list), Len(registry.list) \in Nat,
         \A i \in 1 .. Len(registry.list) : keys.keys[i].domain_id = registry.list[i].id,
         \A i, j \in 1 .. Len(registry.list) : i < j => registry.list[i].id < registry.list[j].id,
         \A i \in 1 .. Len(registry.list) : registry.list[i].id < registry.next_domain_id
  PROVE  KeysFollowDomains'
BY DEF BecomeRunning, KeysFollowDomains

\* A resharing starts with the first domain.
LEMMA KeysTransition ==
  ASSUME TypeOK, KeysFollowDomains, phase # "Initializing", NEW p, TransitionToResharingNoChecks(p)
  PROVE  KeysFollowDomains'
<1>1. Len(domains.list) \in Nat /\ Len(keyset.keys) = Len(domains.list)
  BY LenProperties DEF TypeOK, DomainRegistry, KeysFollowDomains
<1>2. CASE Len(domains.list) > 0
  <2>1. BecomeResharing(ProspectiveEpoch, p)
    BY <1>2 DEF TransitionToResharingNoChecks
  <2>2. key_event'.domain_id = domains.list[1].id /\ Len(reshared_keys') = 0 /\ phase' = "Resharing"
        /\ UNCHANGED <<domains, keyset>>
    BY <2>1 DEF BecomeResharing, NewKeyEvent, running
  <2> QED
    BY <1>1, <1>2, <2>2 DEF KeysFollowDomains
<1>3. CASE ~(Len(domains.list) > 0)
  <2> DEFINE keys == [epoch_id |-> keyset.epoch_id + 1, keys |-> <<>>]
  <2>1. BecomeRunning(domains, keys, p, add_domains_votes)
    BY <1>3 DEF TransitionToResharingNoChecks
  <2>2. Len(domains.list) = 0 /\ Len(keys.keys) = 0
    BY <1>1, <1>3
  <2> HIDE DEF keys
  <2> QED
    BY <2>1, <2>2, KeysOfRunning
<1> QED
  BY <1>2, <1>3

\* Votes on parameters and re-verification.
LEMMA KeysParameters ==
  ASSUME TypeOK, KeysFollowDomains,
         (\E a, e, p : VoteNewParameters(a, e, p)) \/ (\E a : VerifyTee(a))
  PROVE  KeysFollowDomains'
<1>1. CASE \E p : phase # "Initializing" /\ TransitionToResharingNoChecks(p)
  BY <1>1, KeysTransition
<1>2. CASE UNCHANGED <<phase, running, key_event, reshared_keys>>
  BY <1>2, KeysFrame DEF running
<1> QED
  BY <1>1, <1>2 DEF VoteNewParameters, VerifyTee

\* New domains: their ids follow all ids given out before.
LEMMA KeysAddDomains ==
  ASSUME TypeOK, KeysFollowDomains, NEW a, NEW batch \in Batches, VoteAddDomains(a, batch)
  PROVE  KeysFollowDomains'
<1> DEFINE cast == Put(add_domains_votes, parameters.ids[a], batch)
           list == domains.list
<1>1. CASE NVotes(cast, batch, DOMAIN cast) = Size(parameters)
  <2>1. /\ CanAddDomains(domains, batch)
        /\ phase' = "Initializing"
        /\ domains' = AddDomains(domains, batch)
        /\ key_event' = NewKeyEvent(keyset.epoch_id, batch[1].id, parameters)
        /\ UNCHANGED keyset
        /\ batch # <<>>
        /\ phase = "Running"
    BY <1>1 DEF VoteAddDomains
  <2>2. /\ list \in Seq(DomainConfig) /\ Len(list) \in Nat /\ domains.next_domain_id \in Nat
        /\ batch \in Seq(DomainConfig) /\ Len(batch) \in Nat /\ Len(batch) > 0
    BY <2>1, InputAssumption, LenProperties, EmptySeq DEF TypeOK, DomainRegistry
  <2>3. /\ domains'.list = list \o batch
        /\ domains'.next_domain_id = domains.next_domain_id + Len(batch)
    BY <2>1 DEF AddDomains
  <2>4. /\ Len(domains'.list) = Len(list) + Len(batch)
        /\ \A i \in 1 .. Len(domains'.list) :
             domains'.list[i] = IF i <= Len(list) THEN list[i] ELSE batch[i - Len(list)]
    BY <2>2, <2>3, ConcatProperties, SMTT(60)
  <2>5. \A i \in 1 .. Len(batch) : batch[i].id = domains.next_domain_id + i - 1
    BY <2>1 DEF CanAddDomains
  <2>6. \A i \in 1 .. Len(list) : list[i].id \in Nat /\ list[i].id < domains.next_domain_id
    BY DomainIdType DEF TypeOK, KeysFollowDomains
  <2>7. \A i \in 1 .. Len(domains'.list) :
          IF i <= Len(list) THEN domains'.list[i].id = list[i].id
          ELSE domains'.list[i].id = domains.next_domain_id + (i - Len(list)) - 1
    <3> SUFFICES ASSUME NEW i \in 1 .. Len(domains'.list), ~(i <= Len(list))
                 PROVE  domains'.list[i].id = domains.next_domain_id + (i - Len(list)) - 1
      BY <2>4
    <3>1. i - Len(list) \in 1 .. Len(batch)
      BY <2>2, <2>4, SMTT(60)
    <3>2. batch[i - Len(list)].id = domains.next_domain_id + (i - Len(list)) - 1
      BY <2>5, <3>1
    <3> QED
      BY <2>4, <3>2
  <2>8. \A i, j \in 1 .. Len(domains'.list) : i < j => domains'.list[i].id < domains'.list[j].id
    <3> SUFFICES ASSUME NEW i \in 1 .. Len(domains'.list), NEW j \in 1 .. Len(domains'.list), i < j
                 PROVE  domains'.list[i].id < domains'.list[j].id
      OBVIOUS
    <3>1. \A x, y \in 1 .. Len(list) : x < y => list[x].id < list[y].id
      BY DEF KeysFollowDomains
    <3>2. CASE j <= Len(list)
      <4>1. i \in 1 .. Len(list) /\ j \in 1 .. Len(list)
        BY <2>2, <2>4, <3>2, SMTT(60)
      <4> QED
        BY <2>2, <2>4, <2>7, <3>1, <4>1, SMTT(60)
    <3>3. CASE j > Len(list) /\ i <= Len(list)
      <4>1. i \in 1 .. Len(list)
        BY <2>2, <3>3
      <4> QED
        <5>1. domains'.list[i].id = list[i].id /\ list[i].id \in Nat /\ list[i].id < domains.next_domain_id
          BY <2>6, <2>7, <3>3, <4>1, SMTT(60)
        <5>2. domains'.list[j].id = domains.next_domain_id + (j - Len(list)) - 1
          BY <2>2, <2>4, <2>7, <3>3, SMTT(60)
        <5>3. j \in Nat
          BY <2>2, <2>4, SMTT(60)
        <5> QED
          BY <2>2, <3>3, <5>1, <5>2, <5>3
    <3>4. CASE j > Len(list) /\ i > Len(list)
      BY <2>2, <2>4, <2>7, <3>4, SMTT(60)
    <3> QED
      BY <2>2, <2>4, <3>2, <3>3, <3>4, SMTT(60)
  <2>9. \A i \in 1 .. Len(domains'.list) : domains'.list[i].id < domains'.next_domain_id
    <3> SUFFICES ASSUME NEW i \in 1 .. Len(domains'.list)
                 PROVE  domains'.list[i].id < domains'.next_domain_id
      OBVIOUS
    <3>1. CASE i <= Len(list)
      <4>1. i \in 1 .. Len(list)
        BY <2>2, <3>1
      <4> QED
        BY <2>2, <2>3, <2>6, <2>7, <3>1, <4>1, SMTT(60)
    <3>2. CASE i > Len(list)
      BY <2>2, <2>3, <2>4, <2>7, <3>2, SMTT(60)
    <3> QED
      BY <2>2, <2>4, <3>1, <3>2, SMTT(60)
  <2>10. /\ Len(keyset.keys) = Len(list)
         /\ \A i \in 1 .. Len(keyset.keys) : keyset.keys[i].domain_id = list[i].id
    BY <2>1 DEF KeysFollowDomains
  <2>11. \A i \in 1 .. Len(keyset.keys) : keyset.keys[i].domain_id = domains'.list[i].id
    BY <2>2, <2>4, <2>10, SMTT(60)
  <2>12. key_event'.domain_id = domains'.list[Len(keyset.keys) + 1].id
    <3>1. key_event'.domain_id = batch[1].id
      BY <2>1 DEF NewKeyEvent
    <3>2. Len(list) + 1 \in 1 .. Len(domains'.list)
      BY <2>2, <2>4, SMTT(60)
    <3>3. domains'.list[Len(list) + 1] = batch[(Len(list) + 1) - Len(list)]
      BY <2>2, <2>4, <3>2, SMTT(60)
    <3> QED
      BY <2>2, <2>10, <3>1, <3>3, SMTT(60)
  <2> QED
    BY <2>1, <2>2, <2>4, <2>8, <2>9, <2>10, <2>11, <2>12 DEF KeysFollowDomains
<1>2. CASE NVotes(cast, batch, DOMAIN cast) # Size(parameters)
  <2>1. UNCHANGED <<phase, running, key_event, reshared_keys>>
    BY <1>2 DEF VoteAddDomains
  <2> QED
    BY <2>1, KeysFrame DEF running
<1> QED
  BY <1>1, <1>2

\* Steps within one attempt, and steps about attestations, touch neither
\* keys nor domains.
LEMMA KeysAttempt ==
  ASSUME TypeOK, KeysFollowDomains, phase # "Running", OnlyKeyEventChanges, NEW a, NEW pk,
         key_event' \in {Start(key_event, KeyEventTimeoutBlocks), DropInstance(key_event),
                        Age(key_event), VoteSuccess(key_event, a, pk)}
  PROVE  KeysFollowDomains'
<1>1. key_event'.domain_id = key_event.domain_id
  BY SameDomain DEF TypeOK
<1> QED
  BY <1>1, KeysFrame DEF OnlyKeyEventChanges, running

\* The new key belongs to the next domain without one.
LEMMA KeysVotePk ==
  ASSUME TypeOK, KeysFollowDomains, NEW a, NEW id, NEW pk \in PublicKeys, VotePk(a, id, pk)
  PROVE  KeysFollowDomains'
<1>1. phase = "Initializing" /\ VerifyVote(key_event, a, id)
  BY DEF VotePk
<1>2. CASE VoteNotFinal(a, pk) /\ OnlyKeyEventChanges
  BY <1>1, <1>2, KeysAttempt DEF VoteNotFinal
<1>3. CASE ~(VoteNotFinal(a, pk) /\ OnlyKeyEventChanges)
  <2> DEFINE keys      == Append(keyset.keys, KeyFor(id, pk))
             generated == [keyset EXCEPT !.keys = Append(@, KeyFor(id, pk))]
             list      == domains.list
  <2>1. IsKeyEvent(key_event) /\ keyset \in Keyset /\ domains \in DomainRegistry
    BY <1>1 DEF TypeOK
  <2>2. /\ keyset.keys \in Seq(KeyForDomain) /\ Len(keyset.keys) \in Nat
        /\ Len(list) \in Nat /\ Len(keyset.keys) < Len(list)
    BY <1>1, <2>1, LenProperties DEF Keyset, DomainRegistry, KeysFollowDomains
  <2>3. KeyFor(id, pk) \in KeyForDomain /\ KeyFor(id, pk).domain_id = list[Len(keyset.keys) + 1].id
    BY <1>1, <2>1, KeyForType DEF KeysFollowDomains
  <2>4. /\ Len(keys) = Len(keyset.keys) + 1
        /\ \A i \in 1 .. Len(keyset.keys) : keys[i] = keyset.keys[i]
        /\ keys[Len(keyset.keys) + 1] = KeyFor(id, pk)
    BY <2>2, <2>3, AppendProperties
  <2>5. \A i \in 1 .. Len(keys) : keys[i].domain_id = list[i].id
    <3>1. \A i \in 1 .. Len(keyset.keys) : keyset.keys[i].domain_id = list[i].id
      BY DEF KeysFollowDomains
    <3>2. \A i \in 1 .. Len(keys) : i \in 1 .. Len(keyset.keys) \/ i = Len(keyset.keys) + 1
      BY <2>2, <2>4
    <3> HIDE DEF keys
    <3> QED
      BY <2>3, <2>4, <3>1, <3>2
  <2>6. generated.keys = keys
    BY <2>1 DEF Keyset
  <2>7. /\ \A i, j \in 1 .. Len(list) : i < j => list[i].id < list[j].id
        /\ \A i \in 1 .. Len(list) : list[i].id < domains.next_domain_id
    BY DEF KeysFollowDomains
  <2>8. CASE Len(generated.keys) < Len(list)
    <3>1. /\ keyset' = generated
          /\ key_event' = NewKeyEvent(keyset.epoch_id, list[Len(generated.keys) + 1].id, key_event.parameters)
          /\ UNCHANGED <<phase, domains>>
      BY <1>3, <2>8 DEF VotePk
    <3>2. key_event'.domain_id = list[Len(keyset'.keys) + 1].id
      BY <3>1 DEF NewKeyEvent
    <3>3. keyset'.keys = keys
      BY <2>6, <3>1
    <3> HIDE DEF keys, generated
    <3> QED
      BY <1>1, <2>2, <2>4, <2>5, <2>6, <2>7, <2>8, <3>1, <3>2, <3>3, SMTT(60) DEF KeysFollowDomains
  <2>9. CASE ~(Len(generated.keys) < Len(list))
    <3>1. BecomeRunning(domains, generated, key_event.parameters, NoVotes)
      BY <1>3, <2>9 DEF VotePk
    <3> HIDE DEF keys, generated
    <3>2. Len(generated.keys) = Len(list)
      BY <2>2, <2>4, <2>6, <2>9
    <3> QED
      BY <2>2, <2>5, <2>6, <2>7, <3>1, <3>2, KeysOfRunning
  <2> QED
    BY <2>8, <2>9
<1> QED
  BY <1>2, <1>3

\* The reshared key is the one that the domain has had.
LEMMA KeysVoteReshared ==
  ASSUME TypeOK, KeysFollowDomains, NEW a, NEW id, VoteReshared(a, id)
  PROVE  KeysFollowDomains'
<1> DEFINE pk == PreviousKey
<1>1. /\ phase = "Resharing" /\ VerifyVote(key_event, a, id) /\ pk \in PublicKeys
      /\ pk = keyset.keys[Len(reshared_keys) + 1].key
  BY PreviousKeyType DEF VoteReshared, PreviousKey
<1> HIDE DEF pk
<1>2. CASE VoteNotFinal(a, pk) /\ OnlyKeyEventChanges
  BY <1>1, <1>2, KeysAttempt DEF VoteNotFinal
<1>3. CASE ~(VoteNotFinal(a, pk) /\ OnlyKeyEventChanges)
  <2> DEFINE reshared == Append(reshared_keys, KeyFor(id, pk))
             list     == domains.list
  <2>1. IsKeyEvent(key_event) /\ domains \in DomainRegistry
    BY <1>1 DEF TypeOK
  <2>2. /\ reshared_keys \in Seq(KeyForDomain) /\ Len(reshared_keys) \in Nat
        /\ Len(list) \in Nat /\ Len(reshared_keys) < Len(list) /\ Len(keyset.keys) = Len(list)
    BY <1>1, <2>1, LenProperties DEF TypeOK, DomainRegistry, KeysFollowDomains
  <2>3. /\ KeyFor(id, pk) \in KeyForDomain /\ KeyFor(id, pk).domain_id = list[Len(reshared_keys) + 1].id
        /\ KeyFor(id, pk).key = pk
    BY <1>1, <2>1, KeyForType DEF KeysFollowDomains, KeyFor
  <2>4. /\ Len(reshared) = Len(reshared_keys) + 1
        /\ \A i \in 1 .. Len(reshared_keys) : reshared[i] = reshared_keys[i]
        /\ reshared[Len(reshared_keys) + 1] = KeyFor(id, pk)
    BY <2>2, <2>3, AppendProperties
  <2>5. \A i \in 1 .. Len(reshared) : /\ reshared[i].domain_id = list[i].id
                                      /\ reshared[i].key = keyset.keys[i].key
    <3>1. \A i \in 1 .. Len(reshared_keys) : /\ reshared_keys[i].domain_id = list[i].id
                                             /\ reshared_keys[i].key = keyset.keys[i].key
      BY <1>1 DEF KeysFollowDomains
    <3>2. \A i \in 1 .. Len(reshared) : i \in 1 .. Len(reshared_keys) \/ i = Len(reshared_keys) + 1
      BY <2>2, <2>4
    <3> HIDE DEF reshared
    <3> QED
      BY <1>1, <2>3, <2>4, <3>1, <3>2
  <2>6. /\ \A i, j \in 1 .. Len(list) : i < j => list[i].id < list[j].id
        /\ \A i \in 1 .. Len(list) : list[i].id < domains.next_domain_id
        /\ \A i \in 1 .. Len(keyset.keys) : keyset.keys[i].domain_id = list[i].id
    BY DEF KeysFollowDomains
  <2>7. CASE Len(reshared) < Len(list)
    <3>1. /\ reshared_keys' = reshared
          /\ key_event' = NewKeyEvent(key_event.epoch_id, list[Len(reshared) + 1].id, key_event.parameters)
          /\ UNCHANGED <<phase, running>>
      BY <1>3, <2>7 DEF VoteReshared, pk
    <3>2. key_event'.domain_id = list[Len(reshared_keys') + 1].id
      BY <3>1 DEF NewKeyEvent
    <3> HIDE DEF reshared
    <3> QED
      BY <1>1, <2>2, <2>5, <2>6, <2>7, <3>1, <3>2 DEF KeysFollowDomains, running
  <2>8. CASE ~(Len(reshared) < Len(list))
    <3> DEFINE keys == [epoch_id |-> key_event.epoch_id, keys |-> reshared]
    <3>1. BecomeRunning(domains, keys, key_event.parameters, add_domains_votes)
      BY <1>3, <2>8 DEF VoteReshared, pk
    <3>2. keys.keys = reshared
      OBVIOUS
    <3> HIDE DEF keys, reshared
    <3>3. Len(keys.keys) = Len(list)
      BY <2>2, <2>4, <2>8, <3>2
    <3> QED
      BY <2>2, <2>5, <2>6, <3>1, <3>2, <3>3, KeysOfRunning
  <2> QED
    BY <2>7, <2>8
<1> QED
  BY <1>2, <1>3

\* Cancelling keeps the domains that have a key, or the previous state.
LEMMA KeysCancel ==
  ASSUME TypeOK, KeysFollowDomains,
         (\E a, d : VoteCancelKeygen(a, d)) \/ (\E a : VoteCancelResharing(a))
  PROVE  KeysFollowDomains'
<1>1. CASE UNCHANGED <<phase, running, key_event, reshared_keys>>
  BY <1>1, KeysFrame DEF running
<1>2. CASE /\ phase = "Initializing"
           /\ BecomeRunning(RetainDomains(domains, Len(keyset.keys)), keyset, key_event.parameters, NoVotes)
  <2> DEFINE list == SubSeq(domains.list, 1, Len(keyset.keys))
             kept == RetainDomains(domains, Len(keyset.keys))
  <2>1. domains \in DomainRegistry /\ keyset \in Keyset
    BY DEF TypeOK
  <2>2. /\ domains.list \in Seq(DomainConfig) /\ Len(domains.list) \in Nat
        /\ Len(keyset.keys) \in Nat /\ Len(keyset.keys) <= Len(domains.list)
    BY <2>1, LenProperties DEF DomainRegistry, Keyset, KeysFollowDomains
  <2>3. Len(list) = Len(keyset.keys) /\ \A i \in 1 .. Len(keyset.keys) : list[i] = domains.list[i]
    BY <2>2, SubSeqProperties
  <2>4. kept.list = list /\ kept.next_domain_id = domains.next_domain_id
    BY <2>1 DEF RetainDomains, DomainRegistry
  <2>5. /\ \A i, j \in 1 .. Len(domains.list) : i < j => domains.list[i].id < domains.list[j].id
        /\ \A i \in 1 .. Len(domains.list) : domains.list[i].id < domains.next_domain_id
        /\ \A i \in 1 .. Len(keyset.keys) : keyset.keys[i].domain_id = domains.list[i].id
    BY DEF KeysFollowDomains
  <2>6. 1 .. Len(keyset.keys) \subseteq 1 .. Len(domains.list)
    BY <2>2
  <2>7. BecomeRunning(kept, keyset, key_event.parameters, NoVotes)
    BY <1>2
  <2>8. /\ Len(kept.list) = Len(keyset.keys)
        /\ \A i \in 1 .. Len(kept.list) : kept.list[i] = domains.list[i] /\ i \in 1 .. Len(domains.list)
    BY <2>3, <2>4, <2>6
  <2> HIDE DEF kept, list
  <2>9. /\ \A i \in 1 .. Len(kept.list) : keyset.keys[i].domain_id = kept.list[i].id
        /\ \A i, j \in 1 .. Len(kept.list) : i < j => kept.list[i].id < kept.list[j].id
        /\ \A i \in 1 .. Len(kept.list) : kept.list[i].id < kept.next_domain_id
    BY <2>4, <2>5, <2>8
  <2> QED
    BY <2>2, <2>7, <2>8, <2>9, KeysOfRunning
<1>3. CASE phase = "Resharing" /\ phase' = "Running" /\ UNCHANGED running
  BY <1>3 DEF KeysFollowDomains, running
<1> QED
  BY <1>1, <1>2, <1>3 DEF VoteCancelKeygen, VoteCancelResharing

(***************************************************************************)
(* The first inductive invariant.                                          *)
(***************************************************************************)
TypeInv == TypeOK /\ KeysFollowDomains

\* init and init_running establish it.
LEMMA InitTypeInv == Init => TypeInv
<1> SUFFICES ASSUME Init PROVE TypeInv
  OBVIOUS
<1>1. domains \in DomainRegistry /\ keyset \in Keyset /\ KeysFollowDomains
  <2>1. PICK s \in InitialStates \union {FreshContract} : domains = s.domains /\ keyset = s.keyset
    BY DEF Init
  <2>2. s \in [domains : DomainRegistry, keyset : Keyset] /\ CanInitRunning(s)
    <3>1. CASE s \in InitialStates
      BY <3>1, InitAssumption
    <3>2. CASE s = FreshContract
      BY <3>2, EmptySeq DEF FreshContract, DomainRegistry, Keyset, CanInitRunning
    <3> QED
      BY <3>1, <3>2
  <2> QED
    BY <2>1, <2>2, LenProperties DEF CanInitRunning, KeysFollowDomains, Init, DomainRegistry
<1>2. TypeOK
  BY <1>1, NoVotesType, InitAssumption, EmptySeq DEF TypeOK, Init
<1> QED
  BY <1>1, <1>2 DEF TypeInv

\* Every step keeps it.
LEMMA NextTypeInv == TypeInv /\ [Next]_vars => TypeInv'
<1> SUFFICES ASSUME TypeOK, KeysFollowDomains, [Next]_vars PROVE TypeOK' /\ KeysFollowDomains'
  BY DEF TypeInv
<1>1. CASE \E a \in Accounts, e \in 0 .. MaxEpoch, p \in Proposals : VoteNewParameters(a, e, p)
  BY <1>1, VoteNewParametersType, KeysParameters
<1>2. CASE \E a \in Accounts : VoteCancelResharing(a)
  BY <1>2, VoteCancelResharingType, KeysCancel
<1>3. CASE \E a \in Accounts, batch \in Batches : VoteAddDomains(a, batch)
  BY <1>3, VoteAddDomainsType, KeysAddDomains
<1>4. CASE \E a \in Accounts, ph \in {"Initializing", "Resharing"} : \E id : StartInstance(ph, a, id)
  <2>1. phase # "Running" /\ OnlyKeyEventChanges /\ key_event' = Start(key_event, KeyEventTimeoutBlocks)
    BY <1>4 DEF StartInstance
  <2> QED
    BY <1>4, <2>1, StartInstanceType, KeysAttempt
<1>5. CASE \E a \in Accounts, pk \in PublicKeys : \E id : VotePk(a, id, pk)
  BY <1>5, VotePkType, KeysVotePk
<1>6. CASE \E a \in Accounts : \E id : VoteReshared(a, id)
  BY <1>6, VoteResharedType, KeysVoteReshared
<1>7. CASE (\E a \in Accounts : \E id : VoteAbortKeyEventInstance(a, id)) \/ Tick
  <2>1. /\ phase # "Running" /\ OnlyKeyEventChanges
        /\ key_event' = DropInstance(key_event) \/ key_event' = Age(key_event)
    BY <1>7 DEF VoteAbortKeyEventInstance, Tick
  <2>2. (\E a, id : VoteAbortKeyEventInstance(a, id)) \/ Tick
    BY <1>7
  <2> QED
    BY <2>1, <2>2, AbortAndTickType, KeysAttempt
<1>8. CASE \E a \in Accounts : \E d : VoteCancelKeygen(a, d)
  BY <1>8, VoteCancelKeygenType, KeysCancel
<1>9. CASE CleanTeeStatus \/ \E a \in Submitters : SubmitParticipantInfo(a) \/ AttestationLapses(a)
  <2>1. UNCHANGED <<phase, running, key_event, reshared_keys>>
    BY <1>9 DEF CleanTeeStatus, SubmitParticipantInfo, AttestationLapses
  <2> QED
    BY <1>9, <2>1, AttestationType, KeysFrame DEF running
<1>10. CASE \E a \in Accounts : VerifyTee(a)
  BY <1>10, VerifyTeeType, KeysParameters
<1>11. CASE UNCHANGED vars
  BY <1>11 DEF vars, running, votes, cancels, tee, TypeOK, KeysFollowDomains
<1>12. CASE \E a \in Accounts : \E id : KeyEventCall(a, id)
  <2>0. PICK a \in Accounts : \E i : KeyEventCall(a, i)
    BY <1>12
  <2> PICK id : KeyEventCall(a, id)
    BY <2>0
  <2>1. CASE StartKeygenInstance(a, id)
    BY <1>4, <2>1 DEF StartKeygenInstance
  <2>2. CASE StartReshareInstance(a, id)
    BY <1>4, <2>2 DEF StartReshareInstance
  <2> QED
    BY <1>5, <1>6, <1>7, <2>1, <2>2 DEF KeyEventCall
<1> QED
  BY <1>1, <1>2, <1>3, <1>7, <1>8, <1>9, <1>10, <1>11, <1>12 DEF Next, OtherNext

\* The contract keeps the types of its state, and its keys and the key event
\* under way stay in step with the domain registry, whatever is voted.
THEOREM KeysFollowDomainsAlways == Spec => [](TypeOK /\ KeysFollowDomains)
<1>1. Init => TypeInv
  BY InitTypeInv
<1>2. TypeInv /\ [Next]_vars => TypeInv'
  BY NextTypeInv
<1> QED
  BY <1>1, <1>2, PTL DEF Spec, TypeInv

(***************************************************************************)
(* Epochs, and the stability of the keys.                                  *)
(***************************************************************************)

\* A proposal moves to a later epoch.
LEMMA ProspectiveEpochAhead ==
  ASSUME TypeOK, EpochAhead
  PROVE  ProspectiveEpoch > keyset.epoch_id
<1>1. keyset.epoch_id \in Nat
  BY DEF TypeOK, Keyset
<1>2. phase = "Resharing" => key_event.epoch_id \in Nat
  BY DEF TypeOK, IsKeyEvent
<1> QED
  BY <1>1, <1>2 DEF TypeOK, ProspectiveEpoch, EpochAhead, NoEpoch

\* The operations on an attempt stay within its epoch.
LEMMA SameEpoch ==
  ASSUME NEW ke, IsKeyEvent(ke), NEW a, NEW pk
  PROVE  /\ Start(ke, KeyEventTimeoutBlocks).epoch_id = ke.epoch_id
         /\ DropInstance(ke).epoch_id = ke.epoch_id
         /\ Age(ke).epoch_id = ke.epoch_id
         /\ VoteSuccess(ke, a, pk).epoch_id = ke.epoch_id
BY DEF IsKeyEvent, Start, DropInstance, Age, VoteSuccess

\* What a step can do to phase, domains, keyset, reshared keys and epochs.
StepShape ==
  \/ UNCHANGED <<phase, domains, keyset, reshared_keys, previously_cancelled>>
     /\ key_event'.epoch_id = key_event.epoch_id
  \/ \E p : phase # "Initializing" /\ TransitionToResharingNoChecks(p)
  \/ /\ phase = "Running" /\ phase' = "Initializing" /\ UNCHANGED keyset
     /\ key_event'.epoch_id = keyset.epoch_id /\ previously_cancelled' = NoEpoch
     /\ \E batch \in Batches : CanAddDomains(domains, batch) /\ domains' = AddDomains(domains, batch)
  \/ /\ phase = "Initializing"
     /\ \E k \in KeyForDomain : keyset' = [keyset EXCEPT !.keys = Append(@, k)]
     /\ UNCHANGED domains
     /\ \/ UNCHANGED <<phase, previously_cancelled>> /\ key_event'.epoch_id = keyset.epoch_id
        \/ phase' = "Running" /\ previously_cancelled' = NoEpoch
  \/ /\ phase = "Resharing" /\ UNCHANGED <<phase, domains, keyset, previously_cancelled>>
     /\ key_event'.epoch_id = key_event.epoch_id
  \/ /\ phase = "Resharing" /\ phase' = "Running" /\ previously_cancelled' = NoEpoch
     /\ keyset'.epoch_id = key_event.epoch_id /\ UNCHANGED domains
     /\ \E k \in KeyForDomain : k.key = PreviousKey /\ keyset'.keys = Append(reshared_keys, k)
  \/ /\ phase = "Initializing" /\ phase' = "Running" /\ previously_cancelled' = NoEpoch
     /\ UNCHANGED keyset /\ domains' = RetainDomains(domains, Len(keyset.keys))
  \/ /\ phase = "Resharing" /\ phase' = "Running" /\ UNCHANGED <<domains, keyset>>
     /\ previously_cancelled' = key_event.epoch_id

\* Every step has one of these shapes.
LEMMA StepShapes == TypeInv /\ [Next]_vars => StepShape
<1> SUFFICES ASSUME TypeOK, KeysFollowDomains, [Next]_vars PROVE StepShape
  BY DEF TypeInv
<1>1. ASSUME NEW a, NEW e, NEW p, VoteNewParameters(a, e, p) PROVE StepShape
  BY <1>1 DEF VoteNewParameters, StepShape, running
<1>2. ASSUME NEW a, VoteCancelResharing(a) PROVE StepShape
  BY <1>2 DEF VoteCancelResharing, StepShape, running
<1>3. ASSUME NEW a, NEW batch \in Batches, VoteAddDomains(a, batch) PROVE StepShape
  BY <1>3 DEF VoteAddDomains, StepShape, running, NewKeyEvent
<1>4. ASSUME phase # "Running", OnlyKeyEventChanges, NEW a, NEW pk,
             key_event' \in {Start(key_event, KeyEventTimeoutBlocks), DropInstance(key_event),
                            Age(key_event), VoteSuccess(key_event, a, pk)}
      PROVE  StepShape
  <2>1. key_event'.epoch_id = key_event.epoch_id
    BY <1>4, SameEpoch DEF TypeOK
  <2> QED
    BY <1>4, <2>1 DEF StepShape, OnlyKeyEventChanges, running, votes
<1>5. ASSUME NEW a, NEW id, NEW ph \in {"Initializing", "Resharing"}, StartInstance(ph, a, id)
      PROVE  StepShape
  BY <1>4, <1>5 DEF StartInstance
<1>6. ASSUME NEW a, NEW id, VoteAbortKeyEventInstance(a, id) PROVE StepShape
  BY <1>4, <1>6 DEF VoteAbortKeyEventInstance
<1>7. CASE Tick
  BY <1>4, <1>7 DEF Tick
<1>8. ASSUME NEW a, NEW id, NEW pk \in PublicKeys, VotePk(a, id, pk) PROVE StepShape
  <2>1. CASE VoteNotFinal(a, pk) /\ OnlyKeyEventChanges
    <3>1. phase # "Running"
      BY <1>8 DEF VotePk
    <3> QED
      BY <1>4, <2>1, <3>1 DEF VoteNotFinal
  <2>2. CASE ~(VoteNotFinal(a, pk) /\ OnlyKeyEventChanges)
    <3> DEFINE k         == KeyFor(id, pk)
               generated == [keyset EXCEPT !.keys = Append(@, k)]
    <3>1. phase = "Initializing" /\ IsKeyEvent(key_event) /\ VerifyVote(key_event, a, id)
      BY <1>8 DEF VotePk, TypeOK
    <3>2. k \in KeyForDomain
      BY <3>1, KeyForType
    <3>3. \/ /\ keyset' = generated
             /\ key_event'.epoch_id = keyset.epoch_id
             /\ UNCHANGED <<phase, domains, previously_cancelled>>
          \/ BecomeRunning(domains, generated, key_event.parameters, NoVotes)
      BY <1>8, <2>2 DEF VotePk, NewKeyEvent, votes
    <3> HIDE DEF k
    <3> QED
      BY <3>1, <3>2, <3>3 DEF StepShape, BecomeRunning
  <2> QED
    BY <2>1, <2>2
<1>9. ASSUME NEW a, NEW id, VoteReshared(a, id) PROVE StepShape
  <2> DEFINE pk == PreviousKey
  <2>1. CASE VoteNotFinal(a, pk) /\ OnlyKeyEventChanges
    <3>1. phase # "Running"
      BY <1>9 DEF VoteReshared
    <3> HIDE DEF pk
    <3> QED
      BY <1>4, <2>1, <3>1 DEF VoteNotFinal
  <2>2. CASE ~(VoteNotFinal(a, pk) /\ OnlyKeyEventChanges)
    <3> DEFINE k        == KeyFor(id, pk)
               reshared == Append(reshared_keys, k)
    <3>1. /\ phase = "Resharing" /\ IsKeyEvent(key_event) /\ VerifyVote(key_event, a, id)
          /\ pk \in PublicKeys
      BY <1>9, PreviousKeyType DEF VoteReshared, TypeOK
    <3>2. k \in KeyForDomain /\ k.key = PreviousKey
      BY <3>1, KeyForType DEF KeyFor
    <3>3. \/ /\ key_event'.epoch_id = key_event.epoch_id
             /\ UNCHANGED <<phase, domains, keyset, previously_cancelled>>
          \/ BecomeRunning(domains, [epoch_id |-> key_event.epoch_id, keys |-> reshared],
                           key_event.parameters, add_domains_votes)
      BY <1>9, <2>2 DEF VoteReshared, NewKeyEvent, votes, running
    <3> HIDE DEF k
    <3> QED
      BY <3>1, <3>2, <3>3 DEF StepShape, BecomeRunning
  <2> QED
    BY <2>1, <2>2
<1>10. ASSUME NEW a, NEW d, VoteCancelKeygen(a, d) PROVE StepShape
  <2>1. \/ UNCHANGED <<phase, running, votes, key_event, reshared_keys>>
        \/ /\ phase = "Initializing"
           /\ BecomeRunning(RetainDomains(domains, Len(keyset.keys)), keyset,
                            key_event.parameters, NoVotes)
    BY <1>10 DEF VoteCancelKeygen
  <2> QED
    BY <2>1 DEF StepShape, BecomeRunning, running, votes
<1>11. CASE CleanTeeStatus \/ \E a \in Submitters : SubmitParticipantInfo(a) \/ AttestationLapses(a)
  <2>1. UNCHANGED <<phase, running, votes, key_event, reshared_keys>>
    BY <1>11 DEF CleanTeeStatus, SubmitParticipantInfo, AttestationLapses
  <2> QED
    BY <2>1 DEF StepShape, running, votes
<1>12. ASSUME NEW a, VerifyTee(a) PROVE StepShape
  <2>1. \/ UNCHANGED <<phase, running, votes, key_event, reshared_keys, cancels>>
        \/ \E p : phase # "Initializing" /\ TransitionToResharingNoChecks(p)
    BY <1>12 DEF VerifyTee
  <2> QED
    BY <2>1 DEF StepShape, running, votes
<1>13. CASE UNCHANGED vars
  BY <1>13 DEF vars, running, votes, StepShape
<1>14. ASSUME NEW a, NEW id, KeyEventCall(a, id) PROVE StepShape
  BY <1>5, <1>6, <1>8, <1>9, <1>14 DEF KeyEventCall, StartKeygenInstance, StartReshareInstance
<1> QED
  BY <1>1, <1>2, <1>3, <1>7, <1>10, <1>11, <1>12, <1>13, <1>14 DEF Next, OtherNext

\* The invariant behind the stability of keys.
EpochInv == TypeInv /\ EpochAhead

\* No key is in use or being reshared initially.
LEMMA InitEpochInv == Init => EpochInv
BY InitTypeInv DEF EpochInv, EpochAhead, Init, NoEpoch

\* Adopting new parameters moves ahead and keeps the keys.
LEMMA TransitionEpoch ==
  ASSUME EpochInv, phase # "Initializing", NEW p, TransitionToResharingNoChecks(p)
  PROVE  EpochAhead' /\ KeysStableStep /\ NewDomainIdsStep
<1>1. /\ TypeOK /\ KeysFollowDomains /\ EpochAhead /\ keyset.epoch_id \in Nat
      /\ keyset.keys \in Seq(KeyForDomain) /\ Len(keyset.keys) \in Nat
      /\ domains.next_domain_id \in Nat /\ Len(domains.list) \in Nat
  BY LenProperties DEF EpochInv, TypeInv, TypeOK, Keyset, DomainRegistry
<1>2. CASE Len(domains.list) > 0
  <2>1. BecomeResharing(ProspectiveEpoch, p)
    BY <1>2 DEF TransitionToResharingNoChecks
  <2>2. /\ phase' = "Resharing" /\ key_event'.epoch_id = ProspectiveEpoch
        /\ previously_cancelled' = NoEpoch /\ UNCHANGED <<domains, keyset>>
    BY <2>1 DEF BecomeResharing, NewKeyEvent, running
  <2>3. ProspectiveEpoch > keyset.epoch_id
    BY <1>1, ProspectiveEpochAhead
  <2> QED
    BY <1>1, <2>2, <2>3 DEF EpochAhead, KeysStableStep, NewDomainIdsStep
<1>3. CASE ~(Len(domains.list) > 0)
  <2>1. /\ phase' = "Running" /\ previously_cancelled' = NoEpoch /\ UNCHANGED domains
        /\ keyset' = [epoch_id |-> keyset.epoch_id + 1, keys |-> <<>>]
    BY <1>3 DEF TransitionToResharingNoChecks, BecomeRunning
  <2>2. Len(keyset.keys) = 0
    BY <1>1, <1>3 DEF KeysFollowDomains
  <2>3. keyset'.epoch_id = keyset.epoch_id + 1 /\ Len(keyset'.keys) = 0
    BY <2>1
  <2> QED
    BY <1>1, <2>1, <2>2, <2>3 DEF EpochAhead, KeysStableStep, NewDomainIdsStep
<1> QED
  BY <1>2, <1>3

\* Every step keeps the invariant and is a stable step.
LEMMA NextEpochInv ==
  EpochInv /\ [Next]_vars => EpochInv' /\ KeysStableStep /\ NewDomainIdsStep
<1> SUFFICES ASSUME EpochInv, [Next]_vars PROVE EpochAhead' /\ KeysStableStep /\ NewDomainIdsStep
  BY NextTypeInv DEF EpochInv
<1>1. /\ TypeOK /\ KeysFollowDomains /\ EpochAhead /\ keyset \in Keyset /\ keyset.epoch_id \in Nat
      /\ keyset.keys \in Seq(KeyForDomain) /\ Len(keyset.keys) \in Nat
      /\ domains \in DomainRegistry /\ domains.list \in Seq(DomainConfig)
      /\ domains.next_domain_id \in Nat /\ Len(domains.list) \in Nat
  BY LenProperties DEF EpochInv, TypeInv, TypeOK, Keyset, DomainRegistry
<1>2. StepShape
  BY StepShapes DEF EpochInv
<1>3. ASSUME UNCHANGED <<phase, domains, keyset, previously_cancelled>>,
             key_event'.epoch_id = key_event.epoch_id
      PROVE  EpochAhead' /\ KeysStableStep /\ NewDomainIdsStep
  BY <1>1, <1>3 DEF EpochAhead, KeysStableStep, NewDomainIdsStep
<1>4. ASSUME NEW p, phase # "Initializing", TransitionToResharingNoChecks(p)
      PROVE  EpochAhead' /\ KeysStableStep /\ NewDomainIdsStep
  BY <1>4, TransitionEpoch
<1>5. ASSUME phase = "Running", phase' = "Initializing", UNCHANGED keyset,
             key_event'.epoch_id = keyset.epoch_id, previously_cancelled' = NoEpoch,
             NEW batch \in Batches, CanAddDomains(domains, batch), domains' = AddDomains(domains, batch)
      PROVE  EpochAhead' /\ KeysStableStep /\ NewDomainIdsStep
  <2>1. EpochAhead' /\ KeysStableStep
    BY <1>1, <1>5 DEF EpochAhead, KeysStableStep
  <2>2. batch \in Seq(DomainConfig) /\ Len(batch) \in Nat
    BY InputAssumption, LenProperties
  <2>3. /\ domains'.next_domain_id = domains.next_domain_id + Len(batch)
        /\ Len(domains'.list) = Len(domains.list) + Len(batch)
        /\ \A i \in 1 .. Len(domains'.list) :
             domains'.list[i] = IF i <= Len(domains.list) THEN domains.list[i]
                                ELSE batch[i - Len(domains.list)]
    BY <1>1, <1>5, <2>2, ConcatProperties DEF AddDomains
  <2>4. ASSUME NEW i \in 1 .. Len(domains'.list), ~(i <= Len(domains.list))
        PROVE  domains'.list[i].id >= domains.next_domain_id
    <3>1. i - Len(domains.list) \in 1 .. Len(batch)
      BY <1>1, <2>2, <2>3, <2>4
    <3>2. batch[i - Len(domains.list)].id = domains.next_domain_id + (i - Len(domains.list)) - 1
      BY <1>5, <3>1 DEF CanAddDomains
    <3>3. domains'.list[i].id = domains.next_domain_id + (i - Len(domains.list)) - 1
      BY <2>3, <2>4, <3>2
    <3> QED
      BY <1>1, <2>2, <3>1, <3>3
  <2> QED
    BY <1>1, <2>1, <2>2, <2>3, <2>4 DEF NewDomainIdsStep
<1>6. ASSUME phase = "Initializing", NEW k \in KeyForDomain,
             keyset' = [keyset EXCEPT !.keys = Append(@, k)], UNCHANGED domains,
             \/ UNCHANGED <<phase, previously_cancelled>> /\ key_event'.epoch_id = keyset.epoch_id
             \/ phase' = "Running" /\ previously_cancelled' = NoEpoch
      PROVE  EpochAhead' /\ KeysStableStep /\ NewDomainIdsStep
  <2>1. keyset'.epoch_id = keyset.epoch_id /\ keyset'.keys = Append(keyset.keys, k)
    BY <1>1, <1>6 DEF Keyset
  <2>2. /\ Len(keyset'.keys) = Len(keyset.keys) + 1
        /\ \A i \in 1 .. Len(keyset.keys) : keyset'.keys[i] = keyset.keys[i]
    BY <1>1, <1>6, <2>1, AppendProperties
  <2>3. EpochAhead'
    BY <1>1, <1>6, <2>1 DEF EpochAhead, NoEpoch
  <2> QED
    BY <1>1, <1>6, <2>1, <2>2, <2>3 DEF KeysStableStep, NewDomainIdsStep
<1>7. ASSUME phase = "Resharing", phase' = "Running", previously_cancelled' = NoEpoch,
             keyset'.epoch_id = key_event.epoch_id, UNCHANGED domains,
             NEW k \in KeyForDomain, k.key = PreviousKey, keyset'.keys = Append(reshared_keys, k)
      PROVE  EpochAhead' /\ KeysStableStep /\ NewDomainIdsStep
  <2>1. TypeOK' /\ KeysFollowDomains'
    BY NextTypeInv DEF EpochInv, TypeInv
  <2>2. Len(keyset'.keys) = Len(keyset.keys) /\ keyset'.epoch_id > keyset.epoch_id
    BY <1>1, <1>7, <2>1 DEF KeysFollowDomains, EpochAhead
  <2>3. \A i \in 1 .. Len(keyset.keys) : keyset'.keys[i].domain_id = keyset.keys[i].domain_id
    BY <1>1, <1>7, <2>1, <2>2 DEF KeysFollowDomains
  <2>4. key_event.epoch_id \in Nat
    BY <1>1, <1>7 DEF TypeOK, IsKeyEvent
  <2>5. \A i \in 1 .. Len(keyset.keys) : keyset'.keys[i].key = keyset.keys[i].key
    <3>1. reshared_keys \in Seq(KeyForDomain) /\ Len(reshared_keys) \in Nat
      BY <1>1, LenProperties DEF TypeOK
    <3>2. /\ Len(keyset'.keys) = Len(reshared_keys) + 1
          /\ \A i \in 1 .. Len(reshared_keys) : keyset'.keys[i] = reshared_keys[i]
          /\ keyset'.keys[Len(reshared_keys) + 1] = k
      BY <1>7, <3>1, AppendProperties
    <3>3. \A i \in 1 .. Len(reshared_keys) : reshared_keys[i].key = keyset.keys[i].key
      BY <1>1, <1>7 DEF KeysFollowDomains
    <3>4. k.key = keyset.keys[Len(reshared_keys) + 1].key
      BY <1>7 DEF PreviousKey
    <3>5. \A i \in 1 .. Len(keyset.keys) : i \in 1 .. Len(reshared_keys) \/ i = Len(reshared_keys) + 1
      BY <2>2, <3>1, <3>2
    <3> QED
      BY <3>2, <3>3, <3>4, <3>5
  <2> QED
    BY <1>1, <1>7, <2>2, <2>3, <2>4, <2>5 DEF EpochAhead, KeysStableStep, NewDomainIdsStep
<1>8. ASSUME phase = "Initializing", phase' = "Running", previously_cancelled' = NoEpoch,
             UNCHANGED keyset, domains' = RetainDomains(domains, Len(keyset.keys))
      PROVE  EpochAhead' /\ KeysStableStep /\ NewDomainIdsStep
  <2>1. Len(keyset.keys) <= Len(domains.list)
    BY <1>1 DEF KeysFollowDomains
  <2>2. /\ domains'.next_domain_id = domains.next_domain_id
        /\ domains'.list = SubSeq(domains.list, 1, Len(keyset.keys))
    BY <1>1, <1>8 DEF RetainDomains, DomainRegistry
  <2>3. Len(domains'.list) = Len(keyset.keys) /\ \A i \in 1 .. Len(keyset.keys) : domains'.list[i] = domains.list[i]
    BY <1>1, <2>1, <2>2, SubSeqProperties
  <2> QED
    BY <1>1, <1>8, <2>1, <2>2, <2>3 DEF EpochAhead, KeysStableStep, NewDomainIdsStep
<1>9. ASSUME phase = "Resharing", phase' = "Running", UNCHANGED <<domains, keyset>>,
             previously_cancelled' = key_event.epoch_id
      PROVE  EpochAhead' /\ KeysStableStep /\ NewDomainIdsStep
  BY <1>1, <1>9 DEF EpochAhead, KeysStableStep, NewDomainIdsStep
<1> QED
  BY <1>2, <1>3, <1>4, <1>5, <1>6, <1>7, <1>8, <1>9 DEF StepShape

\* Resharings and the remembered cancelled epoch are always ahead of the keys
\* in use.
THEOREM EpochAheadAlways == Spec => []EpochAhead
<1>1. Init => EpochInv
  BY InitEpochInv
<1>2. EpochInv /\ [Next]_vars => EpochInv'
  BY NextEpochInv
<1>3. EpochInv => EpochAhead
  BY DEF EpochInv
<1> QED
  BY <1>1, <1>2, <1>3, PTL DEF Spec

\* The public key of a domain never changes or disappears, and its share is
\* renamed only in a later epoch.
THEOREM KeysStableAlways == Spec => KeysStable
<1>1. Init => EpochInv
  BY InitEpochInv
<1>2. EpochInv /\ [Next]_vars => EpochInv' /\ [KeysStableStep]_vars
  BY NextEpochInv
<1> QED
  BY <1>1, <1>2, PTL DEF Spec, KeysStable

\* No domain is ever registered under an id that was given out before.
THEOREM DomainIdsNotReusedAlways == Spec => DomainIdsNotReused
<1>1. Init => EpochInv
  BY InitEpochInv
<1>2. EpochInv /\ [Next]_vars => EpochInv' /\ [NewDomainIdsStep]_vars
  BY NextEpochInv
<1> QED
  BY <1>1, <1>2, PTL DEF Spec, DomainIdsNotReused

\* The two together: for any accounts, proposals, batches of domains and
\* bounds, the contract's keys stay in step with its domains and key events,
\* and epochs only move ahead.
THEOREM KeysInStepAlways == Spec => []KeysInStep
<1>1. TypeOK /\ KeysFollowDomains /\ EpochAhead => KeysInStep
  BY DEF KeysInStep
<1> QED
  BY <1>1, KeysFollowDomainsAlways, EpochAheadAlways, PTL

\* No step of the contract changes or withdraws a key, renames a share within
\* an epoch or gives out a domain id a second time.
THEOREM KeyHistoryStableAlways == Spec => KeyHistoryStable
<1>1. KeysStable /\ DomainIdsNotReused => KeyHistoryStable
  BY DEF KeyHistoryStable
<1> QED
  BY <1>1, KeysStableAlways, DomainIdsNotReusedAlways, PTL

(***************************************************************************)
(* The participants behind every step.                                     *)
(***************************************************************************)

\* Votes to cancel a key generation do not outlive it: the next one starts
\* from cancels it did not reset.
CancelVotesCleared == phase # "Initializing" => cancel_votes = {}

\* The inductive invariant behind ParametersSound.
ParametersInv == TypeInv /\ ParametersSound /\ CancelVotesCleared

\* The operations on an attempt stay with its participants and add at most
\* the vote of one of them.
LEMMA SameParameters ==
  ASSUME NEW ke, IsKeyEvent(ke), NEW a, NEW pk
  PROVE  /\ Start(ke, KeyEventTimeoutBlocks).parameters = ke.parameters
         /\ DropInstance(ke).parameters = ke.parameters
         /\ Age(ke).parameters = ke.parameters
         /\ VoteSuccess(ke, a, pk).parameters = ke.parameters
         /\ Start(ke, KeyEventTimeoutBlocks).instance.completed = {}
         /\ DropInstance(ke).instance.completed = {}
         /\ Age(ke).instance.completed = ke.instance.completed
         /\ VoteSuccess(ke, a, pk).instance.completed = ke.instance.completed \union {ke.parameters.ids[a]}
<1>1. /\ Start(ke, KeyEventTimeoutBlocks).parameters = ke.parameters
      /\ DropInstance(ke).parameters = ke.parameters
      /\ Age(ke).parameters = ke.parameters
      /\ VoteSuccess(ke, a, pk).parameters = ke.parameters
  BY DEF IsKeyEvent, Start, DropInstance, Age, VoteSuccess
<1>2. /\ Start(ke, KeyEventTimeoutBlocks).instance.completed = {}
      /\ DropInstance(ke).instance.completed = {}
  BY DEF IsKeyEvent, Start, DropInstance, NoInstance
<1>3. ke.instance \in KeyEventInstance \union {NoInstance}
  BY DEF IsKeyEvent
<1>4. /\ Age(ke).instance.completed = ke.instance.completed
      /\ VoteSuccess(ke, a, pk).instance.completed = ke.instance.completed \union {ke.parameters.ids[a]}
  BY <1>3 DEF IsKeyEvent, Age, VoteSuccess, KeyEventInstance, NoInstance
<1> QED
  BY <1>1, <1>2, <1>4

\* A new attempt-less key event has nobody's vote.
LEMMA NewKeyEventParameters ==
  ASSUME NEW e, NEW d, NEW p
  PROVE  NewKeyEvent(e, d, p).parameters = p /\ NewKeyEvent(e, d, p).instance.completed = {}
BY DEF NewKeyEvent, NoInstance

\* Who is active where.
LEMMA ActiveOf ==
  /\ phase = "Running" => ActiveParameters = parameters
  /\ phase # "Running" => ActiveParameters = key_event.parameters
BY DEF ActiveParameters

\* The contract becomes Running with parameters that are valid and attested.
LEMMA RunningParameters ==
  ASSUME NEW r, NEW k, NEW p, NEW dv, BecomeRunning(r, k, p, dv),
         Validate(p), \A a \in Members(p) : attestations'[a] # "none"
  PROVE  ParametersSound' /\ CancelVotesCleared'
<1>1. /\ phase' = "Running" /\ parameters' = p /\ parameters_votes' = NoVotes
      /\ add_domains_votes' = RemainingVotes(dv, p) /\ cancel_votes' = {} /\ cancellation_requests' = {}
  BY DEF BecomeRunning
<1>2. ParametersValid'
  BY <1>1 DEF ParametersValid, NoVotes
<1>3. DOMAIN add_domains_votes' \subseteq Ids(parameters')
  BY <1>1 DEF RemainingVotes
<1>4. VotesFromParticipants'
  BY <1>1, <1>3 DEF VotesFromParticipants
<1>5. ParticipantsAttested'
  BY <1>1 DEF ParticipantsAttested, ActiveParameters
<1> QED
  BY <1>1, <1>2, <1>4, <1>5 DEF ParametersSound, CancelVotesCleared

\* New parameters are adopted, at once or by a resharing.
LEMMA TransitionParameters ==
  ASSUME ParametersInv, UNCHANGED attestations, phase # "Initializing",
         NEW p, ValidateIncomingProposal(parameters, p),
         \A a \in Members(p) : attestations[a] # "none",
         TransitionToResharingNoChecks(p)
  PROVE  ParametersSound' /\ CancelVotesCleared'
<1>1. Validate(p)
  BY DEF ValidateIncomingProposal
<1>2. CASE Len(domains.list) > 0
  <2>1. BecomeResharing(ProspectiveEpoch, p)
    BY <1>2 DEF TransitionToResharingNoChecks
  <2>2. /\ phase' = "Resharing" /\ parameters' = parameters /\ parameters_votes' = NoVotes
        /\ add_domains_votes' = RemainingVotes(add_domains_votes, parameters)
        /\ cancel_votes' = cancel_votes /\ cancellation_requests' = {}
        /\ key_event'.parameters = p /\ key_event'.instance.completed = {}
    BY <2>1, NewKeyEventParameters DEF BecomeResharing, running
  <2>3. ParametersValid'
    BY <2>2 DEF ParametersInv, ParametersSound, ParametersValid, NoVotes
  <2>4. DOMAIN add_domains_votes' \subseteq Ids(parameters')
    BY <2>2 DEF RemainingVotes
  <2>5. VotesFromParticipants'
    BY <2>2, <2>4 DEF VotesFromParticipants
  <2>6. ParticipantsAttested'
    BY <2>2 DEF ParametersInv, ParametersSound, ParticipantsAttested, ActiveParameters
  <2> QED
    BY <2>2, <2>3, <2>5, <2>6 DEF ParametersSound, ParametersInv, CancelVotesCleared
<1>3. CASE ~(Len(domains.list) > 0)
  <2>1. BecomeRunning(domains, [epoch_id |-> keyset.epoch_id + 1, keys |-> <<>>], p, add_domains_votes)
    BY <1>3 DEF TransitionToResharingNoChecks
  <2> QED
    BY <1>1, <2>1, RunningParameters
<1> QED
  BY <1>2, <1>3

\* What a key event that becomes Running leaves behind.
LEMMA EventParameters ==
  ASSUME ParametersInv, phase # "Running"
  PROVE  /\ Validate(key_event.parameters)
         /\ \A a \in Members(key_event.parameters) : attestations[a] # "none"
<1>1. Validate(key_event.parameters)
  <2>1. phase \in {"Initializing", "Resharing"}
    BY DEF ParametersInv, TypeInv, TypeOK
  <2> QED
    BY <2>1 DEF ParametersInv, ParametersSound, ParametersValid, ValidateIncomingProposal
<1>2. \A a \in Members(key_event.parameters) : attestations[a] # "none"
  BY DEF ParametersInv, ParametersSound, ParticipantsAttested, ActiveParameters
<1> QED
  BY <1>1, <1>2

\* Steps of an attempt, and the next key of the same event.
LEMMA AttemptParameters ==
  ASSUME ParametersInv, phase # "Running",
         UNCHANGED <<phase, parameters, parameters_votes, add_domains_votes, cancels, attestations>>,
         key_event'.parameters = key_event.parameters,
         key_event'.instance.completed \subseteq Ids(key_event.parameters)
  PROVE  ParametersSound' /\ CancelVotesCleared'
<1>1. ParametersValid'
  BY DEF ParametersInv, ParametersSound, ParametersValid
<1>2. VotesFromParticipants'
  BY DEF ParametersInv, ParametersSound, VotesFromParticipants, cancels
<1>3. ParticipantsAttested'
  BY DEF ParametersInv, ParametersSound, ParticipantsAttested, ActiveParameters
<1> QED
  BY <1>1, <1>2, <1>3 DEF ParametersInv, ParametersSound, CancelVotesCleared, cancels

\* The operations on an attempt.
LEMMA OperationParameters ==
  ASSUME ParametersInv, phase # "Running", OnlyKeyEventChanges, NEW a \in Members(key_event.parameters), NEW pk,
         key_event' \in {Start(key_event, KeyEventTimeoutBlocks), DropInstance(key_event),
                        Age(key_event), VoteSuccess(key_event, a, pk)}
  PROVE  ParametersSound' /\ CancelVotesCleared'
<1>1. IsKeyEvent(key_event)
  BY DEF ParametersInv, TypeInv, TypeOK
<1>2. key_event.instance.completed \subseteq Ids(key_event.parameters)
  BY DEF ParametersInv, ParametersSound, VotesFromParticipants
<1>3. key_event.parameters.ids[a] \in Ids(key_event.parameters)
  BY DEF Ids
<1>4. /\ key_event'.parameters = key_event.parameters
      /\ key_event'.instance.completed \subseteq Ids(key_event.parameters)
  BY <1>1, <1>2, <1>3, SameParameters
<1>5. UNCHANGED <<phase, parameters, parameters_votes, add_domains_votes, cancels, attestations>>
  BY DEF OnlyKeyEventChanges, running, votes, tee
<1> QED
  BY <1>4, <1>5, AttemptParameters

\* A vote that does not finish the key event.
LEMMA VoteNotFinalParameters ==
  ASSUME ParametersInv, phase # "Running", NEW a, NEW id, VerifyVote(key_event, a, id), NEW pk,
         VoteNotFinal(a, pk), OnlyKeyEventChanges
  PROVE  ParametersSound' /\ CancelVotesCleared'
<1>1. a \in Members(key_event.parameters)
  BY DEF VerifyVote
<1> QED
  BY <1>1, OperationParameters DEF VoteNotFinal

\* The step has the parameters and attestations it needs.
ParametersKept == ParametersSound' /\ CancelVotesCleared'

\* A vote on new parameters.
LEMMA VoteNewParametersSound ==
  ASSUME ParametersInv, NEW a \in Accounts, NEW e, NEW p \in Proposals, VoteNewParameters(a, e, p)
  PROVE  ParametersKept
<1> DEFINE cast == Put(parameters_votes, a, p)
<1>1. /\ phase # "Initializing" /\ UNCHANGED attestations
      /\ \A b \in Members(p) : attestations[b] # "none"
  BY DEF VoteNewParameters, ValidAttestation, tee
<1>2. ValidateIncomingProposal(parameters, p) /\ a \in Members(p)
  BY DEF VoteNewParameters, MayVoteForParameters
<1>3. CASE NVotes(cast, p, Accounts) = Size(p)
  <2>1. TransitionToResharingNoChecks(p)
    BY <1>3 DEF VoteNewParameters
  <2> QED
    BY <1>1, <1>2, <2>1, TransitionParameters DEF ParametersKept
<1>4. CASE NVotes(cast, p, Accounts) # Size(p)
  <2>1. /\ parameters_votes' = cast
        /\ UNCHANGED <<phase, parameters, add_domains_votes, key_event, cancels, attestations>>
    BY <1>1, <1>4 DEF VoteNewParameters, running
  <2>2. /\ DOMAIN cast = DOMAIN parameters_votes \union {a}
        /\ \A b \in DOMAIN cast : cast[b] = IF b = a THEN p ELSE parameters_votes[b]
    BY DEF Put
  <2> HIDE DEF cast
  <2>3. \A b \in DOMAIN cast : b \in Members(cast[b]) /\ ValidateIncomingProposal(parameters, cast[b])
    <3> SUFFICES ASSUME NEW b \in DOMAIN cast
                 PROVE  b \in Members(cast[b]) /\ ValidateIncomingProposal(parameters, cast[b])
      OBVIOUS
    <3>1. CASE b = a
      BY <1>2, <2>2, <3>1
    <3>2. CASE b # a
      <4>1. b \in DOMAIN parameters_votes /\ cast[b] = parameters_votes[b]
        BY <2>2, <3>2
      <4> QED
        BY <4>1 DEF ParametersInv, ParametersSound, ParametersValid
    <3> QED
      BY <3>1, <3>2
  <2>4. ParametersValid'
    BY <2>1, <2>3 DEF ParametersInv, ParametersSound, ParametersValid
  <2>5. VotesFromParticipants' /\ ParticipantsAttested' /\ CancelVotesCleared'
    BY <2>1 DEF ParametersInv, ParametersSound, VotesFromParticipants, ParticipantsAttested,
                ActiveParameters, CancelVotesCleared, cancels
  <2> QED
    BY <2>4, <2>5 DEF ParametersKept, ParametersSound
<1> QED
  BY <1>3, <1>4

\* A vote on new domains.
LEMMA VoteAddDomainsSound ==
  ASSUME ParametersInv, NEW a, NEW batch, VoteAddDomains(a, batch)
  PROVE  ParametersKept
<1> DEFINE cast == Put(add_domains_votes, parameters.ids[a], batch)
<1>1. /\ phase = "Running" /\ a \in Members(parameters) /\ parameters.ids[a] \in Ids(parameters)
      /\ UNCHANGED <<parameters, cancels, attestations>>
  BY DEF VoteAddDomains, Ids, running, tee
<1>2. cancel_votes' = {}
  BY <1>1 DEF ParametersInv, CancelVotesCleared, cancels
<1>3. CASE NVotes(cast, batch, DOMAIN cast) = Size(parameters)
  <2>1. /\ phase' = "Initializing" /\ parameters_votes' = NoVotes /\ add_domains_votes' = NoVotes
        /\ key_event'.parameters = parameters /\ key_event'.instance.completed = {}
    BY <1>3, NewKeyEventParameters DEF VoteAddDomains
  <2>2. ParametersValid'
    BY <1>1, <2>1 DEF ParametersInv, ParametersSound, ParametersValid, NoVotes
  <2>3. VotesFromParticipants'
    BY <1>1, <1>2, <2>1 DEF ParametersInv, ParametersSound, VotesFromParticipants, NoVotes, cancels
  <2>4. ParticipantsAttested'
    BY <1>1, <2>1 DEF ParametersInv, ParametersSound, ParticipantsAttested, ActiveParameters
  <2> QED
    BY <1>2, <2>2, <2>3, <2>4 DEF ParametersKept, ParametersSound, CancelVotesCleared
<1>4. CASE NVotes(cast, batch, DOMAIN cast) # Size(parameters)
  <2>1. add_domains_votes' = cast /\ UNCHANGED <<phase, parameters_votes, key_event>>
    BY <1>4 DEF VoteAddDomains
  <2>2. DOMAIN cast = DOMAIN add_domains_votes \union {parameters.ids[a]}
    BY DEF Put
  <2> HIDE DEF cast
  <2>3. VotesFromParticipants'
    BY <1>1, <2>1, <2>2 DEF ParametersInv, ParametersSound, VotesFromParticipants, cancels
  <2>4. ParametersValid' /\ ParticipantsAttested'
    BY <1>1, <2>1 DEF ParametersInv, ParametersSound, ParametersValid, ParticipantsAttested, ActiveParameters
  <2> QED
    BY <1>2, <2>3, <2>4 DEF ParametersKept, ParametersSound, CancelVotesCleared
<1> QED
  BY <1>3, <1>4

\* Starting an attempt.
LEMMA StartInstanceSound ==
  ASSUME ParametersInv, NEW a, NEW id, NEW ph \in {"Initializing", "Resharing"}, StartInstance(ph, a, id)
  PROVE  ParametersKept
<1>1. phase # "Running" /\ OnlyKeyEventChanges /\ a \in Members(key_event.parameters)
  BY DEF StartInstance, CanStart, IsLeader
<1>2. key_event' = Start(key_event, KeyEventTimeoutBlocks)
  BY DEF StartInstance
<1> QED
  BY <1>1, <1>2, OperationParameters DEF ParametersKept

\* Aborting an attempt, and a block that passes.
LEMMA AbortAndTickSound ==
  ASSUME ParametersInv, (\E a, id : VoteAbortKeyEventInstance(a, id)) \/ Tick
  PROVE  ParametersKept
<1>1. phase # "Running" /\ OnlyKeyEventChanges /\ key_event' \in {DropInstance(key_event), Age(key_event)}
  BY DEF VoteAbortKeyEventInstance, Tick
<1>2. IsKeyEvent(key_event)
  BY <1>1 DEF ParametersInv, TypeInv, TypeOK
<1>3. /\ key_event'.parameters = key_event.parameters
      /\ key_event'.instance.completed \in {{}, key_event.instance.completed}
  BY <1>1, <1>2, SameParameters
<1>4. key_event'.instance.completed \subseteq Ids(key_event.parameters)
  BY <1>1, <1>3 DEF ParametersInv, ParametersSound, VotesFromParticipants
<1>5. UNCHANGED <<phase, parameters, parameters_votes, add_domains_votes, cancels, attestations>>
  BY <1>1 DEF OnlyKeyEventChanges, running, votes, tee
<1> QED
  BY <1>1, <1>3, <1>4, <1>5, AttemptParameters DEF ParametersKept

\* A vote for a generated key.
LEMMA VotePkSound ==
  ASSUME ParametersInv, NEW a, NEW id, NEW pk, VotePk(a, id, pk)
  PROVE  ParametersKept
<1>1. phase # "Running" /\ VerifyVote(key_event, a, id)
  BY DEF VotePk
<1>2. CASE VoteNotFinal(a, pk) /\ OnlyKeyEventChanges
  BY <1>1, <1>2, VoteNotFinalParameters DEF ParametersKept
<1>3. CASE ~(VoteNotFinal(a, pk) /\ OnlyKeyEventChanges)
  <2> DEFINE generated == [keyset EXCEPT !.keys = Append(@, KeyFor(id, pk))]
             n         == Len(generated.keys)
  <2>1. UNCHANGED attestations
    BY <1>3 DEF VotePk, tee
  <2>2. CASE n < Len(domains.list)
    <3>1. /\ key_event' = NewKeyEvent(keyset.epoch_id, domains.list[n + 1].id, key_event.parameters)
          /\ UNCHANGED <<phase, domains, parameters, votes, reshared_keys, cancels>>
      BY <1>3, <2>2 DEF VotePk
    <3> HIDE DEF generated
    <3>2. key_event'.parameters = key_event.parameters /\ key_event'.instance.completed = {}
      BY <3>1, NewKeyEventParameters
    <3> QED
      BY <1>1, <2>1, <3>1, <3>2, AttemptParameters DEF ParametersKept, votes
  <2>3. CASE ~(n < Len(domains.list))
    <3>1. BecomeRunning(domains, generated, key_event.parameters, NoVotes)
      BY <1>3, <2>3 DEF VotePk
    <3> HIDE DEF generated
    <3> QED
      BY <1>1, <2>1, <3>1, EventParameters, RunningParameters DEF ParametersKept
  <2> QED
    BY <2>2, <2>3
<1> QED
  BY <1>2, <1>3

\* A vote for a reshared key.
LEMMA VoteResharedSound ==
  ASSUME ParametersInv, NEW a, NEW id, VoteReshared(a, id)
  PROVE  ParametersKept
<1> DEFINE pk == PreviousKey
<1>1. phase # "Running" /\ VerifyVote(key_event, a, id)
  BY DEF VoteReshared
<1>2. CASE VoteNotFinal(a, pk) /\ OnlyKeyEventChanges
  BY <1>1, <1>2, VoteNotFinalParameters DEF ParametersKept
<1>3. CASE ~(VoteNotFinal(a, pk) /\ OnlyKeyEventChanges)
  <2> DEFINE reshared == Append(reshared_keys, KeyFor(id, pk))
             n        == Len(reshared)
  <2>1. UNCHANGED attestations
    BY <1>3 DEF VoteReshared
  <2>2. CASE n < Len(domains.list)
    <3>1. /\ key_event' = NewKeyEvent(key_event.epoch_id, domains.list[n + 1].id, key_event.parameters)
          /\ UNCHANGED <<phase, running, votes, cancels, cleanups>>
      BY <1>3, <2>2 DEF VoteReshared
    <3> HIDE DEF reshared
    <3>2. key_event'.parameters = key_event.parameters /\ key_event'.instance.completed = {}
      BY <3>1, NewKeyEventParameters
    <3> QED
      BY <1>1, <2>1, <3>1, <3>2, AttemptParameters DEF ParametersKept, votes, running
  <2>3. CASE ~(n < Len(domains.list))
    <3>1. BecomeRunning(domains, [epoch_id |-> key_event.epoch_id, keys |-> reshared],
                        key_event.parameters, add_domains_votes)
      BY <1>3, <2>3 DEF VoteReshared
    <3> HIDE DEF reshared
    <3> QED
      BY <1>1, <2>1, <3>1, EventParameters, RunningParameters DEF ParametersKept
  <2> QED
    BY <2>2, <2>3
<1> QED
  BY <1>2, <1>3

\* Votes to cancel.
LEMMA CancelSound ==
  ASSUME ParametersInv, (\E a, d : VoteCancelKeygen(a, d)) \/ (\E a : VoteCancelResharing(a))
  PROVE  ParametersKept
<1>1. ASSUME NEW a, NEW d, VoteCancelKeygen(a, d) PROVE ParametersKept
  <2> DEFINE cast == cancel_votes \union {key_event.parameters.ids[a]}
  <2>1. phase = "Initializing" /\ UNCHANGED attestations /\ a \in Members(key_event.parameters)
    BY <1>1 DEF VoteCancelKeygen, tee
  <2>2. CASE Cardinality(cast) >= key_event.parameters.threshold
    <3>1. BecomeRunning(RetainDomains(domains, Len(keyset.keys)), keyset, key_event.parameters, NoVotes)
      BY <1>1, <2>2 DEF VoteCancelKeygen
    <3> QED
      BY <2>1, <3>1, EventParameters, RunningParameters DEF ParametersKept
  <2>3. CASE ~(Cardinality(cast) >= key_event.parameters.threshold)
    <3>1. /\ cancel_votes' = cast
          /\ UNCHANGED <<phase, parameters, parameters_votes, add_domains_votes, key_event, cancellation_requests>>
      BY <1>1, <2>3 DEF VoteCancelKeygen, running, votes
    <3>2. cast \subseteq Ids(key_event.parameters)
      BY <2>1 DEF ParametersInv, ParametersSound, VotesFromParticipants, Ids
    <3> HIDE DEF cast
    <3>3. ParametersValid' /\ ParticipantsAttested'
      BY <2>1, <3>1 DEF ParametersInv, ParametersSound, ParametersValid, ParticipantsAttested, ActiveParameters
    <3>4. VotesFromParticipants'
      BY <3>1, <3>2 DEF ParametersInv, ParametersSound, VotesFromParticipants
    <3> QED
      BY <2>1, <3>1, <3>3, <3>4 DEF ParametersKept, ParametersSound, CancelVotesCleared
  <2> QED
    BY <2>2, <2>3
<1>2. ASSUME NEW a, VoteCancelResharing(a) PROVE ParametersKept
  <2>1. /\ phase = "Resharing" /\ a \in Members(parameters) /\ cancel_votes' = {}
        /\ UNCHANGED <<parameters, parameters_votes, add_domains_votes, attestations>>
    BY <1>2 DEF VoteCancelResharing, running, tee, ParametersInv, CancelVotesCleared
  <2>2. \/ phase' = "Running" /\ cancellation_requests' = {}
        \/ cancellation_requests' = cancellation_requests \union {a} /\ UNCHANGED <<phase, key_event>>
    BY <1>2 DEF VoteCancelResharing
  <2>3. ParametersValid'
    BY <2>1, <2>2 DEF ParametersInv, ParametersSound, ParametersValid
  <2>4. VotesFromParticipants'
    BY <2>1, <2>2 DEF ParametersInv, ParametersSound, VotesFromParticipants
  <2>5. ParticipantsAttested'
    BY <2>1, <2>2 DEF ParametersInv, ParametersSound, ParticipantsAttested, ActiveParameters
  <2> QED
    BY <2>1, <2>3, <2>4, <2>5 DEF ParametersKept, ParametersSound, CancelVotesCleared
<1> QED
  BY <1>1, <1>2

\* Attestations come, lapse and are cleaned up: those of the participants stay.
LEMMA AttestationsSound ==
  ASSUME ParametersInv,
         CleanTeeStatus \/ \E a \in Submitters : SubmitParticipantInfo(a) \/ AttestationLapses(a)
  PROVE  ParametersKept
<1>1. UNCHANGED <<phase, parameters, parameters_votes, add_domains_votes, key_event, cancels>>
  BY DEF CleanTeeStatus, SubmitParticipantInfo, AttestationLapses, running, votes
<1>2. /\ attestations \in [Accounts -> {"none", "mock", "valid", "lapsed"}]
      /\ Members(parameters) \subseteq Accounts
      /\ Members(ActiveParameters) \subseteq Accounts
  BY DEF ParametersInv, TypeInv, TypeOK, IsThresholdParameters, IsKeyEvent, ActiveParameters
<1>3. \A a \in Members(parameters) \union Members(ActiveParameters) : attestations[a] # "none"
  BY DEF ParametersInv, ParametersSound, ParticipantsAttested
<1>4. \A a \in Members(parameters) \union Members(ActiveParameters) : attestations'[a] # "none"
  <2>1. ASSUME NEW b \in Submitters, SubmitParticipantInfo(b) \/ AttestationLapses(b)
        PROVE  \A a \in Members(parameters) \union Members(ActiveParameters) : attestations'[a] # "none"
    BY <1>2, <1>3, <2>1 DEF SubmitParticipantInfo, AttestationLapses
  <2>2. CASE CleanTeeStatus
    <3>1. CASE phase = "Running"
      <4>1. ActiveParameters = parameters
        BY <3>1, ActiveOf
      <4>2. RemoveAttestationsOfOthers
        BY <2>2, <3>1 DEF CleanTeeStatus
      <4> QED
        BY <1>2, <1>3, <4>1, <4>2 DEF RemoveAttestationsOfOthers
    <3>2. CASE phase # "Running"
      BY <1>3, <2>2, <3>2 DEF CleanTeeStatus
    <3> QED
      BY <3>1, <3>2
  <2> QED
    BY <2>1, <2>2
<1>5. ParticipantsAttested'
  BY <1>1, <1>4 DEF ParticipantsAttested, ActiveParameters
<1>6. ParametersValid' /\ VotesFromParticipants' /\ CancelVotesCleared'
  BY <1>1 DEF ParametersInv, ParametersSound, ParametersValid, VotesFromParticipants, CancelVotesCleared, cancels
<1> QED
  BY <1>5, <1>6 DEF ParametersKept, ParametersSound

\* Re-verification of the participants.
LEMMA VerifyTeeSound ==
  ASSUME ParametersInv, NEW a, VerifyTee(a)
  PROVE  ParametersKept
<1> DEFINE valid == {b \in Members(parameters) : ValidAttestation(b)}
           kept  == RestrictTo(parameters, valid)
<1>1. UNCHANGED attestations /\ phase = "Running"
  BY DEF VerifyTee
<1>2. CASE UNCHANGED <<phase, running, votes, key_event, reshared_keys, cancels>>
  BY <1>1, <1>2 DEF ParametersInv, ParametersSound, ParametersKept, ParametersValid, VotesFromParticipants,
                    ParticipantsAttested, ActiveParameters, CancelVotesCleared, running, votes, cancels
<1>3. CASE ValidateIncomingProposal(parameters, kept) /\ TransitionToResharingNoChecks(kept)
  <2>1. IsThresholdParameters(parameters)
    BY DEF ParametersInv, TypeInv, TypeOK
  <2>2. Members(kept) = Members(parameters) \intersect valid
    BY <2>1, RestrictToType
  <2>3. \A b \in Members(kept) : attestations[b] # "none"
    BY <2>2 DEF ValidAttestation
  <2> HIDE DEF kept
  <2> QED
    BY <1>1, <1>3, <2>3, TransitionParameters DEF ParametersKept
<1> QED
  BY <1>2, <1>3 DEF VerifyTee

\* The initial participants hold mocked attestations and nobody has voted.
LEMMA InitParametersInv == Init => ParametersInv
<1> SUFFICES ASSUME Init PROVE ParametersSound /\ CancelVotesCleared
  BY InitTypeInv DEF ParametersInv
<1>1. /\ phase = "Running" /\ parameters = InitParameters /\ parameters_votes = NoVotes
      /\ add_domains_votes = NoVotes /\ cancel_votes = {} /\ cancellation_requests = {}
      /\ attestations = [a \in Accounts |-> IF a \in Members(InitParameters) THEN "mock" ELSE "none"]
  BY DEF Init
<1>2. Validate(InitParameters) /\ Members(InitParameters) \subseteq Accounts
  BY InitAssumption DEF IsThresholdParameters
<1>3. ParametersValid
  BY <1>1, <1>2 DEF ParametersValid, NoVotes
<1>4. VotesFromParticipants
  BY <1>1 DEF VotesFromParticipants, NoVotes
<1>5. ParticipantsAttested
  BY <1>1, <1>2 DEF ParticipantsAttested, ActiveParameters
<1> QED
  BY <1>1, <1>3, <1>4, <1>5 DEF ParametersSound, CancelVotesCleared

\* Every step keeps the invariant.
LEMMA NextParametersInv == ParametersInv /\ [Next]_vars => ParametersInv'
<1> SUFFICES ASSUME ParametersInv, [Next]_vars PROVE ParametersKept
  BY NextTypeInv DEF ParametersInv, ParametersKept
<1>1. ASSUME NEW a \in Accounts, NEW e, NEW p \in Proposals, VoteNewParameters(a, e, p) PROVE ParametersKept
  BY <1>1, VoteNewParametersSound
<1>2. ASSUME NEW a, VoteCancelResharing(a) PROVE ParametersKept
  BY <1>2, CancelSound
<1>3. ASSUME NEW a, NEW batch, VoteAddDomains(a, batch) PROVE ParametersKept
  BY <1>3, VoteAddDomainsSound
<1>4. ASSUME NEW a, NEW id, KeyEventCall(a, id) PROVE ParametersKept
  BY <1>4, StartInstanceSound, VotePkSound, VoteResharedSound, AbortAndTickSound
  DEF KeyEventCall, StartKeygenInstance, StartReshareInstance
<1>5. ASSUME NEW a, NEW d, VoteCancelKeygen(a, d) PROVE ParametersKept
  BY <1>5, CancelSound
<1>6. CASE CleanTeeStatus \/ \E a \in Submitters : SubmitParticipantInfo(a) \/ AttestationLapses(a)
  BY <1>6, AttestationsSound
<1>7. ASSUME NEW a, VerifyTee(a) PROVE ParametersKept
  BY <1>7, VerifyTeeSound
<1>8. CASE Tick
  BY <1>8, AbortAndTickSound
<1>9. CASE UNCHANGED vars
  BY <1>9 DEF ParametersInv, ParametersSound, ParametersKept, ParametersValid, VotesFromParticipants,
              ParticipantsAttested, ActiveParameters, CancelVotesCleared, vars, running, votes, cancels, tee
<1> QED
  BY <1>1, <1>2, <1>3, <1>4, <1>5, <1>6, <1>7, <1>8, <1>9 DEF Next, OtherNext

\* For any accounts, proposals and bounds: the parameters in use, voted for
\* or being reshared to are valid, every stored vote comes from a participant
\* it is about, and whoever a key event needs has an attestation, although
\* attestations lapse and the cleanup runs late.
THEOREM ParametersSoundAlways == Spec => []ParametersSound
<1>1. Init => ParametersInv
  BY InitParametersInv
<1>2. ParametersInv /\ [Next]_vars => ParametersInv'
  BY NextParametersInv
<1>3. ParametersInv => ParametersSound
  BY DEF ParametersInv
<1> QED
  BY <1>1, <1>2, <1>3, PTL DEF Spec

(***************************************************************************)
(* Votes and the epoch they are for.                                       *)
(***************************************************************************)

\* Stored votes go, or stay with the epoch that they are for.
VotesStayFor ==
  \/ parameters_votes' = NoVotes
  \/ parameters_votes' = parameters_votes /\ ProspectiveEpoch' = ProspectiveEpoch

\* The prospective epoch depends on these only.
LEMMA ProspectiveFrame ==
  ASSUME UNCHANGED <<phase, previously_cancelled>>, keyset'.epoch_id = keyset.epoch_id,
         key_event'.epoch_id = key_event.epoch_id
  PROVE  ProspectiveEpoch' = ProspectiveEpoch
BY DEF ProspectiveEpoch

\* Entering Running or Resharing anew drops the votes.
LEMMA TransitionVotes ==
  ASSUME NEW p, TransitionToResharingNoChecks(p)
  PROVE  parameters_votes' = NoVotes /\ phase' # "Initializing"
BY DEF TransitionToResharingNoChecks, BecomeRunning, BecomeResharing

\* The operations on an attempt.
LEMMA AttemptVotes ==
  ASSUME TypeOK, phase # "Running", OnlyKeyEventChanges, NEW a, NEW pk,
         key_event' \in {Start(key_event, KeyEventTimeoutBlocks), DropInstance(key_event),
                        Age(key_event), VoteSuccess(key_event, a, pk)}
  PROVE  VotesStayFor
<1>1. key_event'.epoch_id = key_event.epoch_id
  BY SameEpoch DEF TypeOK
<1> QED
  BY <1>1, ProspectiveFrame DEF OnlyKeyEventChanges, running, votes, VotesStayFor

\* Votes for a key.
LEMMA KeyVotesStay ==
  ASSUME TypeOK, EpochAhead, NEW a, NEW id,
         (\E pk : VotePk(a, id, pk)) \/ VoteReshared(a, id)
  PROVE  VotesStayFor
<1>1. ASSUME NEW pk, phase # "Running", VoteNotFinal(a, pk), OnlyKeyEventChanges PROVE VotesStayFor
  BY <1>1, AttemptVotes DEF VoteNotFinal
<1>2. ASSUME NEW r, NEW k, NEW p, NEW dv, BecomeRunning(r, k, p, dv) PROVE VotesStayFor
  BY <1>2 DEF BecomeRunning, VotesStayFor
<1>3. ASSUME NEW pk, VotePk(a, id, pk) PROVE VotesStayFor
  <2> DEFINE generated == [keyset EXCEPT !.keys = Append(@, KeyFor(id, pk))]
             n         == Len(generated.keys)
  <2>1. CASE VoteNotFinal(a, pk) /\ OnlyKeyEventChanges
    BY <1>1, <1>3, <2>1 DEF VotePk
  <2>2. CASE /\ keyset' = generated
             /\ key_event' = NewKeyEvent(keyset.epoch_id, domains.list[n + 1].id, key_event.parameters)
             /\ UNCHANGED <<phase, votes>>
    <3>1. keyset'.epoch_id = keyset.epoch_id
      BY <2>2 DEF TypeOK, Keyset
    <3>2. phase = "Initializing" /\ key_event.epoch_id = keyset.epoch_id
      BY <1>3 DEF VotePk, EpochAhead
    <3>3. key_event'.epoch_id = key_event.epoch_id
      BY <2>2, <3>2 DEF NewKeyEvent
    <3> QED
      BY <2>2, <3>1, <3>3, ProspectiveFrame DEF votes, VotesStayFor
  <2>3. CASE BecomeRunning(domains, generated, key_event.parameters, NoVotes)
    BY <1>2, <2>3
  <2> HIDE DEF generated
  <2> QED
    BY <1>3, <2>1, <2>2, <2>3 DEF VotePk, generated
<1>4. ASSUME VoteReshared(a, id) PROVE VotesStayFor
  <2> DEFINE pk       == PreviousKey
             reshared == Append(reshared_keys, KeyFor(id, pk))
             n        == Len(reshared)
  <2>1. CASE VoteNotFinal(a, pk) /\ OnlyKeyEventChanges
    BY <1>1, <1>4, <2>1 DEF VoteReshared
  <2>2. CASE /\ key_event' = NewKeyEvent(key_event.epoch_id, domains.list[n + 1].id, key_event.parameters)
             /\ UNCHANGED <<phase, running, votes>>
    <3>1. key_event'.epoch_id = key_event.epoch_id
      BY <2>2 DEF NewKeyEvent
    <3> QED
      BY <2>2, <3>1, ProspectiveFrame DEF votes, running, VotesStayFor
  <2>3. CASE BecomeRunning(domains, [epoch_id |-> key_event.epoch_id, keys |-> reshared],
                           key_event.parameters, add_domains_votes)
    BY <1>2, <2>3
  <2> HIDE DEF pk
  <2> QED
    BY <1>4, <2>1, <2>2, <2>3 DEF VoteReshared, pk
<1> QED
  BY <1>3, <1>4

\* Every step but a vote on parameters.
LEMMA OtherVotesStay ==
  ASSUME TypeOK, EpochAhead, OtherNext
  PROVE  VotesStayFor
<1>1. ASSUME UNCHANGED <<phase, running, votes, key_event>> PROVE VotesStayFor
  BY <1>1, ProspectiveFrame DEF running, votes, VotesStayFor
<1>2. ASSUME NEW a, NEW batch, VoteAddDomains(a, batch) PROVE VotesStayFor
  <2>1. parameters_votes' = NoVotes \/ UNCHANGED <<phase, running, parameters_votes, previously_cancelled, key_event>>
    BY <1>2 DEF VoteAddDomains
  <2> QED
    BY <2>1, ProspectiveFrame DEF running, VotesStayFor
<1>3. ASSUME NEW a, NEW id, KeyEventCall(a, id) PROVE VotesStayFor
  <2>1. ASSUME NEW ph \in {"Initializing", "Resharing"}, StartInstance(ph, a, id) PROVE VotesStayFor
    BY <2>1, AttemptVotes DEF StartInstance
  <2>2. ASSUME VoteAbortKeyEventInstance(a, id) PROVE VotesStayFor
    BY <2>2, AttemptVotes DEF VoteAbortKeyEventInstance
  <2> QED
    BY <1>3, <2>1, <2>2, KeyVotesStay DEF KeyEventCall, StartKeygenInstance, StartReshareInstance
<1>4. ASSUME NEW a, NEW d, VoteCancelKeygen(a, d) PROVE VotesStayFor
  <2>1. \/ UNCHANGED <<phase, running, votes, key_event>>
        \/ BecomeRunning(RetainDomains(domains, Len(keyset.keys)), keyset, key_event.parameters, NoVotes)
    BY <1>4 DEF VoteCancelKeygen
  <2> QED
    BY <1>1, <2>1 DEF BecomeRunning, VotesStayFor
<1>5. CASE CleanTeeStatus \/ \E a \in Submitters : SubmitParticipantInfo(a) \/ AttestationLapses(a)
  BY <1>1, <1>5 DEF CleanTeeStatus, SubmitParticipantInfo, AttestationLapses
<1>6. ASSUME NEW a, VerifyTee(a) PROVE VotesStayFor
  <2>1. UNCHANGED <<phase, running, votes, key_event>> \/ \E p : TransitionToResharingNoChecks(p)
    BY <1>6 DEF VerifyTee
  <2> QED
    BY <1>1, <2>1, TransitionVotes DEF VotesStayFor
<1>7. CASE Tick
  BY <1>7, AttemptVotes DEF Tick
<1> QED
  BY <1>2, <1>3, <1>4, <1>5, <1>6, <1>7 DEF OtherNext

\* A cancelled resharing hands its votes over: they named the epoch after it.
LEMMA CancelVotesStay ==
  ASSUME TypeOK, NEW a, VoteCancelResharing(a)
  PROVE  VotesStayFor
<1>1. /\ phase = "Resharing" /\ key_event.epoch_id \in Nat
      /\ UNCHANGED <<running, parameters_votes>>
  BY DEF VoteCancelResharing, TypeOK, IsKeyEvent
<1>2. \/ phase' = "Running" /\ previously_cancelled' = key_event.epoch_id
      \/ UNCHANGED <<phase, previously_cancelled, key_event>>
  BY DEF VoteCancelResharing
<1>3. ProspectiveEpoch' = ProspectiveEpoch
  BY <1>1, <1>2 DEF ProspectiveEpoch, NoEpoch, running
<1> QED
  BY <1>1, <1>3 DEF VotesStayFor

(***************************************************************************)
(* Cancelled epochs.                                                       *)
(***************************************************************************)

\* The epochs of cancelled resharings lie before the one that is running or
\* would be next; a contract without domains, or that generates keys, has
\* none to remember.
AbandonedPast ==
  /\ abandoned \subseteq Nat
  /\ phase = "Initializing" => abandoned = {}
  /\ Len(domains.list) = 0 => abandoned = {}
  /\ phase = "Resharing" => \A e \in abandoned : e < key_event.epoch_id
  /\ phase = "Running" => \A e \in abandoned : e < ProspectiveEpoch

\* The inductive invariant behind EpochsSound.
HistoryInv == EpochInv /\ VotesForProspectiveEpoch /\ AbandonedPast

\* Cancelled epochs stay in the past, also when the epoch of the resharing
\* that is being cancelled joins them.
LEMMA AbandonedStep ==
  ASSUME EpochInv, AbandonedPast, [Next]_vars,
         phase' = "Initializing" => abandoned' = {},
         \/ abandoned' \in {{}, abandoned}
         \/ /\ phase = "Resharing" /\ phase' = "Running" /\ previously_cancelled' = key_event.epoch_id
            /\ UNCHANGED <<domains, keyset>>
            /\ abandoned' = abandoned \union {key_event.epoch_id}
  PROVE  AbandonedPast'
<1>1. /\ TypeOK /\ KeysFollowDomains /\ EpochAhead /\ keyset.epoch_id \in Nat
      /\ Len(domains.list) \in Nat
      /\ phase = "Resharing" => key_event.epoch_id \in Nat
      /\ previously_cancelled \in Nat \union {NoEpoch}
  BY LenProperties DEF EpochInv, TypeInv, TypeOK, Keyset, DomainRegistry, IsKeyEvent
<1>2. abandoned' \subseteq Nat
  BY <1>1 DEF AbandonedPast
<1>3. ASSUME abandoned' = {} PROVE AbandonedPast'
  BY <1>3 DEF AbandonedPast
<1>4. ProspectiveEpoch \in Nat /\ (phase = "Resharing" => ProspectiveEpoch = key_event.epoch_id + 1)
  BY <1>1, ProspectiveEpochType DEF ProspectiveEpoch
<1>5. ASSUME phase # "Initializing", phase' # "Initializing",
             UNCHANGED <<phase, domains, keyset, previously_cancelled>>,
             key_event'.epoch_id = key_event.epoch_id, abandoned' = abandoned
      PROVE  AbandonedPast'
  <2>1. ProspectiveEpoch' = ProspectiveEpoch
    BY <1>5, ProspectiveFrame
  <2> QED
    BY <1>2, <1>5, <2>1 DEF AbandonedPast
<1>6. ASSUME NEW p, phase # "Initializing", TransitionToResharingNoChecks(p), abandoned' = abandoned
      PROVE  AbandonedPast'
  <2>1. CASE Len(domains.list) > 0
    <3>1. BecomeResharing(ProspectiveEpoch, p)
      BY <1>6, <2>1 DEF TransitionToResharingNoChecks
    <3>2. phase' = "Resharing" /\ key_event'.epoch_id = ProspectiveEpoch /\ UNCHANGED domains
      BY <3>1 DEF BecomeResharing, NewKeyEvent, running
    <3>3. \A e \in abandoned : e < ProspectiveEpoch
      <4>1. phase \in {"Running", "Resharing"}
        BY <1>1, <1>6 DEF TypeOK
      <4> QED
        BY <1>1, <1>4, <4>1 DEF AbandonedPast
    <3> QED
      BY <1>2, <1>6, <2>1, <3>2, <3>3 DEF AbandonedPast
  <2>2. CASE ~(Len(domains.list) > 0)
    <3>1. Len(domains.list) = 0
      BY <1>1, <2>2
    <3> QED
      BY <1>3, <1>6, <3>1 DEF AbandonedPast
  <2> QED
    BY <2>1, <2>2
<1>7. ASSUME phase = "Initializing", abandoned' = abandoned PROVE AbandonedPast'
  BY <1>3, <1>7 DEF AbandonedPast
<1>8. ASSUME phase = "Resharing", phase' = "Running", UNCHANGED domains,
             ProspectiveEpoch' = key_event.epoch_id + 1,
             abandoned' \subseteq abandoned \union {key_event.epoch_id}
      PROVE  AbandonedPast'
  <2>1. Len(domains.list) # 0
    BY <1>1, <1>8, LenProperties DEF KeysFollowDomains, TypeOK
  <2>2. \A e \in abandoned' : e < ProspectiveEpoch'
    BY <1>1, <1>2, <1>8 DEF AbandonedPast
  <2> QED
    BY <1>2, <1>8, <2>1, <2>2 DEF AbandonedPast
<1>9. ASSUME phase = "Resharing", phase' = "Running", UNCHANGED <<domains, keyset>>,
             previously_cancelled' = key_event.epoch_id,
             abandoned' \subseteq abandoned \union {key_event.epoch_id}
      PROVE  AbandonedPast'
  <2>1. ProspectiveEpoch' = key_event.epoch_id + 1
    BY <1>1, <1>9 DEF ProspectiveEpoch, NoEpoch
  <2> QED
    BY <1>8, <1>9, <2>1
<1>10. ASSUME phase = "Resharing", phase' = "Running", UNCHANGED domains, previously_cancelled' = NoEpoch,
              keyset'.epoch_id = key_event.epoch_id, abandoned' = abandoned
       PROVE  AbandonedPast'
  <2>1. ProspectiveEpoch' = key_event.epoch_id + 1
    BY <1>10 DEF ProspectiveEpoch
  <2> QED
    BY <1>8, <1>10, <2>1
<1>11. CASE abandoned' = abandoned
  <2>1. StepShape
    BY StepShapes DEF EpochInv
  <2>2. CASE phase = "Initializing" \/ phase' = "Initializing"
    BY <1>3, <1>7, <1>11, <2>2
  <2>3. CASE phase # "Initializing" /\ phase' # "Initializing"
    BY <1>5, <1>6, <1>9, <1>10, <1>11, <2>1, <2>3 DEF StepShape
  <2> QED
    BY <2>2, <2>3
<1> QED
  BY <1>3, <1>9, <1>11

\* The history after a step that leaves no vote, or the votes as they were.
LEMMA HistoryVotes ==
  ASSUME VotesForProspectiveEpoch, VotesStayFor, cast_for' = Kept(cast_for)
  PROVE  VotesForProspectiveEpoch'
<1>1. CASE parameters_votes' = NoVotes
  BY <1>1 DEF VotesForProspectiveEpoch, Kept, NoVotes
<1>2. CASE parameters_votes' = parameters_votes /\ ProspectiveEpoch' = ProspectiveEpoch
  BY <1>2 DEF VotesForProspectiveEpoch, Kept
<1> QED
  BY <1>1, <1>2 DEF VotesStayFor

\* A vote on parameters names the prospective epoch.
LEMMA HistoryVoteParameters ==
  ASSUME VotesForProspectiveEpoch, NEW a, NEW e, NEW p, VoteNewParameters(a, e, p),
         cast_for' = Kept(Put(cast_for, a, e))
  PROVE  VotesForProspectiveEpoch'
<1> DEFINE cast == Put(parameters_votes, a, p)
<1>1. CASE NVotes(cast, p, Accounts) = Size(p)
  <2>1. parameters_votes' = NoVotes
    BY <1>1, TransitionVotes DEF VoteNewParameters
  <2> QED
    BY <2>1 DEF VotesForProspectiveEpoch, Kept, NoVotes
<1>2. CASE NVotes(cast, p, Accounts) # Size(p)
  <2>1. /\ parameters_votes' = cast /\ e = ProspectiveEpoch
        /\ UNCHANGED <<phase, running, previously_cancelled, key_event>>
    BY <1>2 DEF VoteNewParameters
  <2>2. ProspectiveEpoch' = ProspectiveEpoch
    BY <2>1, ProspectiveFrame DEF running
  <2>3. DOMAIN parameters_votes' = DOMAIN parameters_votes \union {a}
    BY <2>1 DEF Put
  <2>4. /\ DOMAIN Put(cast_for, a, e) = DOMAIN cast_for \union {a}
        /\ \A b \in DOMAIN Put(cast_for, a, e) : Put(cast_for, a, e)[b] = IF b = a THEN e ELSE cast_for[b]
    BY DEF Put
  <2>5. DOMAIN cast_for' = DOMAIN parameters_votes' /\ \A b \in DOMAIN cast_for' : cast_for'[b] = Put(cast_for, a, e)[b]
    BY <2>3, <2>4 DEF Kept, VotesForProspectiveEpoch
  <2>6. \A b \in DOMAIN cast_for' : cast_for'[b] = ProspectiveEpoch
    BY <2>1, <2>3, <2>4, <2>5 DEF VotesForProspectiveEpoch
  <2> QED
    BY <2>2, <2>5, <2>6 DEF VotesForProspectiveEpoch
<1> QED
  BY <1>1, <1>2

\* Every step keeps the invariant.
LEMMA NextHistoryInv == HistoryInv /\ [HNext]_histvars => HistoryInv'
<1> SUFFICES ASSUME HistoryInv, [HNext]_histvars PROVE HistoryInv'
  OBVIOUS
<1>1. TypeOK /\ KeysFollowDomains /\ EpochAhead /\ EpochInv /\ VotesForProspectiveEpoch /\ AbandonedPast
  BY DEF HistoryInv, EpochInv, TypeInv
<1>2. [Next]_vars
  BY DEF HNext, Next, histvars
<1>3. EpochInv'
  BY <1>1, <1>2, NextEpochInv
<1>4. ASSUME NEW a \in Accounts, NEW e \in 0 .. MaxEpoch, NEW p \in Proposals, VoteNewParameters(a, e, p),
             cast_for' = Kept(Put(cast_for, a, e)), UNCHANGED abandoned
      PROVE  VotesForProspectiveEpoch' /\ AbandonedPast'
  <2>1. phase' # "Initializing"
    BY <1>4, TransitionVotes DEF VoteNewParameters
  <2> QED
    BY <1>1, <1>2, <1>4, <2>1, HistoryVoteParameters, AbandonedStep
<1>5. ASSUME NEW a \in Accounts, VoteCancelResharing(a), cast_for' = Kept(cast_for),
             abandoned' = IF phase' = "Running" THEN abandoned \union {key_event.epoch_id} ELSE abandoned
      PROVE  VotesForProspectiveEpoch' /\ AbandonedPast'
  <2>1. VotesForProspectiveEpoch'
    BY <1>1, <1>5, CancelVotesStay, HistoryVotes
  <2>2. /\ phase = "Resharing" /\ UNCHANGED <<domains, keyset>>
        /\ \/ phase' = "Running" /\ previously_cancelled' = key_event.epoch_id
           \/ phase' = "Resharing"
    BY <1>5 DEF VoteCancelResharing, running
  <2> QED
    BY <1>1, <1>2, <1>5, <2>1, <2>2, AbandonedStep
<1>6. ASSUME OtherNext, cast_for' = Kept(cast_for),
             abandoned' = IF phase' = "Initializing" THEN {} ELSE abandoned
      PROVE  VotesForProspectiveEpoch' /\ AbandonedPast'
  BY <1>1, <1>2, <1>6, OtherVotesStay, HistoryVotes, AbandonedStep
<1>7. ASSUME UNCHANGED histvars PROVE VotesForProspectiveEpoch' /\ AbandonedPast'
  BY <1>1, <1>7 DEF histvars, vars, running, votes, VotesForProspectiveEpoch, AbandonedPast, ProspectiveEpoch
<1> QED
  BY <1>3, <1>4, <1>5, <1>6, <1>7 DEF HNext, HistoryInv

\* No vote on parameters ever counts for another epoch than the one its call
\* named, also when it is late or was stored through a cancelled resharing;
\* and no resharing runs under the epoch of one that was cancelled since the
\* last key generation.
THEOREM EpochsSoundAlways == HSpec => []EpochsSound
<1>1. HInit => HistoryInv
  <2> SUFFICES ASSUME HInit PROVE HistoryInv
    OBVIOUS
  <2>1. EpochInv
    BY InitEpochInv DEF HInit
  <2>2. VotesForProspectiveEpoch /\ AbandonedPast
    BY DEF HInit, Init, VotesForProspectiveEpoch, AbandonedPast, NoVotes
  <2> QED
    BY <2>1, <2>2 DEF HistoryInv
<1>2. HistoryInv /\ [HNext]_histvars => HistoryInv'
  BY NextHistoryInv
<1>3. HistoryInv => EpochsSound
  <2> SUFFICES ASSUME HistoryInv, phase = "Resharing" PROVE key_event.epoch_id \notin abandoned
    BY DEF HistoryInv, EpochsSound, NoCancelledEpochReused
  <2>1. IsKeyEvent(key_event) /\ \A e \in abandoned : e < key_event.epoch_id
    BY DEF HistoryInv, EpochInv, TypeInv, TypeOK, AbandonedPast
  <2>2. key_event.epoch_id \in Nat
    BY <2>1 DEF IsKeyEvent
  <2> QED
    BY <2>1, <2>2
<1> QED
  BY <1>1, <1>2, <1>3, PTL DEF HSpec

(***************************************************************************)
(* A new key has the vote of everybody.                                    *)
(***************************************************************************)

\* An attempt without a key has no vote.
NoKeyNoVotes ==
  phase # "Running" => (key_event.instance.public_key = NoKey => key_event.instance.completed = {})

\* What a step can do to the votes of the attempt.
AttemptShape ==
  \/ phase' = "Running"
  \/ key_event'.instance.completed = {}
  \/ key_event'.instance.public_key \in PublicKeys
  \/ /\ UNCHANGED phase
     /\ key_event'.instance.completed = key_event.instance.completed
     /\ key_event'.instance.public_key = key_event.instance.public_key

\* Keys are reshared only in a resharing.
NoneReshared == phase # "Resharing" => reshared_keys = <<>>

ResharedShape ==
  \/ reshared_keys' = <<>>
  \/ phase' = "Resharing"
  \/ reshared_keys' = reshared_keys /\ phase # "Resharing"

\* What the final vote for the key k does to the named keys.
Generated(k) ==
  /\ keyset'.keys = Append(keyset.keys, k) /\ keyset'.epoch_id = keyset.epoch_id
  /\ key_event.epoch_id = keyset.epoch_id /\ reshared_keys' = <<>>
Reshared(k) ==
  \/ /\ keyset' = keyset /\ reshared_keys' = Append(reshared_keys, k)
     /\ key_event'.epoch_id = key_event.epoch_id
  \/ /\ keyset' = [epoch_id |-> key_event.epoch_id, keys |-> Append(reshared_keys, k)]
     /\ reshared_keys' = <<>>

\* What a step can do to the keys in use and the reshared ones.
NamesShape ==
  \/ /\ keyset' = keyset \/ keyset'.keys = <<>>
     /\ \/ reshared_keys' = <<>>
        \/ reshared_keys' = reshared_keys /\ key_event'.epoch_id = key_event.epoch_id
  \/ \E a, id : \E pk \in PublicKeys :
       /\ phase # "Running" /\ VerifyVote(key_event, a, id) /\ VoteFinal(a, pk)
       /\ Generated(KeyFor(id, pk)) \/ Reshared(KeyFor(id, pk))

KeysShape == ResharedShape /\ NamesShape

\* The epoch of a key event stays while the event does.
LEMMA SameEventEpoch ==
  ASSUME IsKeyEvent(key_event), NEW a, NEW pk
  PROVE  \A ke \in {Start(key_event, KeyEventTimeoutBlocks), DropInstance(key_event),
                    Age(key_event), VoteSuccess(key_event, a, pk)} : ke.epoch_id = key_event.epoch_id
BY DEF IsKeyEvent, Start, DropInstance, Age, VoteSuccess

\* The operations on an attempt.
LEMMA AttemptShapes ==
  ASSUME TypeOK, phase # "Running", OnlyKeyEventChanges, NEW a, NEW pk \in PublicKeys,
         key_event' \in {Start(key_event, KeyEventTimeoutBlocks), DropInstance(key_event),
                        Age(key_event), VoteSuccess(key_event, a, pk)}
  PROVE  AttemptShape /\ KeysShape
<1>1. IsKeyEvent(key_event) /\ UNCHANGED <<phase, keyset, reshared_keys>>
  BY DEF TypeOK, OnlyKeyEventChanges, running
<1>2. key_event.instance \in KeyEventInstance \union {NoInstance}
  BY <1>1 DEF IsKeyEvent
<1>3. /\ Age(key_event).instance.public_key = key_event.instance.public_key
      /\ VoteSuccess(key_event, a, pk).instance.public_key = pk
  BY <1>1, <1>2 DEF IsKeyEvent, Age, VoteSuccess, KeyEventInstance, NoInstance
<1>4. AttemptShape
  BY <1>1, <1>3, SameParameters DEF AttemptShape
<1>5. key_event'.epoch_id = key_event.epoch_id
  BY <1>1, SameEventEpoch
<1>6. ResharedShape
  BY <1>1 DEF ResharedShape
<1> QED
  BY <1>1, <1>4, <1>5, <1>6 DEF KeysShape, NamesShape

\* Votes that do not finish the key event.
LEMMA VoteNotFinalShapes ==
  ASSUME TypeOK, phase # "Running", NEW a, NEW pk \in PublicKeys, VoteNotFinal(a, pk), OnlyKeyEventChanges
  PROVE  AttemptShape /\ KeysShape
BY AttemptShapes DEF VoteNotFinal

\* A vote for a generated key.
LEMMA VotePkShapes ==
  ASSUME TypeOK, EpochAhead, NoneReshared, NEW a, NEW id, NEW pk \in PublicKeys, VotePk(a, id, pk)
  PROVE  AttemptShape /\ KeysShape
<1> DEFINE generated == [keyset EXCEPT !.keys = Append(@, KeyFor(id, pk))]
           n         == Len(generated.keys)
<1>1. /\ phase = "Initializing" /\ phase # "Running" /\ VerifyVote(key_event, a, id)
      /\ reshared_keys = <<>> /\ key_event.epoch_id = keyset.epoch_id
  BY DEF VotePk, NoneReshared, EpochAhead
<1>2. CASE VoteNotFinal(a, pk) /\ OnlyKeyEventChanges
  BY <1>1, <1>2, VoteNotFinalShapes
<1>3. CASE ~(VoteNotFinal(a, pk) /\ OnlyKeyEventChanges)
  <2>1. VoteFinal(a, pk)
    BY <1>3 DEF VotePk
  <2>2. \/ /\ keyset' = generated
           /\ key_event' = NewKeyEvent(keyset.epoch_id, domains.list[n + 1].id, key_event.parameters)
           /\ UNCHANGED <<phase, reshared_keys>>
        \/ BecomeRunning(domains, generated, key_event.parameters, NoVotes)
    BY <1>3 DEF VotePk
  <2>3. generated.keys = Append(keyset.keys, KeyFor(id, pk)) /\ generated.epoch_id = keyset.epoch_id
    BY DEF TypeOK, Keyset
  <2> HIDE DEF generated
  <2>4. Generated(KeyFor(id, pk))
    BY <1>1, <2>2, <2>3 DEF BecomeRunning, Generated
  <2>5. AttemptShape
    BY <2>2, NewKeyEventParameters DEF BecomeRunning, AttemptShape
  <2>6. KeysShape
    <3>1. reshared_keys' = <<>>
      BY <2>4 DEF Generated
    <3> QED
      BY <1>1, <2>1, <2>4, <3>1 DEF KeysShape, ResharedShape, NamesShape
  <2> QED
    BY <2>5, <2>6
<1> QED
  BY <1>2, <1>3

\* A vote for a reshared key.
LEMMA VoteResharedShapes ==
  ASSUME TypeOK, KeysFollowDomains, NEW a, NEW id, VoteReshared(a, id)
  PROVE  AttemptShape /\ KeysShape
<1> DEFINE pk       == PreviousKey
           reshared == Append(reshared_keys, KeyFor(id, pk))
           n        == Len(reshared)
<1>1. phase = "Resharing" /\ phase # "Running" /\ VerifyVote(key_event, a, id) /\ pk \in PublicKeys
  BY PreviousKeyType DEF VoteReshared
<1>2. CASE VoteNotFinal(a, pk) /\ OnlyKeyEventChanges
  BY <1>1, <1>2, VoteNotFinalShapes
<1>3. CASE ~(VoteNotFinal(a, pk) /\ OnlyKeyEventChanges)
  <2>1. VoteFinal(a, pk)
    BY <1>3 DEF VoteReshared
  <2>2. \/ /\ UNCHANGED <<running, phase>> /\ reshared_keys' = reshared
           /\ key_event' = NewKeyEvent(key_event.epoch_id, domains.list[n + 1].id, key_event.parameters)
        \/ BecomeRunning(domains, [epoch_id |-> key_event.epoch_id, keys |-> reshared],
                         key_event.parameters, add_domains_votes)
    BY <1>3 DEF VoteReshared
  <2> HIDE DEF pk
  <2>3. Reshared(KeyFor(id, pk)) /\ ResharedShape
    <3>1. \A ep, dom, par : NewKeyEvent(ep, dom, par).epoch_id = ep
      BY DEF NewKeyEvent
    <3> QED
      BY <1>1, <2>2, <3>1 DEF BecomeRunning, running, Reshared, ResharedShape
  <2>4. AttemptShape
    BY <2>2, NewKeyEventParameters DEF BecomeRunning, AttemptShape
  <2>5. KeysShape
    BY <1>1, <2>1, <2>3 DEF KeysShape, NamesShape
  <2> QED
    BY <2>4, <2>5
<1> QED
  BY <1>2, <1>3

\* Adopting new parameters.
LEMMA TransitionShapes ==
  ASSUME NEW p, TransitionToResharingNoChecks(p)
  PROVE  AttemptShape /\ KeysShape
<1>1. CASE Len(domains.list) > 0
  <2>1. /\ key_event' = NewKeyEvent(ProspectiveEpoch, domains.list[1].id, p) /\ UNCHANGED keyset
        /\ reshared_keys' = <<>>
    BY <1>1 DEF TransitionToResharingNoChecks, BecomeResharing, running
  <2> QED
    BY <2>1, NewKeyEventParameters DEF AttemptShape, KeysShape, ResharedShape, NamesShape
<1>2. CASE ~(Len(domains.list) > 0)
  <2>1. phase' = "Running" /\ reshared_keys' = <<>> /\ keyset' = [epoch_id |-> keyset.epoch_id + 1, keys |-> <<>>]
    BY <1>2 DEF TransitionToResharingNoChecks, BecomeRunning
  <2> QED
    BY <2>1 DEF AttemptShape, KeysShape, ResharedShape, NamesShape
<1> QED
  BY <1>1, <1>2

\* Every step has these shapes.
LEMMA NextShapes ==
  ASSUME TypeOK, KeysFollowDomains, EpochAhead, NoneReshared, [Next]_vars
  PROVE  AttemptShape /\ KeysShape
<1>1. ASSUME UNCHANGED <<phase, keyset, key_event, reshared_keys>> PROVE AttemptShape /\ KeysShape
  BY <1>1 DEF AttemptShape, KeysShape, ResharedShape, NamesShape
<1>2. ASSUME NEW a, NEW e, NEW p, VoteNewParameters(a, e, p) PROVE AttemptShape /\ KeysShape
  <2>1. TransitionToResharingNoChecks(p) \/ UNCHANGED <<phase, keyset, key_event, reshared_keys>>
    BY <1>2 DEF VoteNewParameters, running
  <2> QED
    BY <1>1, <2>1, TransitionShapes
<1>3. ASSUME NEW a, VoteCancelResharing(a) PROVE AttemptShape /\ KeysShape
  <2>1. \/ UNCHANGED keyset /\ phase' = "Running" /\ reshared_keys' = <<>>
        \/ UNCHANGED <<phase, keyset, key_event, reshared_keys>>
    BY <1>3 DEF VoteCancelResharing, running
  <2> QED
    BY <1>1, <2>1 DEF AttemptShape, KeysShape, ResharedShape, NamesShape
<1>4. ASSUME NEW a, NEW batch, VoteAddDomains(a, batch) PROVE AttemptShape /\ KeysShape
  <2>1. \/ key_event' = NewKeyEvent(keyset.epoch_id, batch[1].id, parameters) /\ UNCHANGED keyset
        \/ UNCHANGED <<phase, keyset, key_event, reshared_keys>>
    BY <1>4 DEF VoteAddDomains, running
  <2>2. reshared_keys' = <<>>
    BY <1>4 DEF VoteAddDomains, NoneReshared
  <2> QED
    BY <1>1, <2>1, <2>2, NewKeyEventParameters DEF AttemptShape, KeysShape, ResharedShape, NamesShape
<1>6. ASSUME phase # "Running", OnlyKeyEventChanges,
             key_event' \in {Start(key_event, KeyEventTimeoutBlocks), DropInstance(key_event), Age(key_event)}
      PROVE  AttemptShape /\ KeysShape
  <2>1. IsKeyEvent(key_event) /\ UNCHANGED <<phase, keyset, reshared_keys>>
    BY <1>6 DEF TypeOK, OnlyKeyEventChanges, running
  <2>2. key_event.instance \in KeyEventInstance \union {NoInstance}
    BY <2>1 DEF IsKeyEvent
  <2>3. Age(key_event).instance.public_key = key_event.instance.public_key
    BY <2>1, <2>2 DEF IsKeyEvent, Age, KeyEventInstance, NoInstance
  <2>4. AttemptShape
    BY <1>6, <2>1, <2>3, SameParameters DEF AttemptShape
  <2>5. key_event'.epoch_id = key_event.epoch_id
    BY <1>6, <2>1, SameEventEpoch
  <2>6. ResharedShape
    BY <1>6, <2>1 DEF ResharedShape
  <2> QED
    BY <2>1, <2>4, <2>5, <2>6 DEF KeysShape, NamesShape
<1>7. ASSUME NEW a, NEW id, KeyEventCall(a, id) PROVE AttemptShape /\ KeysShape
  <2>1. ASSUME NEW ph \in {"Initializing", "Resharing"}, StartInstance(ph, a, id)
        PROVE  AttemptShape /\ KeysShape
    BY <1>6, <2>1 DEF StartInstance
  <2>2. ASSUME VoteAbortKeyEventInstance(a, id) PROVE AttemptShape /\ KeysShape
    BY <1>6, <2>2 DEF VoteAbortKeyEventInstance
  <2> QED
    BY <1>7, <2>1, <2>2, VotePkShapes, VoteResharedShapes
    DEF KeyEventCall, StartKeygenInstance, StartReshareInstance
<1>8. ASSUME NEW a, NEW d, VoteCancelKeygen(a, d) PROVE AttemptShape /\ KeysShape
  <2>1. \/ UNCHANGED <<phase, keyset, key_event, reshared_keys>>
        \/ BecomeRunning(RetainDomains(domains, Len(keyset.keys)), keyset, key_event.parameters, NoVotes)
    BY <1>8 DEF VoteCancelKeygen, running
  <2> QED
    BY <1>1, <2>1 DEF BecomeRunning, AttemptShape, KeysShape, ResharedShape, NamesShape
<1>9. ASSUME CleanTeeStatus \/ \E a \in Submitters : SubmitParticipantInfo(a) \/ AttestationLapses(a)
      PROVE  AttemptShape /\ KeysShape
  BY <1>1, <1>9 DEF CleanTeeStatus, SubmitParticipantInfo, AttestationLapses, running
<1>10. ASSUME NEW a, VerifyTee(a) PROVE AttemptShape /\ KeysShape
  <2>1. UNCHANGED <<phase, keyset, key_event, reshared_keys>> \/ \E p : TransitionToResharingNoChecks(p)
    BY <1>10 DEF VerifyTee, running
  <2> QED
    BY <1>1, <2>1, TransitionShapes
<1>11. ASSUME Tick PROVE AttemptShape /\ KeysShape
  BY <1>6, <1>11 DEF Tick
<1>12. ASSUME UNCHANGED vars PROVE AttemptShape /\ KeysShape
  BY <1>1, <1>12 DEF vars, running
<1> QED
  BY <1>2, <1>3, <1>4, <1>7, <1>8, <1>9, <1>10, <1>11, <1>12 DEF Next, OtherNext

\* The inductive invariant behind NewKeysUnanimous.
UnanimousInv == ParametersInv /\ EpochAhead /\ NoKeyNoVotes /\ NoneReshared

\* Every step keeps it.
LEMMA NextUnanimousInv == UnanimousInv /\ [Next]_vars => UnanimousInv'
<1> SUFFICES ASSUME UnanimousInv, [Next]_vars PROVE NoKeyNoVotes' /\ NoneReshared' /\ EpochAhead'
  BY NextParametersInv DEF UnanimousInv
<1>1. AttemptShape /\ KeysShape
  BY NextShapes DEF UnanimousInv, ParametersInv, TypeInv
<1>2. NoKeyNoVotes'
  BY <1>1, NoKeyAssumption DEF AttemptShape, UnanimousInv, NoKeyNoVotes
<1>3. NoneReshared'
  BY <1>1 DEF KeysShape, ResharedShape, UnanimousInv, NoneReshared
<1>4. EpochAhead'
  BY NextEpochInv DEF UnanimousInv, ParametersInv, EpochInv
<1> QED
  BY <1>2, <1>3, <1>4

\* A vote that completes an attempt is the last missing one of the
\* participants, and all others were for the same key: there are at least two
\* of them.
LEMMA LastVote ==
  ASSUME UnanimousInv, phase # "Running", NEW a, NEW id, NEW pk,
         VerifyVote(key_event, a, id), VoteFinal(a, pk)
  PROVE  /\ Cardinality(Ids(key_event.parameters) \ key_event.instance.completed) = 1
         /\ key_event.instance.public_key = pk
<1> DEFINE p    == key_event.parameters
           me   == p.ids[a]
           done == key_event.instance.completed
           ids  == [b \in Members(p) |-> p.ids[b]]
<1>1. /\ IsKeyEvent(key_event) /\ Validate(p) /\ done \subseteq Ids(p) /\ NoKeyNoVotes
      /\ a \in Members(p)
  BY EventParameters DEF UnanimousInv, ParametersInv, TypeInv, TypeOK, ParametersSound,
                         VotesFromParticipants, VerifyVote
<1>2. Members(p) \subseteq Accounts
  BY <1>1 DEF IsKeyEvent, IsThresholdParameters
<1>3. IsFiniteSet(Members(p)) /\ Size(p) \in Nat
  BY <1>2, AccountsAssumption, FS_Subset, FS_CardinalityType DEF Size
<1>4. Size(p) >= 2
  <2>1. p.threshold \in Nat /\ ValidateThreshold(Size(p), p.threshold)
    BY <1>1 DEF Validate, IsKeyEvent, IsThresholdParameters
  <2> QED
    BY <1>3, <2>1 DEF ValidateThreshold, MIN_THRESHOLD_ABSOLUTE
<1>5. IsFiniteSet(Ids(p)) /\ Cardinality(Ids(p)) <= Size(p)
  <2>1. ids \in Surjection(Members(p), Ids(p))
    BY DEF Surjection, Ids
  <2> QED
    BY <1>3, <2>1, FS_Surjection DEF Size
<1>6. me \in Ids(p) /\ me \notin done
  BY <1>1 DEF Ids, VoteFinal, AlreadyVoted
<1>7. Cardinality(done \union {me}) = Size(p)
  <2>1. VoteSuccess(key_event, a, pk).instance.completed = done \union {me}
    BY <1>1, SameParameters
  <2>2. VoteSuccess(key_event, a, pk).parameters = p
    BY <1>1, SameParameters
  <2> QED
    BY <2>1, <2>2 DEF VoteFinal, EveryoneVoted
<1>8. IsFiniteSet(done) /\ Cardinality(done) \in Nat /\ Cardinality(done \union {me}) = Cardinality(done) + 1
  BY <1>1, <1>5, <1>6, FS_Subset, FS_CardinalityType, FS_AddElement
<1>9. done \union {me} = Ids(p)
  <2>1. done \union {me} \in SUBSET Ids(p)
    BY <1>1, <1>6
  <2>2. Cardinality(Ids(p)) \in Nat /\ Cardinality(done \union {me}) <= Cardinality(Ids(p))
    BY <1>5, <2>1, FS_Subset, FS_CardinalityType
  <2>3. Cardinality(Ids(p)) = Cardinality(done \union {me})
    BY <1>3, <1>5, <1>7, <2>2
  <2> QED
    BY <1>5, <2>1, <2>3, FS_Subset
<1>10. Ids(p) \ done = {me}
  BY <1>6, <1>9
<1>11. key_event.instance.public_key # NoKey
  <2>1. Cardinality(done) # 0
    BY <1>3, <1>4, <1>7, <1>8
  <2>2. done # {}
    BY <2>1, FS_EmptySet
  <2> QED
    BY <1>1, <2>2 DEF NoKeyNoVotes
<1>12. key_event.instance.public_key = pk
  BY <1>11 DEF VoteFinal, Disagrees
<1>13. Cardinality(Ids(p) \ done) = 1
  BY <1>10, FS_Singleton
<1> QED
  BY <1>12, <1>13

\* The key an attempt yields.
LEMMA KeyOfAttempt ==
  ASSUME NEW a, NEW id, NEW pk, VerifyVote(key_event, a, id)
  PROVE  KeyFor(id, pk) = [domain_id |-> key_event.domain_id, key |-> pk,
                           attempt |-> key_event.instance.attempt_id]
<1>1. id.domain_id = key_event.domain_id /\ id.attempt_id = key_event.instance.attempt_id
  BY DEF VerifyVote
<1> QED
  BY <1>1 DEF KeyFor

\* The elements of a list with one more.
LEMMA InAppended ==
  ASSUME NEW s \in Seq(KeyForDomain), NEW k \in KeyForDomain, NEW j \in 1 .. Len(Append(s, k))
  PROVE  Append(s, k)[j] = k \/ \E i \in 1 .. Len(s) : Append(s, k)[j] = s[i]
<1>1. /\ Len(Append(s, k)) = Len(s) + 1 /\ Len(s) \in Nat
      /\ \A i \in 1 .. Len(s) : Append(s, k)[i] = s[i]
      /\ Append(s, k)[Len(s) + 1] = k
  BY AppendProperties, LenProperties
<1>2. j \in 1 .. Len(s) \/ j = Len(s) + 1
  BY <1>1
<1> QED
  BY <1>1, <1>2

\* Every key that a step puts into the keyset, or among the reshared ones, has
\* the votes of all.
LEMMA NewKeysStep ==
  ASSUME UnanimousInv, [Next]_vars
  PROVE  NewKeysUnanimousStep
<1> SUFFICES ASSUME NEW named \in NamedKeys', named \notin NamedKeys
             PROVE  /\ Active(key_event)
                    /\ named = <<key_event.epoch_id,
                                 [domain_id |-> key_event.domain_id, key |-> key_event.instance.public_key,
                                  attempt |-> key_event.instance.attempt_id]>>
                    /\ Cardinality(Ids(key_event.parameters) \ key_event.instance.completed) = 1
  BY DEF NewKeysUnanimousStep
<1>1. keyset.keys \in Seq(KeyForDomain) /\ reshared_keys \in Seq(KeyForDomain)
  BY DEF UnanimousInv, ParametersInv, TypeInv, TypeOK, Keyset
<1>2. NamesShape
  BY NextShapes DEF UnanimousInv, ParametersInv, TypeInv, KeysShape
<1>3. \/ \E j \in 1 .. Len(keyset'.keys) : named = <<keyset'.epoch_id, keyset'.keys[j]>>
      \/ \E j \in 1 .. Len(reshared_keys') : named = <<key_event'.epoch_id, reshared_keys'[j]>>
  BY DEF NamedKeys
<1>4. /\ \A i \in 1 .. Len(keyset.keys) : named # <<keyset.epoch_id, keyset.keys[i]>>
      /\ \A i \in 1 .. Len(reshared_keys) : named # <<key_event.epoch_id, reshared_keys[i]>>
  BY DEF NamedKeys
<1>5. \A j : j \notin 1 .. Len(<<>>)
  <2>1. Len(<<>>) = 0
    OBVIOUS
  <2> QED
    BY <2>1
<1>6. ~(/\ keyset' = keyset \/ keyset'.keys = <<>>
        /\ \/ reshared_keys' = <<>>
           \/ reshared_keys' = reshared_keys /\ key_event'.epoch_id = key_event.epoch_id)
  BY <1>3, <1>4, <1>5
<1>7. PICK a, id : \E pk \in PublicKeys :
        /\ phase # "Running" /\ VerifyVote(key_event, a, id) /\ VoteFinal(a, pk)
        /\ Generated(KeyFor(id, pk)) \/ Reshared(KeyFor(id, pk))
  BY <1>2, <1>6 DEF NamesShape
<1>8. PICK pk \in PublicKeys :
        /\ phase # "Running" /\ VerifyVote(key_event, a, id) /\ VoteFinal(a, pk)
        /\ Generated(KeyFor(id, pk)) \/ Reshared(KeyFor(id, pk))
  BY <1>7
<1>9. PICK k : k = KeyFor(id, pk)
  OBVIOUS
<1>10. k \in KeyForDomain
  <2>1. IsKeyEvent(key_event)
    BY <1>8 DEF UnanimousInv, ParametersInv, TypeInv, TypeOK
  <2> QED
    BY <1>8, <1>9, <2>1, KeyForType
<1>11. named = <<key_event.epoch_id, k>>
  <2>1. CASE Generated(k)
    BY <1>1, <1>3, <1>4, <1>5, <1>10, <2>1, InAppended DEF Generated
  <2>2. CASE /\ keyset' = keyset /\ reshared_keys' = Append(reshared_keys, k)
             /\ key_event'.epoch_id = key_event.epoch_id
    BY <1>1, <1>3, <1>4, <1>10, <2>2, InAppended
  <2>3. CASE /\ keyset' = [epoch_id |-> key_event.epoch_id, keys |-> Append(reshared_keys, k)]
             /\ reshared_keys' = <<>>
    <3>1. keyset'.epoch_id = key_event.epoch_id /\ keyset'.keys = Append(reshared_keys, k)
      BY <2>3
    <3> QED
      BY <1>1, <1>3, <1>4, <1>5, <1>10, <2>3, <3>1, InAppended
  <2> QED
    BY <1>8, <1>9, <2>1, <2>2, <2>3 DEF Reshared
<1>12. Active(key_event)
  BY <1>8 DEF VerifyVote
<1>13. /\ Cardinality(Ids(key_event.parameters) \ key_event.instance.completed) = 1
       /\ key_event.instance.public_key = pk
  BY <1>8, LastVote
<1>14. k = [domain_id |-> key_event.domain_id, key |-> key_event.instance.public_key,
            attempt |-> key_event.instance.attempt_id]
  BY <1>8, <1>9, <1>13, KeyOfAttempt
<1> QED
  BY <1>11, <1>12, <1>13, <1>14

\* A key enters the keyset, or the list of reshared keys, only with the votes
\* of all participants of a live attempt, and a finished resharing adds only
\* what had them, for every set of accounts and every sequence of votes,
\* timeouts and disagreements.
THEOREM NewKeysUnanimousAlways == Spec => NewKeysUnanimous
<1>1. Init => UnanimousInv
  BY InitParametersInv, InitEpochInv DEF Init, UnanimousInv, NoKeyNoVotes, NoneReshared, EpochInv
<1>2. UnanimousInv /\ [Next]_vars => UnanimousInv' /\ [NewKeysUnanimousStep]_vars
  BY NextUnanimousInv, NewKeysStep
<1> QED
  BY <1>1, <1>2, PTL DEF Spec, NewKeysUnanimous

(***************************************************************************)
(* The contract implements the key service.                                *)
(***************************************************************************)

\* The invariant under which every step is one of the key service.
ServiceInv == EpochInv /\ ParametersInv

\* Somebody may answer requests.
SomebodyAnswers == Responders \in (SUBSET Accounts) \ {{}}

\* There always is: the participants of valid parameters are attested.
LEMMA SomeResponder == ParametersInv => SomebodyAnswers
<1> SUFFICES ASSUME ParametersInv PROVE Responders \in (SUBSET Accounts) \ {{}}
  BY DEF SomebodyAnswers
<1> DEFINE p == ActiveParameters
<1>1. IsThresholdParameters(p) /\ Validate(p)
  <2>1. CASE phase = "Running"
    BY <2>1 DEF ParametersInv, TypeInv, TypeOK, ParametersSound, ParametersValid, ActiveParameters
  <2>2. CASE phase # "Running"
    <3>1. IsThresholdParameters(key_event.parameters)
      BY <2>2 DEF ParametersInv, TypeInv, TypeOK, IsKeyEvent
    <3> QED
      BY <2>2, <3>1, EventParameters DEF ActiveParameters
  <2> QED
    BY <2>1, <2>2
<1>2. Members(p) \subseteq Accounts /\ p.threshold \in Nat
  BY <1>1 DEF IsThresholdParameters
<1>3. IsFiniteSet(Members(p)) /\ Size(p) \in Nat
  BY <1>2, AccountsAssumption, FS_Subset, FS_CardinalityType DEF Size
<1>4. Size(p) # 0
  <2>1. ValidateThreshold(Size(p), p.threshold)
    BY <1>1 DEF Validate
  <2>2. p.threshold <= Size(p) /\ p.threshold >= 2
    BY <2>1 DEF ValidateThreshold, MIN_THRESHOLD_ABSOLUTE
  <2>3. p.threshold \in Nat
    BY <1>2
  <2> HIDE DEF p
  <2> QED
    BY <1>3, <2>2, <2>3
<1>5. Members(p) # {}
  BY <1>4, FS_EmptySet DEF Size
<1>6. \A a \in Members(p) : a \in Responders
  BY <1>2 DEF Responders, IsAttestedParticipant, ParametersInv, ParametersSound, ParticipantsAttested
<1> QED
  BY <1>5, <1>6 DEF Responders

\* The keys served depend on these only.
LEMMA ServedKeysFrame ==
  ASSUME Len(keyset'.keys) = Len(keyset.keys),
         \A i \in 1 .. Len(keyset.keys) : /\ keyset'.keys[i].domain_id = keyset.keys[i].domain_id
                                          /\ keyset'.keys[i].key = keyset.keys[i].key
                                          /\ domains'.list[i] = domains.list[i]
  PROVE  ServedKeys' = ServedKeys
BY DEF ServedKeys

\* Requests are switched by verify_tee only, and a resharing that it begins
\* switches them on.
AcceptShape ==
  \/ UNCHANGED accept_requests
  \/ /\ phase = "Running" /\ phase' # "Initializing" /\ accept_requests' \in BOOLEAN
     /\ phase' = "Resharing" => accept_requests' = TRUE

\* Every step has this shape.
LEMMA AcceptShapes ==
  ASSUME [Next]_vars
  PROVE  AcceptShape
<1>1. ASSUME NEW r, NEW k, NEW p, NEW dv, BecomeRunning(r, k, p, dv) PROVE phase' = "Running"
  BY <1>1 DEF BecomeRunning
<1>2. ASSUME NEW a, VerifyTee(a) PROVE AcceptShape
  <2>1. phase = "Running"
    BY <1>2 DEF VerifyTee
  <2>2. \/ accept_requests' \in BOOLEAN /\ UNCHANGED phase
        \/ accept_requests' = TRUE /\ \E p : TransitionToResharingNoChecks(p)
    BY <1>2, Zenon DEF VerifyTee
  <2> QED
    BY <2>1, <2>2, TransitionVotes DEF AcceptShape
<1>3. ASSUME NEW a, NEW id, KeyEventCall(a, id) PROVE UNCHANGED accept_requests
  BY <1>3 DEF KeyEventCall, StartKeygenInstance, StartReshareInstance, StartInstance, VotePk, VoteReshared,
              VoteAbortKeyEventInstance, OnlyKeyEventChanges, tee
<1>4. ASSUME NEW a, NEW e, NEW p, VoteNewParameters(a, e, p) PROVE UNCHANGED accept_requests
  BY <1>4 DEF VoteNewParameters, tee
<1>5. ASSUME NEW a, NEW x, VoteAddDomains(a, x) \/ VoteCancelKeygen(a, x) PROVE UNCHANGED accept_requests
  BY <1>5 DEF VoteAddDomains, VoteCancelKeygen, tee
<1>6. ASSUME NEW a, VoteCancelResharing(a) \/ SubmitParticipantInfo(a) \/ AttestationLapses(a)
      PROVE  UNCHANGED accept_requests
  BY <1>6 DEF VoteCancelResharing, SubmitParticipantInfo, AttestationLapses, tee
<1>7. ASSUME CleanTeeStatus \/ Tick \/ UNCHANGED vars PROVE UNCHANGED accept_requests
  BY <1>7 DEF CleanTeeStatus, Tick, OnlyKeyEventChanges, tee, vars
<1> QED
  BY <1>2, <1>3, <1>4, <1>5, <1>6, <1>7 DEF Next, OtherNext, AcceptShape

\* A generated key belongs to a domain that had none.
LEMMA GenerateKeyStep ==
  ASSUME TypeOK, KeysFollowDomains, TypeOK', KeysFollowDomains',
         NEW k \in KeyForDomain, keyset' = [keyset EXCEPT !.keys = Append(@, k)], UNCHANGED domains
  PROVE  \E x \in ServedKeys' : /\ \A l \in ServedKeys : l.domain_id # x.domain_id
                                /\ ServedKeys' = ServedKeys \union {x}
<1> DEFINE n == Len(keyset.keys)
           x == [domain_id |-> k.domain_id, purpose |-> domains.list[n + 1].purpose, key |-> k.key]
<1>1. keyset.keys \in Seq(KeyForDomain) /\ n \in Nat /\ domains \in DomainRegistry
  BY LenProperties DEF TypeOK, Keyset
<1>2. keyset'.keys = Append(keyset.keys, k)
  BY DEF TypeOK, Keyset
<1>3. /\ Len(keyset'.keys) = n + 1
      /\ \A i \in 1 .. n : keyset'.keys[i] = keyset.keys[i]
      /\ keyset'.keys[n + 1] = k
  BY <1>1, <1>2, AppendProperties
<1>4. /\ n + 1 \in 1 .. Len(domains.list) /\ Len(domains.list) \in Nat
      /\ \A i \in 1 .. n : i \in 1 .. Len(domains.list) /\ i < n + 1
  <2>1. Len(domains.list) \in Nat /\ n + 1 <= Len(domains.list)
    BY <1>1, <1>3, LenProperties DEF KeysFollowDomains, DomainRegistry
  <2> QED
    BY <1>1, <2>1
<1>5. k.domain_id = domains.list[n + 1].id
  BY <1>1, <1>3 DEF KeysFollowDomains
<1>6. \A i \in 1 .. n : keyset.keys[i].domain_id # k.domain_id
  <2> SUFFICES ASSUME NEW i \in 1 .. n PROVE keyset.keys[i].domain_id # k.domain_id
    OBVIOUS
  <2>1. keyset.keys[i].domain_id = domains.list[i].id
    BY DEF KeysFollowDomains
  <2>2. domains.list[i].id < domains.list[n + 1].id
    BY <1>4 DEF KeysFollowDomains
  <2>3. domains.list[i].id \in Nat /\ domains.list[n + 1].id \in Nat
    BY <1>1, <1>4, DomainIdType
  <2> QED
    BY <1>5, <2>1, <2>2, <2>3
<1>7. 1 .. Len(keyset'.keys) = (1 .. n) \union {n + 1}
  BY <1>1, <1>3
<1>8. ServedKeys' = ServedKeys \union {x}
  BY <1>3, <1>7 DEF ServedKeys
<1>9. \A l \in ServedKeys : l.domain_id # x.domain_id
  BY <1>6 DEF ServedKeys
<1> HIDE DEF x
<1> QED
  BY <1>8, <1>9

\* Every step of the contract is a step of the key service or stutters.
LEMMA ServiceStep ==
  ASSUME ServiceInv, ServiceInv', SomebodyAnswers', [Next]_vars
  PROVE  Service!ServiceNext
<1>1. /\ TypeOK /\ KeysFollowDomains /\ EpochAhead /\ TypeOK' /\ KeysFollowDomains' /\ EpochAhead'
      /\ EpochInv /\ keyset \in Keyset /\ domains \in DomainRegistry
      /\ keyset.keys \in Seq(KeyForDomain) /\ Len(keyset.keys) \in Nat
      /\ domains.list \in Seq(DomainConfig) /\ Len(domains.list) \in Nat
      /\ Len(keyset.keys) <= Len(domains.list)
  BY LenProperties DEF ServiceInv, EpochInv, TypeInv, TypeOK, Keyset, DomainRegistry, KeysFollowDomains
<1>2. Responders' \in (SUBSET Accounts) \ {{}}
  BY DEF SomebodyAnswers
<1>3. StepShape /\ KeysStableStep /\ AcceptShape
  BY StepShapes, NextEpochInv, AcceptShapes DEF ServiceInv, EpochInv
<1> DEFINE Moves == \/ Service!BeginKeygen
                    \/ Service!GenerateKey
                    \/ Service!CancelKeygen
                    \/ Service!BeginResharing
                    \/ Service!EndResharing
                    \/ Service!SwitchRequests
                    \/ Service!RespondersChange
<1>4. ASSUME ServedKeys' = ServedKeys, UNCHANGED phase PROVE Moves
  BY <1>3, <1>4 DEF AcceptShape, Service!SwitchRequests, Service!RespondersChange
<1>5. ASSUME UNCHANGED <<phase, domains, keyset>> PROVE Moves
  <2>1. ServedKeys' = ServedKeys
    BY <1>5 DEF ServedKeys
  <2> QED
    BY <1>4, <1>5, <2>1
<1>6. ASSUME NEW p, phase # "Initializing", TransitionToResharingNoChecks(p) PROVE Moves
  <2>1. CASE Len(domains.list) > 0
    <3>1. phase' = "Resharing" /\ UNCHANGED <<domains, keyset>>
      BY <1>6, <2>1 DEF TransitionToResharingNoChecks, BecomeResharing, running
    <3>2. ServedKeys' = ServedKeys
      BY <3>1 DEF ServedKeys
    <3>3. phase \in {"Running", "Resharing"}
      BY <1>1, <1>6 DEF TypeOK
    <3>4. CASE phase = "Resharing"
      BY <1>4, <3>1, <3>2, <3>4
    <3>5. CASE phase = "Running"
      BY <1>3, <3>1, <3>2, <3>5 DEF AcceptShape, Service!BeginResharing
    <3> QED
      BY <3>3, <3>4, <3>5
  <2>2. CASE ~(Len(domains.list) > 0)
    <3>1. phase' = "Running" /\ keyset' = [epoch_id |-> keyset.epoch_id + 1, keys |-> <<>>]
      BY <1>6, <2>2 DEF TransitionToResharingNoChecks, BecomeRunning
    <3>2. Len(keyset.keys) = 0 /\ Len(keyset'.keys) = 0
      BY <1>1, <2>2, <3>1
    <3>3. ServedKeys' = ServedKeys
      BY <3>2, ServedKeysFrame
    <3>4. phase = "Running"
      BY <1>1, <1>6, <2>2, LenProperties DEF TypeOK, KeysFollowDomains
    <3> QED
      BY <1>4, <3>1, <3>3, <3>4
  <2> QED
    BY <2>1, <2>2
<1>7. ASSUME phase = "Running", phase' = "Initializing", UNCHANGED keyset,
             NEW batch \in Batches, domains' = AddDomains(domains, batch)
      PROVE  Moves
  <2>1. batch \in Seq(DomainConfig)
    BY InputAssumption
  <2>2. \A i \in 1 .. Len(keyset.keys) : domains'.list[i] = domains.list[i]
    <3>1. domains'.list = domains.list \o batch
      BY <1>7 DEF AddDomains
    <3>2. \A i \in 1 .. Len(keyset.keys) : i \in 1 .. Len(domains.list)
      BY <1>1
    <3> QED
      BY <1>1, <2>1, <3>1, <3>2, ConcatProperties
  <2>3. ServedKeys' = ServedKeys
    BY <1>7, <2>2, ServedKeysFrame
  <2> QED
    BY <1>3, <1>7, <2>3 DEF AcceptShape, Service!BeginKeygen
<1>8. ASSUME phase = "Initializing", phase' \in {"Initializing", "Running"}, NEW k \in KeyForDomain,
             keyset' = [keyset EXCEPT !.keys = Append(@, k)], UNCHANGED domains
      PROVE  Moves
  <2>1. \E x \in ServedKeys' : /\ \A l \in ServedKeys : l.domain_id # x.domain_id
                               /\ ServedKeys' = ServedKeys \union {x}
    BY <1>1, <1>8, GenerateKeyStep
  <2> QED
    BY <1>3, <1>8, <2>1 DEF AcceptShape, Service!GenerateKey
<1>9. ASSUME phase = "Resharing", phase' = "Running", UNCHANGED domains PROVE Moves
  <2>1. Len(keyset'.keys) = Len(keyset.keys)
    BY <1>1, <1>9 DEF KeysFollowDomains
  <2>2. ServedKeys' = ServedKeys
    BY <1>3, <1>9, <2>1, ServedKeysFrame DEF KeysStableStep
  <2> QED
    BY <1>3, <1>9, <2>2 DEF AcceptShape, Service!EndResharing
<1>10. ASSUME phase = "Initializing", phase' = "Running", UNCHANGED keyset,
              domains' = RetainDomains(domains, Len(keyset.keys))
       PROVE  Moves
  <2>1. domains'.list = SubSeq(domains.list, 1, Len(keyset.keys))
    BY <1>1, <1>10 DEF RetainDomains, DomainRegistry
  <2>2. \A i \in 1 .. Len(keyset.keys) : domains'.list[i] = domains.list[i]
    BY <1>1, <2>1, SubSeqProperties
  <2>3. ServedKeys' = ServedKeys
    BY <1>10, <2>2, ServedKeysFrame
  <2> QED
    BY <1>3, <1>10, <2>3 DEF AcceptShape, Service!CancelKeygen
<1> HIDE DEF Moves
<1>11. Moves
  BY <1>3, <1>5, <1>6, <1>7, <1>8, <1>9, <1>10 DEF StepShape
<1> QED
  BY <1>2, <1>11 DEF Moves, Service!ServiceNext

\* Initially the domains have one key each and somebody may answer.
LEMMA ServiceInitially ==
  ASSUME Init, ServiceInv
  PROVE  Service!ServiceInit
<1>1. phase = "Running" /\ accept_requests = TRUE /\ Responders \in (SUBSET Accounts) \ {{}}
  BY SomeResponder DEF Init, ServiceInv, SomebodyAnswers
<1>2. \A k, l \in ServedKeys : k.domain_id = l.domain_id => k = l
  <2> SUFFICES ASSUME NEW i \in 1 .. Len(keyset.keys), NEW j \in 1 .. Len(keyset.keys),
                      keyset.keys[i].domain_id = keyset.keys[j].domain_id
               PROVE  i = j
    BY DEF ServedKeys
  <2>1. /\ TypeOK /\ KeysFollowDomains /\ domains \in DomainRegistry
        /\ Len(keyset.keys) \in Nat /\ Len(domains.list) \in Nat /\ Len(keyset.keys) <= Len(domains.list)
    BY LenProperties DEF ServiceInv, EpochInv, TypeInv, TypeOK, Keyset, DomainRegistry, KeysFollowDomains
  <2>2. i \in 1 .. Len(domains.list) /\ j \in 1 .. Len(domains.list)
    BY <2>1
  <2>3. domains.list[i].id = domains.list[j].id
    BY <2>1 DEF KeysFollowDomains
  <2>4. domains.list[i].id \in Nat /\ domains.list[j].id \in Nat
    BY <2>1, <2>2, DomainIdType
  <2>5. ~(i < j) /\ ~(j < i)
    BY <2>1, <2>2, <2>3, <2>4 DEF KeysFollowDomains
  <2> QED
    BY <2>1, <2>5
<1> QED
  BY <1>1, <1>2 DEF Service!ServiceInit

\* The contract implements the key service that serves requests: for any
\* accounts, proposals, batches and bounds, its votes, key events,
\* cancellations and attestations only ever add a key for a domain without
\* one, switch requests by verify_tee, and leave somebody who may answer.
THEOREM ImplementsKeyServiceAlways == Spec => ImplementsKeyService
<1>1. Init => ServiceInv /\ Service!ServiceInit
  BY InitEpochInv, InitParametersInv, ServiceInitially DEF ServiceInv
<1>2. ServiceInv /\ [Next]_vars => ServiceInv'
  BY NextEpochInv, NextParametersInv DEF ServiceInv
<1>3. ServiceInv => SomebodyAnswers
  BY SomeResponder DEF ServiceInv
<1>4. ServiceInv /\ ServiceInv' /\ SomebodyAnswers' /\ [Next]_vars
        => [Service!ServiceNext]_(Service!serviceVars)
  BY ServiceStep
<1> QED
  BY <1>1, <1>2, <1>3, <1>4, PTL DEF Spec, ImplementsKeyService, Service!ServiceSpec
=============================================================================
