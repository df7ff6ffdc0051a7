------------------------- MODULE ContractGovernance -------------------------
(***************************************************************************)
(* The votes of the MPC contract that outlive a change of participants:    *)
(* contract and config updates, the foreign chain policy, MPC image hashes *)
(* and launcher hashes, with the allow lists the last two maintain.        *)
(*                                                                         *)
(* The participants are those of the Running state, or of the previous one *)
(* while a resharing is under way; here they change to any proposal that   *)
(* the protocol accepts.  Key generation changes nothing that these votes  *)
(* look at except that the phase is not Running, so it is covered by a     *)
(* resharing that is cancelled.                                            *)
(***************************************************************************)
EXTENDS KeyEvent, AllowLists

CONSTANTS
  InitialParameters, \* what the first participants may be
  Proposals,        \* parameters that a resharing may lead to
  Policies,         \* foreign chain policies
  InitImages,       \* images allowed at the start
  InitLaunchers,    \* launchers allowed at the start
  MaxUpdates,       \* bound: how many updates are proposed
  MaxTime           \* bound: where the clock stops

ASSUME GovernanceAssumption ==
  /\ IsFiniteSet(Accounts)
  /\ \A p \in InitialParameters : IsThresholdParameters(p) /\ Validate(p)
  /\ \A p \in Proposals : IsThresholdParameters(p)
  /\ InitLaunchers \subseteq Launchers
  /\ InitImages \in Seq([image_hash : Images, added : {0}])
  /\ MaxUpdates \in Nat /\ MaxTime \in Nat

VARIABLES
  phase,                  \* Running, or Resharing
  parameters,             \* who votes, and the threshold
  entries,                \* ids of the proposed updates
  next_update_id,         \* ProposedUpdates::id
  vote_by_participant,    \* account -> the update it votes for
  policy_votes,           \* account -> the policy it votes for
  foreign_chain_policy,
  code_votes,             \* participant id -> the image it votes for, and who it was
  launcher_votes,         \* participant id -> the action it votes for, and who it was
  images,                 \* AllowedDockerImageHashes
  launchers,              \* AllowedLauncherImages
  now,                    \* block timestamp
  enacted                 \* history: the last vote that passed

updateVars == <<entries, next_update_id, vote_by_participant>>
policyVars == <<policy_votes, foreign_chain_policy>>
teeVars    == <<code_votes, launcher_votes, images, launchers, now>>
vars == <<phase, parameters, updateVars, policyVars, teeVars, enacted>>

NoVotes == [x \in {} |-> x]

NoPolicy == "no policy"

Nothing == [topic |-> "none", supporters |-> {}, members |-> {}, threshold |-> 0]

\* Which accounts stood behind a vote that passes now.
Enact(topic, supporters) ==
  enacted' = [topic |-> topic, supporters |-> supporters, members |-> Members(parameters),
              threshold |-> parameters.threshold]

Cast(f, k, v) == [x \in DOMAIN f \union {k} |-> IF x = k THEN v ELSE f[x]]

Init ==
  /\ phase = "Running"
  /\ parameters \in InitialParameters
  /\ entries = {}
  /\ next_update_id = 0
  /\ vote_by_participant = NoVotes
  /\ policy_votes = NoVotes
  /\ foreign_chain_policy = NoPolicy
  /\ code_votes = NoVotes
  /\ launcher_votes = NoVotes
  /\ images = InitImages
  /\ launchers = [l \in InitLaunchers |-> {ComposeHash(l, i) : i \in AllowedImages(InitImages, 0)}]
  /\ now = 0
  /\ enacted = Nothing

(***************************************************************************)
(* Updates of the contract.  Running the update itself is left out.        *)
(***************************************************************************)
ProposeUpdate(a) ==
  /\ a \in Members(parameters)
  /\ next_update_id < MaxUpdates
  /\ entries' = entries \union {next_update_id}
  /\ next_update_id' = next_update_id + 1
  /\ UNCHANGED <<phase, parameters, vote_by_participant, policyVars, teeVars, enacted>>

\* The accounts with a stored vote for v; as a mutant of VotersFor: votes of
\* former participants count.
AllVotersFor(f, v) == {b \in DOMAIN f : f[b] = v}

\* The current participants with a stored vote for v.
VotersFor(f, v) == {b \in Members(parameters) \intersect DOMAIN f : f[b] = v}

\* All entries and votes are dropped with the update that is executed.
DoUpdate(id, cast) ==
  /\ entries' = {}
  /\ vote_by_participant' = NoVotes
  /\ Enact("update", AllVotersFor(cast, id))

VoteUpdate(a, id) ==
  /\ phase = "Running"
  /\ a \in Members(parameters)
  /\ id \in entries
  /\ LET cast == Cast(vote_by_participant, a, id) IN
     IF Cardinality(VotersFor(cast, id)) < parameters.threshold
     THEN vote_by_participant' = cast /\ UNCHANGED <<entries, enacted>>
     ELSE DoUpdate(id, cast)
  /\ UNCHANGED <<phase, parameters, next_update_id, policyVars, teeVars>>

RemoveUpdateVotesOf(S) ==
  /\ vote_by_participant' = [b \in DOMAIN vote_by_participant \ S |-> vote_by_participant[b]]
  /\ UNCHANGED <<phase, parameters, entries, next_update_id, policyVars, teeVars, enacted>>

RemoveUpdateVote(a) ==
  /\ phase = "Running"
  /\ a \in Members(parameters)
  /\ RemoveUpdateVotesOf({a})

\* Spawned by the end of a resharing, and open to any caller: it runs late,
\* early, repeatedly or never.
RemoveNonParticipantUpdateVotes ==
  /\ phase = "Running"
  /\ RemoveUpdateVotesOf(Accounts \ Members(parameters))

(***************************************************************************)
(* The foreign chain policy.                                               *)
(***************************************************************************)
VoteForeignChainPolicy(a, policy) ==
  /\ phase = "Running"
  /\ a \in Members(parameters)
  /\ LET cast == Cast(policy_votes, a, policy) IN
     IF Cardinality(VotersFor(cast, policy)) = Size(parameters)
     THEN /\ foreign_chain_policy' = policy
          /\ policy_votes' = NoVotes
          /\ Enact("policy", AllVotersFor(cast, policy))
     ELSE /\ policy_votes' = cast
          /\ UNCHANGED <<foreign_chain_policy, enacted>>
  /\ UNCHANGED <<phase, parameters, updateVars, teeVars>>

(***************************************************************************)
(* Images and launchers.  These votes are stored by participant id and all *)
(* stored ones are counted.                                                *)
(***************************************************************************)
VoteBy(a, v) == [by |-> a, for |-> v]

IdsFor(f, v) == {i \in DOMAIN f : f[i].for = v}

AuthorsFor(f, v) == {f[i].by : i \in IdsFor(f, v)}

VoteCodeHash(a, image) ==
  /\ a \in Members(parameters)
  /\ LET cast == Cast(code_votes, parameters.ids[a], VoteBy(a, image)) IN
     IF Cardinality(IdsFor(cast, image)) >= parameters.threshold
     THEN /\ code_votes' = NoVotes
          /\ launchers' = AddMpcImageComposeHashes(launchers, image)
          /\ images' = InsertImage(images, image, now)
          /\ Enact("code_hash", AuthorsFor(cast, image))
     ELSE /\ code_votes' = cast
          /\ UNCHANGED <<launchers, images, enacted>>
  /\ UNCHANGED <<phase, parameters, updateVars, policyVars, launcher_votes, now>>

VoteAddLauncherHash(a, launcher) ==
  /\ a \in Members(parameters)
  /\ LET action == <<"Add", launcher>>
         cast   == Cast(launcher_votes, parameters.ids[a], VoteBy(a, action))
     IN IF Cardinality(IdsFor(cast, action)) >= parameters.threshold
        THEN /\ launcher_votes' = NoVotes
             /\ launchers' = AddLauncher(launchers, launcher, AllowedImages(images, now))
             /\ Enact("add_launcher", AuthorsFor(cast, action))
        ELSE /\ launcher_votes' = cast
             /\ UNCHANGED <<launchers, enacted>>
  /\ UNCHANGED <<phase, parameters, updateVars, policyVars, code_votes, images, now>>

VoteRemoveLauncherHash(a, launcher) ==
  /\ a \in Members(parameters)
  /\ LET action == <<"Remove", launcher>>
         cast   == Cast(launcher_votes, parameters.ids[a], VoteBy(a, action))
     IN IF Cardinality(IdsFor(cast, action)) >= Size(parameters)
        THEN /\ launcher_votes' = NoVotes
             /\ launchers' = RemoveLauncher(launchers, launcher)
             /\ Enact("remove_launcher", AuthorsFor(cast, action))
        ELSE /\ launcher_votes' = cast
             /\ UNCHANGED <<launchers, enacted>>
  /\ UNCHANGED <<phase, parameters, updateVars, policyVars, code_votes, images, now>>

Tick ==
  /\ now < MaxTime
  /\ now' = now + 1
  /\ UNCHANGED <<phase, parameters, updateVars, policyVars, code_votes, launcher_votes, images,
                 launchers, enacted>>

(***************************************************************************)
(* What the protocol does to phase and participants.                       *)
(***************************************************************************)
BeginResharing == phase = "Running" /\ phase' = "Resharing" /\ UNCHANGED parameters

CancelResharing == phase = "Resharing" /\ phase' = "Running" /\ UNCHANGED parameters

\* At the end of a resharing or, when there is no key to reshare, at once.
ChangeParameters(p) ==
  /\ ValidateIncomingProposal(parameters, p)
  /\ phase' = "Running"
  /\ parameters' = p

\* verify_tee cleans up the list before it looks at the attestations; those
\* who have none that verifies may be reshared out, which takes no time
\* when there is no key.
VerifyTee(a) ==
  /\ phase = "Running"
  /\ a \in Members(parameters)
  /\ images' = ValidEntries(images, now)
  /\ \/ UNCHANGED <<phase, parameters>>
     \/ BeginResharing
     \/ \E S \in SUBSET Members(parameters) \ {Members(parameters)} :
          ChangeParameters(RestrictTo(parameters, S))
  /\ UNCHANGED <<updateVars, policyVars, code_votes, launcher_votes, launchers, now, enacted>>

ProtocolStep ==
  /\ \/ BeginResharing
     \/ CancelResharing
     \/ \E p \in Proposals : ChangeParameters(p)
  /\ UNCHANGED <<updateVars, policyVars, teeVars, enacted>>

Next ==
  \/ \E a \in Accounts : ProposeUpdate(a)
  \/ \E a \in Accounts, id \in 0 .. MaxUpdates : VoteUpdate(a, id)
  \/ \E a \in Accounts : RemoveUpdateVote(a)
  \/ RemoveNonParticipantUpdateVotes
  \/ \E a \in Accounts, policy \in Policies : VoteForeignChainPolicy(a, policy)
  \/ \E a \in Accounts, image \in Images : VoteCodeHash(a, image)
  \/ \E a \in Accounts, launcher \in Launchers : VoteAddLauncherHash(a, launcher)
  \/ \E a \in Accounts, launcher \in Launchers : VoteRemoveLauncherHash(a, launcher)
  \/ \E a \in Accounts : VerifyTee(a)
  \/ Tick
  \/ ProtocolStep

Spec == Init /\ [][Next]_vars

(***************************************************************************)
(* Properties.                                                             *)
(***************************************************************************)

\* A stored vote is for an update that is still proposed, and ids are not
\* given out again: no vote is ever counted for a later update.
VotesForLiveUpdates ==
  /\ \A a \in DOMAIN vote_by_participant : vote_by_participant[a] \in entries
  /\ \A id \in entries : id < next_update_id

\* An update is executed only with the votes of threshold many participants
\* of that moment, also when the cleanup after a resharing has not run.
UpdatesBackedByThreshold ==
  enacted.topic = "update" => Cardinality(enacted.supporters \intersect enacted.members) >= enacted.threshold

\* A policy is applied only when everyone who participates at that moment
\* has voted for it, whatever votes of former participants are stored.
PoliciesUnanimous == enacted.topic = "policy" => enacted.members \subseteq enacted.supporters

\* A node that runs an allowed image under an allowed launcher can attest:
\* the compose hash of the two is allowed, in whatever order images and
\* launchers were voted in, removed and added again.
ComposeHashesComplete ==
  \A l \in DOMAIN launchers, i \in AllowedImages(images, now) : ComposeHash(l, i) \in launchers[l]

\* The list is sorted by age, the image voted in last is allowed for ever,
\* and there is always an image that may run once there was one.
NewestImageAllowed ==
  /\ \A i, j \in 1 .. Len(images) : i < j => images[i].added <= images[j].added
  /\ images # <<>> => images[Len(images)].image_hash \in AllowedImages(images, now)
  /\ InitImages # <<>> => images # <<>>

\* An image that is no longer allowed comes back only by a new vote, and an
\* allowed one goes only when a younger one is past its grace period.
ExpiredImagesStayOutStep ==
  LET before == AllowedImages(images, now)
      after  == AllowedImages(images', now')
  IN /\ \A i \in after \ before : images'[Len(images')] = [image_hash |-> i, added |-> now]
     /\ \A i \in before \ after : \E e \in 1 .. Len(images') :
          images'[e].image_hash # i /\ Enforced(images'[e], now')
ExpiredImagesStayOut == [][ExpiredImagesStayOutStep]_vars

\* Whatever is enacted about updates and policies is backed by the votes of
\* those who participate at that moment, and by votes for that very proposal.
VotesBacked == VotesForLiveUpdates /\ UpdatesBackedByThreshold /\ PoliciesUnanimous

\* A node that runs an allowed image can attest, and there is one to run.
AllowListsSound == ComposeHashesComplete /\ NewestImageAllowed
=============================================================================
