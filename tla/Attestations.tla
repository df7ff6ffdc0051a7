---------------------------- MODULE Attestations ----------------------------
(***************************************************************************)
(* Attestations as the contract keeps them, and what depends on them: who  *)
(* may act as a participant, resharing, and the migration of an account to *)
(* another node.  The first half verifies evidence (crates/attestation and *)
(* crates/mpc-attestation); a hash stands for what it is the hash of.  The *)
(* second half is the contract: tee/tee_state.rs, node_migrations.rs and   *)
(* the entry points that use them.  Votes are counted in ContractProtocol; *)
(* here a vote that does not complete anything is left out, except for the *)
(* votes of a resharing, whose callers must be attested one by one.        *)
(***************************************************************************)
EXTENDS Integers, Sequences, FiniteSets, SequencesExt

CONSTANTS
  Accounts, Nodes,   \* a node stands for its TLS key and for its account key
  Owner,             \* the account under which each node signs
  Mocks,             \* the mock attestations that are submitted, by whom and for which node
  RunsImage,         \* the image each node runs, if it is in a TEE
  RunsLauncher,      \* and the compose file of its launcher
  Images,
  Evidence,          \* the dstack attestations that the key of each node may sign for
  AllowedLaunchers,  \* compose files that are allowed
  FirstNode,         \* the initial participants and their nodes
  Candidates,        \* accounts and the nodes that are proposed for them
  Migrating,         \* accounts whose operators use backups and migrations
  Destinations,      \* the account key and TLS key that an operator names for a migration
  Threshold,
  Validity,          \* days for which an attestation is good, after the first
  MaxCleanups        \* promises of one kind that may be on their way

ASSUME AttestationsAssumption ==
  /\ Owner \in [Nodes -> Accounts]
  /\ \A m \in Mocks : m.signer \in Nodes /\ m.tls \in Nodes /\ m.kind \in {"mock", "timed"}
  /\ RunsImage \in [Nodes -> Images]
  /\ DOMAIN FirstNode \subseteq Accounts /\ Migrating \subseteq Accounts
  /\ \A a \in DOMAIN FirstNode : FirstNode[a] \in Nodes /\ Owner[FirstNode[a]] = a
  /\ Candidates \subseteq Accounts \X Nodes /\ Destinations \subseteq Nodes \X Nodes
  /\ Threshold \in Nat \ {0} /\ Validity \in Nat /\ MaxCleanups \in Nat

-----------------------------------------------------------------------------
(***************************************************************************)
(* Evidence: a quote, signed by the platform, and the unsigned TcbInfo.    *)
(***************************************************************************)

RTMR3 == 3
DstackEvent == "dstack"

\* event_digest.
EventDigest(type, event, payload) == <<type, event, payload>>

EventLog(imr, type, event, payload) ==
  [imr |-> imr, event_type |-> type, event |-> event, event_payload |-> payload,
   digest |-> EventDigest(type, event, payload)]

\* Where the events stand that RTMR3 is made of.
Measured(log) == {i \in DOMAIN log : log[i].imr = RTMR3}

\* A chain of hashes is the sequence of what went into it: the register holds
\* the digests of the measured events, in their order.
Replays(log, register) ==
  /\ Cardinality(Measured(log)) = Len(register)
  /\ \A k \in Measured(log) : \E i \in DOMAIN register :
        i = Cardinality({j \in Measured(log) : j <= k}) /\ register[i] = log[k].digest

\* verify_event_log_rtmr3: every event has the one type there is and the
\* digest of its contents, and together they give the register.
VerifyEventLog(log, expected) ==
  /\ \A i \in Measured(log) :
       /\ log[i].event_type = DstackEvent
       /\ log[i].digest = EventDigest(log[i].event_type, log[i].event, log[i].event_payload)
  /\ Replays(log, expected)

\* get_single_event: it fails if the event is missing or there are two.
Named(log, name) == {i \in Measured(log) : log[i].event = name}
IsSingle(log, name) == \E i \in Named(log, name) : Named(log, name) = {i}
SingleEvent(log, name) == log[CHOOSE i \in Named(log, name) : TRUE]

\* validate_app_compose_config: the flags of the compose file, as one.
ValidConfig(compose) == compose.config = "locked"

\* verify_app_compose.
VerifyAppCompose(tcb) ==
  /\ ValidConfig(tcb.app_compose)
  /\ IsSingle(tcb.event_log, "compose-hash")
  /\ SingleEvent(tcb.event_log, "compose-hash").event_payload = tcb.compose_hash
  /\ SingleEvent(tcb.event_log, "compose-hash").event_payload = tcb.app_compose

\* default_measurements: those of the production and of the development image,
\* each with the digest of its key provider.
DefaultMeasurements == {[rtmrs |-> "prod", provider |-> "sgx"], [rtmrs |-> "dev", provider |-> "sgx"]}

\* verify_any_measurements, with verify_static_rtmrs and
\* verify_key_provider_digest.
VerifyAnyMeasurements(quote, tcb) ==
  \E m \in DefaultMeasurements :
    /\ quote.rtmrs = m.rtmrs /\ tcb.rtmrs = m.rtmrs
    /\ IsSingle(tcb.event_log, "key-provider")
    /\ SingleEvent(tcb.event_log, "key-provider").digest
         = EventDigest(DstackEvent, "key-provider", m.provider)

\* What dcap_qvl makes of a quote: it is signed by the platform.
DcapVerify(quote) == quote.signed

\* DstackAttestation::verify.
VerifyDstack(e, report) ==
  /\ DcapVerify(e.quote)
  /\ e.quote.status = "UpToDate" /\ e.quote.advisory_ids = {}
  /\ e.quote.report_data = report
  /\ e.tcb.rtmr3 = e.quote.rtmr3
  /\ VerifyEventLog(e.tcb.event_log, e.quote.rtmr3)
  /\ VerifyAppCompose(e.tcb)
  /\ VerifyAnyMeasurements(e.quote, e.tcb)

\* ReportDataV1: the hash of the two keys.
ReportData(tls, key) == <<tls, key>>

\* Mutant of VerifyEvidence: the events are taken from the log unverified.
VerifyEvidenceUnreplayed(e, report, imageHashes, launcherHashes) ==
  /\ IsSingle(e.tcb.event_log, "mpc-image-digest")
  /\ SingleEvent(e.tcb.event_log, "mpc-image-digest").event_payload \in imageHashes
  /\ e.tcb.app_compose.docker_compose_file \in launcherHashes
  /\ DcapVerify(e.quote) /\ e.quote.report_data = report
  /\ e.tcb.rtmr3 = e.quote.rtmr3

\* Attestation::verify of a dstack attestation, against allow lists that are
\* refused when empty.
VerifyEvidence(e, report, imageHashes, launcherHashes) ==
  /\ IsSingle(e.tcb.event_log, "mpc-image-digest")
  /\ imageHashes # {} /\ SingleEvent(e.tcb.event_log, "mpc-image-digest").event_payload \in imageHashes
  /\ launcherHashes # {} /\ e.tcb.app_compose.docker_compose_file \in launcherHashes
  /\ VerifyDstack(e, report)

\* The compose file a node runs with, and the events measured into RTMR3.
ComposeOf(n) == [config |-> "locked", docker_compose_file |-> RunsLauncher[n]]
Events(n) ==
  << EventLog(RTMR3, DstackEvent, "compose-hash", ComposeOf(n)),
     EventLog(RTMR3, DstackEvent, "key-provider", "sgx"),
     EventLog(RTMR3, DstackEvent, "mpc-image-digest", RunsImage[n]) >>
RegisterOf(n) == [i \in 1 .. 3 |-> Events(n)[i].digest]

\* What dstack produces for a node in order (generate_dstack_attestation):
\* the agent's info, and a quote over the report data.
Generate(n) ==
  [quote |-> [signed |-> TRUE, status |-> "UpToDate", advisory_ids |-> {},
              report_data |-> ReportData(n, n), rtmr3 |-> RegisterOf(n), rtmrs |-> "prod"],
   tcb   |-> [rtmr3 |-> RegisterOf(n),
              event_log |-> <<EventLog(0, "firmware", "boot", "bios")>> \o Events(n),
              compose_hash |-> ComposeOf(n), app_compose |-> ComposeOf(n), rtmrs |-> "prod"]]

\* What may be submitted is arbitrary, except that the platform signs only what
\* it measured: a virtual machine that booted one of the known images is one of
\* the nodes, with its register and its keys in the report.
ASSUME EvidenceAssumption ==
  \A n \in Nodes : \A e \in Evidence[n] :
    DcapVerify(e.quote) /\ (\E d \in DefaultMeasurements : e.quote.rtmrs = d.rtmrs) =>
      \E m \in Nodes : e.quote.report_data = ReportData(m, m) /\ e.quote.rtmr3 = RegisterOf(m)

\* What is kept of evidence that passes.
Kept(e) == [image    |-> SingleEvent(e.tcb.event_log, "mpc-image-digest").event_payload,
            launcher |-> e.tcb.app_compose.docker_compose_file]

\* What gets accepted once the image is allowed, for the account key that signs
\* and the TLS key that is named.
Accepted ==
  {[key |-> s[1], tls |-> s[2], kept |-> Kept(s[3])] :
     s \in {t \in Nodes \X Nodes \X UNION {Evidence[n] : n \in Nodes} :
              /\ t[3] \in Evidence[t[1]]
              /\ VerifyEvidence(t[3], ReportData(t[2], t[1]), Images, AllowedLaunchers)}}

-----------------------------------------------------------------------------
(***************************************************************************)
(* The contract.                                                           *)
(***************************************************************************)

VARIABLES
  phase,         \* "Running" or "Resharing"
  listed,        \* the participants and the node of each, by its TLS key
  prospective,   \* those of the resharing in progress
  confirmed,     \* who has voted that its shares are reshared
  attestations,  \* stored_attestations: by TLS key
  images,        \* allowed images, oldest first, without the expired ones
  backups,       \* accounts with a backup service
  migrations,    \* ongoing_migrations: the keys of each account's destination
  cleanups,      \* promises of clean_tee_status on their way
  orphanCleanups \* promises of cleanup_orphaned_node_migrations

contractVars == <<phase, listed, prospective, confirmed, attestations, images, backups, migrations,
                  cleanups, orphanCleanups>>

NoKey == "none"
Nobody == [a \in {} |-> a]

\* A NodeAttestation: of kind "dstack", "mock", or "timed" for a mock that
\* expires.  It has so many days left.
NodeAttestation(account, key, kind, image, launcher, left) ==
  [account_id |-> account, account_public_key |-> key, kind |-> kind,
   mpc_image_hash |-> image, launcher_compose_hash |-> launcher, left |-> left]

\* What a mock attestation does not constrain.
Unconstrained == "any"

\* with_mocked_participant_attestations: no account key yet.
Mocked(a) == NodeAttestation(a, NoKey, "mock", Unconstrained, Unconstrained, 0)

\* f with x mapped to v, and f without x.
Put(f, x, v) == [y \in DOMAIN f \union {x} |-> IF y = x THEN v ELSE f[y]]
Drop(f, X) == [y \in DOMAIN f \ X |-> f[y]]

AllowedImages == ToSet(images)

\* At its last instant an attestation is still good, a mock is not.
Expired(v) ==
  \/ v.kind = "dstack" /\ v.left < 0
  \/ v.kind = "timed" /\ v.left <= 0

\* VerifiedAttestation::re_verify, with verify_mock_attestation: what a mock does
\* not constrain is not looked at.
ReVerify(v) ==
  /\ ~Expired(v)
  /\ v.kind = "dstack" \/ v.mpc_image_hash # Unconstrained => v.mpc_image_hash \in AllowedImages
  /\ v.kind = "dstack" \/ v.launcher_compose_hash # Unconstrained
       => v.launcher_compose_hash \in AllowedLaunchers

\* reverify_participants: looks at the TLS key only.
ReverifyParticipants(n) == n \in DOMAIN attestations /\ ReVerify(attestations[n])

\* is_caller_an_attested_participant, for a call that node n signs.
IsCallerAttested(participants, n) ==
  /\ Owner[n] \in DOMAIN participants
  /\ participants[Owner[n]] \in DOMAIN attestations
  /\ LET v == attestations[participants[Owner[n]]]
     IN v.account_id = Owner[n] /\ v.account_public_key \in {NoKey, n}

ActiveParticipants == IF phase = "Resharing" THEN prospective ELSE listed

\* assert_caller_is_attested_participant_and_protocol_active.
AssertAttested(n) == IsCallerAttested(ActiveParticipants, n)

\* is_existing_or_prospective_participant.
ExistingOrProspective(a) ==
  a \in DOMAIN listed \/ (phase = "Resharing" /\ a \in DOMAIN prospective)

AttestationsInit ==
  /\ phase = "Running" /\ listed = FirstNode /\ prospective = Nobody /\ confirmed = {}
  /\ attestations = [n \in {FirstNode[a] : a \in DOMAIN FirstNode} |-> Mocked(Owner[n])]
  /\ \E i \in Images : images = <<i>>
  /\ backups = {} /\ migrations = Nobody
  /\ cleanups = 0 /\ orphanCleanups = 0

(***************************************************************************)
(* Time, and the votes for images, which ContractGovernance looks at.      *)
(***************************************************************************)

DayPasses ==
  /\ attestations' = [n \in DOMAIN attestations |->
                        [attestations[n] EXCEPT
                           !.left = IF attestations[n].kind = "mock" \/ Expired(attestations[n])
                                    THEN @ ELSE @ - 1]]
  /\ UNCHANGED <<phase, listed, prospective, confirmed, images, backups, migrations, cleanups,
                 orphanCleanups>>

WhitelistImage(i) ==
  /\ images' = Append(SelectSeq(images, LAMBDA j : j # i), i)
  /\ UNCHANGED <<phase, listed, prospective, confirmed, attestations, backups, migrations,
                 cleanups, orphanCleanups>>

ImageExpires ==
  /\ Len(images) > 1 /\ images' = Tail(images)
  /\ UNCHANGED <<phase, listed, prospective, confirmed, attestations, backups, migrations,
                 cleanups, orphanCleanups>>

(***************************************************************************)
(* submit_participant_info                                                 *)
(***************************************************************************)

Stored(n, v) ==
  /\ attestations' = Put(attestations, n, v)
  /\ UNCHANGED <<phase, listed, prospective, confirmed, images, backups, migrations, cleanups,
                 orphanCleanups>>

\* A mock attestation whose constraints hold passes, whoever signs and whosever
\* TLS key is named; it takes the place of the entry that is there.
SubmitMock(m) ==
  LET v == NodeAttestation(Owner[m.signer], m.signer, m.kind, m.image, m.launcher, m.days)
  IN ReVerify(v) /\ Stored(m.tls, v)

\* A dstack attestation, whatever it is, that add_participant verifies for the
\* account key, which is signed with by the node that holds it, and the TLS key.
SubmitParticipantInfo(s) ==
  /\ s.kept.image \in AllowedImages
  /\ Stored(s.tls, NodeAttestation(Owner[s.key], s.key, "dstack", s.kept.image,
                                   s.kept.launcher, Validity))

(***************************************************************************)
(* Resharing                                                               *)
(***************************************************************************)

\* Threshold parameters of at least 60 per cent (ThresholdParameters::validate).
ValidParameters(p) ==
  Cardinality(DOMAIN p) >= Threshold /\ 10 * Threshold >= 6 * Cardinality(DOMAIN p)

\* validate_incoming_proposal: who stays keeps its node, and enough stay.
ValidProposal(p) ==
  /\ ValidParameters(p)
  /\ \A a \in DOMAIN p \intersect DOMAIN listed : p[a] = listed[a]
  /\ Cardinality(DOMAIN p \intersect DOMAIN listed) >= Threshold

BeginResharing(p) ==
  /\ phase' = "Resharing" /\ prospective' = p /\ confirmed' = {}
  /\ UNCHANGED <<listed, attestations, images, backups, migrations, cleanups, orphanCleanups>>

\* vote_new_parameters, the last vote: everybody proposed has an attestation
\* that verifies.  A resharing may be replaced by another one.
VoteNewParameters(p) ==
  /\ \A a \in DOMAIN p : ReverifyParticipants(p[a])
  /\ ValidProposal(p)
  /\ BeginResharing(p)

\* verify_tee: participants whose attestation fails are left out, if enough
\* others remain; otherwise only requests are no longer accepted.
VerifyTee ==
  LET valid == {a \in DOMAIN listed : ReverifyParticipants(listed[a])}
      p     == [a \in valid |-> listed[a]]
  IN /\ phase = "Running"
     /\ valid # DOMAIN listed /\ Cardinality(valid) >= Threshold
     /\ ValidProposal(p)
     /\ BeginResharing(p)

\* vote_reshared, signed by node n; the last vote ends the resharing and sends
\* the promises.
VoteReshared(n) ==
  /\ phase = "Resharing" /\ AssertAttested(n)
  /\ UNCHANGED <<attestations, images, backups, migrations>>
  /\ LET votes == confirmed \union {Owner[n]}
     IN \/ /\ votes # DOMAIN prospective
           /\ confirmed' = votes
           /\ UNCHANGED <<phase, listed, prospective, cleanups, orphanCleanups>>
        \/ /\ votes = DOMAIN prospective
           /\ cleanups < MaxCleanups /\ orphanCleanups < MaxCleanups
           /\ phase' = "Running" /\ listed' = prospective
           /\ prospective' = Nobody /\ confirmed' = {}
           /\ cleanups' = cleanups + 1 /\ orphanCleanups' = orphanCleanups + 1

\* vote_cancel_resharing, the last vote.
VoteCancelResharing ==
  /\ phase = "Resharing"
  /\ phase' = "Running" /\ prospective' = Nobody /\ confirmed' = {}
  /\ UNCHANGED <<listed, attestations, images, backups, migrations, cleanups, orphanCleanups>>

\* The promise of clean_tee_status: clean_non_participants, unless the phase
\* has changed, in which case it fails.
CleanTeeStatus ==
  /\ cleanups > 0 /\ cleanups' = cleanups - 1
  /\ attestations' = IF phase = "Running"
                     THEN Drop(attestations, Nodes \ {listed[a] : a \in DOMAIN listed})
                     ELSE attestations
  /\ UNCHANGED <<phase, listed, prospective, confirmed, images, backups, migrations, orphanCleanups>>

(***************************************************************************)
(* Node migration                                                          *)
(***************************************************************************)

\* register_backup_service
RegisterBackupService(a) ==
  /\ ExistingOrProspective(a)
  /\ backups' = backups \union {a}
  /\ UNCHANGED <<phase, listed, prospective, confirmed, attestations, images, migrations, cleanups,
                 orphanCleanups>>

\* start_node_migration: the operator names the keys of the destination.
StartNodeMigration(a, d) ==
  /\ phase = "Running" /\ a \in DOMAIN listed
  /\ migrations' = Put(migrations, a, [signer_account_pk |-> d[1], sign_pk |-> d[2]])
  /\ UNCHANGED <<phase, listed, prospective, confirmed, attestations, images, backups, cleanups,
                 orphanCleanups>>

\* conclude_node_migration, signed by node n, which names the current keyset.
ConcludeNodeMigration(n) ==
  LET a == Owner[n]
  IN /\ phase = "Running" /\ a \in DOMAIN listed
     /\ a \in DOMAIN migrations /\ migrations[a].signer_account_pk = n
     /\ ReverifyParticipants(migrations[a].sign_pk)
     /\ migrations' = Drop(migrations, {a})
     /\ listed' = Put(listed, a, migrations[a].sign_pk)
     /\ UNCHANGED <<phase, prospective, confirmed, attestations, images, backups, cleanups,
                    orphanCleanups>>

\* The promise of cleanup_orphaned_node_migrations: it goes through the
\* accounts that have a backup service.
CleanupOrphanedNodeMigrations ==
  LET gone == {a \in backups : ~ExistingOrProspective(a)}
  IN /\ orphanCleanups > 0 /\ orphanCleanups' = orphanCleanups - 1
     /\ backups' = backups \ gone
     /\ migrations' = Drop(migrations, gone)
     /\ UNCHANGED <<phase, listed, prospective, confirmed, attestations, images, cleanups>>

\* One node for each account.
Proposals ==
  {[a \in {c[1] : c \in s} |-> (CHOOSE c \in s : c[1] = a)[2]] :
     s \in {t \in SUBSET Candidates : \A c, d \in t : c[1] = d[1] => c = d}}

AttestationsNext ==
  \/ DayPasses
  \/ \E i \in Images : WhitelistImage(i)
  \/ ImageExpires
  \/ \E m \in Mocks : SubmitMock(m)
  \/ \E s \in Accepted : SubmitParticipantInfo(s)
  \/ \E p \in Proposals : VoteNewParameters(p)
  \/ VerifyTee
  \/ \E n \in Nodes : VoteReshared(n)
  \/ VoteCancelResharing
  \/ CleanTeeStatus
  \/ \E a \in Migrating : RegisterBackupService(a)
  \/ \E a \in Migrating, d \in Destinations : StartNodeMigration(a, d)
  \/ \E n \in Nodes : ConcludeNodeMigration(n)
  \/ CleanupOrphanedNodeMigrations

AttestationsSpec == AttestationsInit /\ [][AttestationsNext]_contractVars

-----------------------------------------------------------------------------
(***************************************************************************)
(* What is promised.                                                       *)
(***************************************************************************)

\* A stored dstack attestation is true: it was submitted by this node, for its
\* account, and names the image and the launcher that the node really runs.  Of
\* a mock nothing of the kind can be said: anybody may store one.
Truthful(n) ==
  LET v == attestations[n]
  IN v.kind = "dstack" => /\ v.account_id = Owner[n] /\ v.account_public_key = n
                          /\ v.mpc_image_hash = RunsImage[n]
                          /\ v.launcher_compose_hash = RunsLauncher[n]
                          /\ v.launcher_compose_hash \in AllowedLaunchers

\* Every participant, and everyone a resharing waits for, has a stored entry;
\* and if that is a dstack attestation of a node of its own, it can act through
\* that node.
CanAct(participants) ==
  \A a \in DOMAIN participants :
    LET n == participants[a] IN
    /\ n \in DOMAIN attestations
    /\ attestations[n].kind = "dstack" /\ Owner[n] = a => IsCallerAttested(participants, n)

\* What add_participant stores as a dstack attestation is true of the node
\* whatever evidence was submitted, and neither a cleanup promise nor a
\* migration nor a resharing leaves a participant, current or prospective,
\* without the stored attestation that its votes need (tee_state.rs, lib.rs):
\* otherwise the resharing could not be completed, and requests could not be
\* answered.  A mock that another account stores for a participant's TLS key
\* does stop it (AttestationOwnerMismatch), and so does a destination whose
\* TLS key is another account's.
AttestationsSound ==
  /\ \A n \in DOMAIN attestations : Truthful(n)
  /\ CanAct(listed) /\ CanAct(prospective)
=============================================================================
