# TLA+ models of the NEAR MPC network

The repository holds a threshold-signature service: a smart contract on NEAR
that keeps the participants, domains, keys and requests, and a network of nodes
that hold key shares and answer the requests the contract queues.  This
directory models the parts whose correctness depends on the order in which
things happen, and the cryptographic protocols as the message-passing programs
they are.

## 1. Inventory

| Component | Source (under `crates/` unless noted) | State | Operations | Hard behaviour |
|---|---|---|---|---|
| Protocol state machine | `contract/src/state*`, `contract/src/primitives` | Running / Initializing / Resharing, domain registry, keyset, parameters, votes, current key event | `vote_new_parameters`, `vote_add_domains`, `start_*_instance`, `vote_pk`, `vote_reshared`, `vote_abort_key_event_instance`, `vote_cancel_*`, `verify_tee` | votes that outlive the state they were cast in, attempts that time out, cancellation, late calls with old ids |
| Requests | `contract/src/lib.rs` (`sign`, `request_app_private_key`, `verify_foreign_transaction`, `respond*`, `return_*`) | three maps request -> yield id, `accept_requests` | queue, resume, time out | two submissions of one request, a response racing the 200-block timeout |
| Governance | `contract/src/tee/proposal.rs`, `update.rs`, foreign chain policy | code-hash, launcher, update and policy votes, allowed images with expiry | `vote_code_hash`, `vote_*_launcher_hash`, `propose_update`, `vote_update`, ... | participants leave while their votes stay, promises that clean up later |
| Attestations and node migration | `contract/src/tee/tee_state.rs`, `node_migrations.rs`, `attestation`, `mpc-attestation` | stored attestation of each node, backup services, destination nodes | `submit_participant_info`, `verify_tee`, `clean_tee_status`, `start_node_migration`, `conclude_node_migration` | an attestation lapses between being checked and being used; migration overlapping with resharing |
| Key events and key shares | `node/src/key_events.rs`, `node/src/keyshare*`, `coordinator.rs` | permanent and temporary key share storage, the job that runs | leader and follower tasks for key generation and resharing | a share must be stored before the vote; crash between the two; an adopted key must be found after a restart |
| Migration service, backup CLI | `node/src/migration_service`, `backup-cli` | expected backup service, connections, imported shares | get and put key shares, onboarding | the contract changes while a connection or a wait is under way |
| Request queue | `node/src/requests/queue.rs`, `recent_blocks_tracker.rs` | block tree, pending requests, attempts | index block, choose attempts, complete | forks, finality, leader fail-over, retries |
| Asset store and providers | `node/src/assets.rs`, `node/src/providers` | owned and unowned triples and presignatures, hot and cold queues | generate, take, discard | an asset must be used at most once, by participants that are all alive |
| Channels and connections | `node/src/network*`, `p2p.rs` | channels per task, persistent connections | open, send, receive, reconnect | messages before the channel is known, half-open connections, leader failure |
| Attestation tasks, transactions | `node/src/tee`, `node/src/indexer/tx_*`, `tee_launcher` | two submitting tasks, transactions under way, the image file | submit, observe, retry, allow-list watch | lost, late and overtaken transactions, crashes |
| Foreign chains | `foreign-chain-*`, `node/src/config/foreign_chains.rs`, `node/src/providers/verify_foreign_tx` | policy, configuration, inspections | vote, choose provider, two requests, sign | a chain that reorganises between two requests, faulty providers |
| Threshold protocols | `threshold-signatures` | each party's future and message buffer | DKG, resharing, triples, presign, sign, FROST, CKD, echo broadcast | reordering, equivocation, buffers of bounded size |
| Config, web, metrics, CLIs, devnet, SDK | rest | - | - | - |

How they interact: clients call the contract; nodes index the blocks of the
chain, so they see the contract state and the requests with a delay; they act
on it by transactions that may arrive late, twice or never; they talk to each
other over mutually authenticated connections, on which tasks open channels; the
protocols run inside these tasks and consume and produce assets.  The contract
is sequential: a call either happens as a whole or, when it fails, not at all.
Promises that a call spawns run in later blocks.

What makes the system correct: keys and domains never get out of step, a
public key never changes, what nodes use to find their shares (epoch, domain,
attempt) never means two things, only participants are counted, a key is
adopted only after every participant confirmed it and has stored its share, an
asset is used once, an answer belongs to its request, whoever is needed for the
next step is able to take it, and what the network is asked for eventually
happens when faults stop.

## 2. Modules and how they correspond to the code

| Module | Models | State | Used by |
|---|---|---|---|
| `KeyEvent` | `primitives/{participants,thresholds,domain,key_state}.rs`, `state/key_event.rs` | none: value types and operations on them | the next two, `ContractGovernance` |
| `ContractProtocol` | `state/{running,initializing,resharing}.rs`, the entry points in `lib.rs`, the attestation part of `tee/tee_state.rs` | the three Rust structs, laid out flat | `ContractHistory` |
| `ContractHistory` | nothing more: adds the epoch each stored vote named and the epochs that were cancelled, and the refinement mapping to `KeyService` | history variables | run `contract_protocol` |
| `KeyService` | what the request handlers rely on: keys by domain, phase, `accept_requests`, attested participants | abstract specification | implemented by `ContractHistory`, extended by `ContractRequests` |
| `ContractRequests` | the user calls, the `respond*` calls, the `return_*` callbacks | the pending maps and the yielded promises | run `requests` |
| `AllowLists` | `tee/proposal.rs` | none: operations on the lists | `ContractGovernance` |
| `ContractGovernance` | `update.rs`, `vote_foreign_chain_policy`, `vote_code_hash`, `vote_*_launcher_hash`, `verify_tee` | proposals, votes, lists, clock | run `governance` |
| `Attestations` | evidence and its verification; `tee_state.rs`, `node_migrations.rs` and their entry points | stored attestations, participants, migrations, clock | run `node_support` |
| `AttestationTasks` | the launcher, `remote_attestation.rs`, `allowed_image_hashes_watcher.rs`, `tx_sender.rs` | tasks, transactions under way, the entry on the contract | run `node_support` |
| `BackupService` | `migration_service/web`, `backup-cli` | servers, expected peer, tokens, connections, files | run `node_support` |
| `ForeignChains` | policy votes, provider choice, inspectors, `verify_foreign_tx` signing | configurations, chain, inspections, signatures | run `node_support` |
| `KeyshareStorage` | `node/src/keyshare.rs`, `keyshare/{temporary,permanent,local}.rs` | the files of one node's key shares, and how far a store has come | `NodeKeys` |
| `NodeKeys` | `key_events.rs`, the choice of jobs in `coordinator.rs`, `migration_service/onboarding.rs` | the contract as the node sees it, its job, computations, channels and transactions | runs `node_keys`, `onboarding` |
| `RecentBlocks` | `recent_blocks_tracker.rs` | none: the tracker is a record | `RequestQueue` |
| `RequestQueue` | `requests/queue.rs`, `mpc_client.rs` | tracker, queue, progress, tasks, network | run `request_queue` |
| `AssetStore` | `assets.rs` of one node, step by step | database, hot channel, cold queue, callers | run `asset_store` |
| `Assets` | `providers/{ecdsa,robust_ecdsa,eddsa,ckd,verify_foreign_tx}` over several nodes | stores, computations, ids, clock | run `assets` |
| `Connectivity` | `p2p.rs`, `network/conn.rs`, `network/handshake.rs` | one link in one direction, with the connections of both ends | run `connectivity` |
| `TaskChannels` | `network.rs`, `network/computation.rs` | channel maps, links, mailboxes | run `task_channels` |
| `Polynomials`, `Rounds` | `crypto/polynomials.rs`, `participants.rs`, what all protocols share | none | the protocol modules |
| `Keyshare`, `Ecdsa`, `Frost`, `Ckd`, `TripleGeneration`, `ObliviousTransfer` | the protocols of `threshold-signatures`, segment by segment | none: each segment is an operator | `ThresholdProtocols` |
| `ThresholdProtocols` | `protocol.rs`, `protocol/internal.rs`: futures polled over a bounded message buffer, one of whose owners may be faulty | futures, buffers | run `threshold` |
| `EchoBroadcast` | `protocol/echo_broadcast.rs` | each receiver's votes | run `threshold` |
| `MC...` | small instances for TLC | | |
| `...Proofs` | theorems, section 6 | | |

`AssetStore` and `Connectivity` are checked as they are; the other runs have an
MC module that defines the values of the constants.  `Assets` and `TaskChannels`
build on what the module below them shows: `TaskChannels` assumes of a link what
`PrefixDelivered` of `Connectivity` gives (in order, no gap within a version), and
`Assets` assumes of a computation what `LeaderSuccessIsGlobal` of `TaskChannels`
gives.  `ThresholdProtocols` treats an echo-broadcast of more than three participants
as one message: those who take a value take the same one, which is `Consistency` of
`EchoBroadcast`, and any receiver may blame a faulty owner instead, on which that
property says nothing.  With up to three participants the thresholds are (0, 0) and the
code assumes that nobody is malicious; each receiver then takes what it hears
first, and a faulty participant may tell each of them something else, about
another's value too (`Outgoing`).

Conventions:

* One call of the contract is one action.  NEAR executes a call as a whole and
  rolls it back when it fails or panics, so a failing call is not a step, and
  guards are the conjunction of all checks of the entry point and of the
  functions it calls.  What a call defers to a promise (`clean_tee_status`, the
  callbacks of a yield, the cleanup of update votes) is an action of its own,
  since the chain runs it in a later block, where it may fail.
* A caller chooses its arguments from what it saw in *some* earlier state.
  Key event ids, epochs, `next_domain_id` and update ids are therefore quantified
  over all values up to the bound, so late and repeated transactions are
  covered without modelling the link.
* Block heights are relative: `left` is `expires_on - block_height`.
* `ContractProtocol` keeps `RunningContractState`, `InitializingContractState` and
  `ResharingContractState` in one set of variables: `domains`, `keyset`, `parameters`
  also hold the `previous_running_state` of a resharing; `keyset.keys` holds
  `generated_keys` while Initializing.  `BecomeRunning` is `RunningContractState::new`.
* In `ContractProtocol` an attestation is `none`, `mock` (stored by `init` for the
  first participants, verifies for ever), `valid`, or `lapsed` (stored, but would
  no longer verify).  The contract checks at some places that one is stored and
  at others that it verifies, and so does the model.  `Attestations` has the
  evidence itself, for several nodes of an account; a hash is what it is the
  hash of.
* A signature is the pair of the key it verifies under and the payload it is
  about.  Answers of `respond_ckd` are arbitrary, since the contract does not
  verify them; the payload of `respond_verify_foreign_tx` is left to the caller,
  as in the code.
* Yields follow the NEAR runtime, which is external: resumed at most once, timed
  out if not, the callback run later in either case.
* In the node, a file operation that another one may follow is a step of its
  own (`create_new`, the write, the removal and the new hard link of `key`, each
  deletion), and a crash may fall between any two.  A file is the sequence of
  shares that can be read from it; one that was created and not written yields
  nothing.  A secret share is represented by the number of the protocol run
  ("instance") it comes from: shares of two runs do not fit together, even if
  both runs had the same key id.
* `NodeKeys` looks at one node.  Other participants appear as: an attempt or a run
  may fail at any time; a key is completed only when this node (if it is needed)
  has voted and has begun the run of that instance, which is what the
  cryptography gives.  The node sees contract states with arbitrary delay and
  may miss any of them; its transactions are delivered in any order, at most
  once each time they are sent, or never.
* A step of `AssetStore` ends where the code awaits or releases a lock; a database
  write and the queue operation next to it that no other task can separate are
  one step.
* A link of `TaskChannels` keeps order and loses a suffix when it breaks.  A
  protocol there is one round, which already has every order of a message
  against Start, Success, Abort, timeout and eviction.
* An id of an asset (`UniqueId`) is owner, timestamp and counter, chosen as
  `generate_id_in_range` does; the counter is 32 bits wide in the code and a
  natural number here, since 2^32 ids in one second are out of reach.  The clock
  does not go back and a restart takes a second or more: the code relies on it
  and says so in a TODO.
* In the protocol modules the field is the integers modulo a small prime and a
  group element is its logarithm, so that what a check compares is what the code
  compares.  Coins are sampled from the seed of a job.  A hash is the tuple of what
  is hashed, and so injective, except where the result is a scalar (`HashToScalar`,
  a weighted sum modulo the prime): that one has collisions.
* `served_by`, `resubmitted`, `enacted`, the `by` of a stored vote, `cast_for`,
  `abandoned`, `finalStream`, `adopted`, `sent` and `log` of `Connectivity` and the task an
  asset share carries are history: no guard that models the code reads them.  Of the
  history variables of `NodeKeys`, `ran` records the runs this node has begun, and only the
  guard for the other participants reads it; `migrant`, that the node entered by a
  migration, and `hasty` (section 5) are read by properties only.

## 3. Runs

| Run | Question | Bounds and why they suffice |
|---|---|---|
| `contract_protocol` | Do keys, domains, parameters, votes and epochs stay consistent while domains are added and keys are generated, reshared, timed out, disagreed upon and cancelled; does the contract implement `KeyService`? | 3 participants with threshold 2 (so threshold, all and a strict majority differ) and a candidate that joins under a participant id that was freed, who may lapse; a new contract with a batch of two domains and a following one of one, so that a cancelled batch leaves one key and a hole in the ids, or an existing contract with one or two domains and a gap; 2 epochs, 2 attempts, 2 keys; timeout after the block of the start |
| `requests` | Who gets which answer, and is every entry removed in the end? | one request of each kind, the one to sign for a domain that gets its key on the way; 3 submissions: the third can resubmit after either an answer or a timeout; 2 keys and 2 payloads so that a wrong one exists |
| `governance` | Do votes of former participants or for former proposals count; are the lists consistent for every order of votes and expiry? | 3 participants and a replacement; 2 updates, 2 policies; or 2 images, 2 launchers, deadline 1, clock up to 5: an image can be allowed, retired and voted in again |
| `node_keys` | Does a participant always have, and use, the shares the contract counts on? | 2 domains, 2 epochs above the first, 4 instances and one crash: enough for a key generation, a cancelled resharing, a key generation that makes its epoch id free again, and a resharing with ids used before.  A node that enters by a migration sees one epoch, 3 instances and second attempts; a participant sees first attempts only (a second attempt differs from a second instance only in the id) |
| `onboarding` | (violation) Has a node that concluded a migration the shares? | 1 epoch above the first, no crash, 4 instances |
| `request_queue` | Are final blocks one stream, and is a request attempted while it is useful and until it is answered? | 4 block trees (straight, a fork that is overtaken, a fork of two blocks of one height, two roots of which the later wins) of up to 7 blocks with 7 placements of requests and answers, with window 6; 2 requests, 2 participants, 2 attempts, 2 changes of the network |
| `asset_store` | Is an asset ever usable twice, hidden by a barrier, or discarded while usable? | 2 peers, 2 callers, 2 assets, 1 restart, 2 changes: both queues can hold an asset while the other caller or the discarder works on them |
| `connectivity` | Does a peer get a prefix of what was sent, and do the two ends find together again? | 2 connections at a time, 3 protocol versions, ids modulo 8, 2 faults (a cut, a restart of either side, with a handshake left over), 2 messages, heights up to 2 |
| `task_channels` | Is the leader's success everybody's, and does every task end? | 3 nodes; one task of all with a waiting leader, one of two without; room for one buffered channel; `MaxEvents` = 2 for tasks, interruptions and timeouts together: two tasks and no fault, or one task with one interruption or timeout |
| `assets` | Is an asset used once, and do its participants hold it? | 3 nodes, threshold 2, one owner, buffers of 1, batches of 2, 4 computations, 2 requests, 2 faults (crash, failing computation); four mixes of tasks |
| `threshold` | Is what each protocol returns what it claims; is an honest run ever rejected or stuck; can a broadcast split? | field of 31 elements; 2 to 4 participants, thresholds 2 and 3, three seeds; one altered payload anywhere, to one receiver or several, in a broadcast of four with or without blame; 2 base transfers; a broadcast among 3 honest or 4 of which one is faulty and sends anything, where an alarm in another session may end others |
| `node_support` | Attestations, attestation tasks, backups, foreign transactions (four parts without common state, one in each behaviour) | 3 accounts, 5 nodes of which one runs an image and one a launcher that is not allowed, two mocks, one that expires and one that an account stores for another's TLS key, one migration, to a node of the account or to a TLS key of another's, one cleanup; 2 images, entries that live 2 ticks, 2 transactions under way, one crash; 2 keys of the backup service, 2 keysets of up to 2 domains; 2 signers, 2 providers one of which is faulty, a chain of depth 2 that reorganises once |

Bounds that stop a model (`Max...`) are conjuncts of guards.  A run says
`CHECK_DEADLOCK FALSE` where the bounds, a crash of the last process or the end of
all tasks stop the model; `contract_protocol`, `requests` and `governance` can always
go on.

What the passing runs show, by component:

* *Protocol.*  `KeysInStep`, `ParametersSound`, `EpochsSound`, `KeyHistoryStable`,
  `NewKeysUnanimous`, `ImplementsKeyService`.  The part most useful to a reader of the
  code is `ParticipantsAttested`: a resharing needs the vote of every participant,
  a vote needs a stored attestation, and the cleanup promise of the previous
  resharing may run at any later time.  It holds because the promise fails unless
  the contract is Running and because proposals are only accepted from attested
  prospective participants.  An epoch that was cancelled is not used again
  until a key generation begins; then it may be (section 5).
* *Requests.*  `PendingSound`: an entry leads to the youngest caller, and a caller
  loses its entry only if the same request was submitted again (the contract's
  README warns of that); `AnswersAreOwn`; `PendingCleared`: the callback of a timeout
  removes what no answer removed.
* *Governance.*  `VotesBacked`: update and policy votes are counted among current
  participants, whatever is stored; `AllowListsSound`: the newest image never expires
  and every launcher has a compose hash for every image; `ExpiredImagesStayOut`.
* *Attestations, migration.*  `AttestationsSound`: what is stored as a dstack attestation
  is true of the node, and neither cleanup, migration nor resharing leaves a participant
  without a stored entry; with a dstack entry of its own node it can vote.  Mocks are
  outside the claim: any account may store one for any TLS key (section 5).  `AttestationKept`: the two tasks bring a good entry
  back again and again.  `BackupsSound`: an open connection belongs to the
  backup service that its server expects, or its token is cancelled and it is
  dropped, perhaps after one more request; and what a new node stores is one whole
  keyset that the contract has used.
* *Key shares.*  `SharesSafe`: the share of exactly the certified run is in a file
  the node reads whenever the contract counts on the node.  The node writes it
  before it votes, and deletes temporary files of older epochs only after the
  permanent file is in place.  For a node that came by a migration only the weaker
  `NoShareLost` holds: if a later store stops between removing `key` and linking it
  again, nothing in the code reads the numbered file.  `ServesSound` contains
  `RunOnce`, which makes a key id name one secret: the marker file is created
  before the run and outlives a crash; markers are deleted only when a later epoch
  is in permanent storage, and then the start of an older id is refused.
* *Requests in the node.*  `BlocksSound`, `RequestsSound`, `NoFutileAttempt` (none for a
  request that a final block answers or whose own block finality has passed by), and
  `ServedByLeader`: if from some moment on this node leads a request, it is answered
  or given up.
* *Assets.*  `StoreSound`, `NoUsableDiscarded`, `TakeReturns` for one store; `StoresSound`,
  `UsedSafely`, `BufferRefilled` across nodes.
* *Network.*  `DeliverySound`; `ListenerSteps` and `Reconnects`, each with the exception
  of a connection left over from before the dialer's restart (section 5);
  `ChannelsSound`, `CompletesWithoutFaults`.
* *Protocols.*  `KeyshareSound`: agreement, and nobody returns a key share before
  everybody has one that passed its checks.  All or nothing in the strict sense it is
  not: in the last broadcast, of success, a faulty participant can make some return
  and others fail; the contract adopts a key only with everybody's vote.
  `OutputsSound`, `NoFalseAlarm`, `ProtocolsEnd` (no honest run waits for ever, buffers
  suffice; for triples and the multiplication the latter says little, as their
  private channels are merged into few waitpoints), `BroadcastSound`.  `Delivered`: the value
  of an honest owner arrives at all who are left, as long as those who are faulty or
  left are not more than the thresholds allow.
* *Foreign chains.*  `ForeignTxSound`: what is signed was on the chain, and still is if
  finality was asked for.

Every property has a mutant, a plausible slip in one definition (a dropped
guard, a forgotten cleanup, a count over the wrong set), that the run refutes.
The mutated operators stand next to the definition they replace.

## 4. Fairness

Nothing is assumed of users, other accounts or faults.  Assumed is:

* `ContractRequests`: weak fairness of timeout and callback of each yield.  The NEAR
  runtime guarantees both: a yield that is not resumed times out after 200
  blocks, and its callback is a receipt that will be executed.
* `AssetStore`, `Assets`, `TaskChannels`, `RequestQueue`, `Connectivity`: weak fairness of
  the steps of running tasks (the async runtime polls a task that is ready), of
  timers, of delivery on a connection that is not cut, and of the restart of a
  node that is down.  Crashes, cuts, timeouts that may but need not fire and
  new requests are not fair.
* `AttestationTasks`: weak fairness of the clock, of sending and of observing; strong
  fairness of the execution of a transaction, that is, the chain does not lose
  every one of them.

## 5. Findings and remarks

**A cancelled wait for key shares may still conclude the migration** (run
`onboarding`).  `wait_for_and_import_keyshares` returns `Ok(())` when it is
cancelled too, and the unbiased select after it may poll
`retry_conclude_onboarding` before it looks at the cancelled token
(`migration_service/onboarding.rs`).  If the contract, after a cancelled key
generation or resharing, is Running with the same keyset again, it accepts the
transaction and from then on counts on a node without shares.  `SharesSafe` holds
apart from such a conclusion, which the model records in `hasty`.

Behaviour of the code that the models reproduce and that a reader of comments
and documents would not expect; the properties are stated so that they hold
with it:

* *Epochs.*  `RunningContractState::new` forgets the cancelled epoch, and the end of
  a key generation goes through it (`state/running.rs`); the epoch id is then used
  again with attempts from 0, although the comment says that it cannot be reused.
  A node that has seen the ids refuses them, so the first attempts fail.
* *Votes.*  Votes to remove a launcher are compared in number with the current
  participants, those of former participants included; votes for an image are
  keyed by participant id, so an account that left and joined again may have two.
  The doc of `vote_new_parameters` says a threshold of votes suffices, whereas all
  prospective participants are needed; the contract README says the prospective
  epoch "must be 1 plus current", which is not so after a cancelled resharing.
* *Attestations.*  `submit_participant_info` takes a mock attestation
  of any account for any TLS key, which then replaces the entry of a participant's
  node, and that participant cannot act until it submits again
  (`AttestationOwnerMismatch`; the tests of `tee_state.rs` show it).  The evidence of a
  mock is what a test network uses.  `reverify_participants` compares TLS keys only, so
  `conclude_node_migration` accepts a destination whose key another account
  attested.  `reverify_and_cleanup_participants` does not remove what its doc says
  it removes.  Migrations are found for cleanup by the registered backup services
  only.  A Dstack attestation is still valid at its expiry, a mock one is not.  The
  hourly task ends for good after 12 hours of failures or two failed fetches of
  collateral; the monitor can miss a second removal during a resubmission.
* *Key shares.*  The local backend creates the numbered file with `create_new`
  before it replaces `key`.  If the job is dropped between the two, later
  promotions of the same keyset fail with "file exists"; no share is lost, but the
  node neither serves nor reshares until there is another keyset
  (`PromotionSucceeds` names this case).
* *Backups.*  A connection that was accepted before the backup service changed may
  have one more request handled after its token is cancelled (unbiased select in
  `handle_stream`).
* *Transactions.*  `ensure_send_transaction` promises retries in its comment that it
  does not make; `observe_tx_result` of a response takes a pending entry as
  executed; `conclude_node_migration` is sent once per onboarding attempt; the
  response signers and the owner hold the same key but count nonces apart;
  `make_nonce` returns the new nonce, its doc says the previous one.
* *Indexer.*  Blocks are handled with `buffer_unordered`, so updates may be
  delivered out of order between siblings; the model delivers a parent first.
* *Key events.*  A node that is not yet a participant may still run the job of a resharing
  while the contract, unseen, cancels it, adds a domain and reshares again: the new
  resharing has the same epoch id, because the state after a key generation does not
  remember a cancelled resharing (`previously_cancelled`), so the job goes on.
  A follower that is asked for the new domain creates its marker and then finds that its
  `previous_keyset` has no key for it, so it fails and that attempt is spent for this
  node (`HasPreviousKey` in `StartTask`).  The attempt to prove `ServesSound` led here; the
  share a follower would have had without that check is of no key.
* *Assets.*  An error in robust ECDSA presigning ends its background loop, which
  the comment calls continuous (`BufferRefilled` names this case).  Shares of an
  asset whose owner lost it stay with the followers until the epoch changes.
* *Network.*  A channel evicted from the buffer may still be started later.  After
  a restart of the dialer its connection ids start from zero again.  A handshake left over
  from before, with a greater id, then looks newer than the live connection, takes
  its place (`set_incoming_connection`) and ends; the listener counts as not
  connected, while the dialer, whose connection is open, waits for it to close and
  does not dial again.  `Reconnects` names this state (`Overtaken`), which lasts until the live
  connection is cut or either side starts anew, and `ListenerSteps` excepts the replacement
  by such a leftover.
* *Foreign chains.*  Provider names order the choice of a provider while the
  policy compares URLs only, and duplicates are looked for before URLs are trimmed;
  `ForeignTxSound` therefore asks for alike names.  The finalized block is fetched
  before the receipt, which is the order that is sound.  The policy is voted on
  once per running job.  A leader whose own query fails sends no Abort.
* *Protocols.*  A polynomial whose leading coefficient is drawn as zero is
  rejected by the others (probability 1/q): `NoFalseAlarm` excepts it.  In a
  broadcast a faulty owner may make one honest participant blame it while another
  takes its value or still waits.  Who blames the owner of one session returns from all
  sessions of the broadcast (`echo_broadcast.rs`), the honest ones included: with four
  participants, one of them faulty, the other two then cannot reach the
  thresholds in an honest owner's session and wait until the time of the computation
  is up.  `Delivered` counts such a participant as lost.  With up to three participants
  an altered vote of success sent to one of the others makes that one fail while the
  rest return (`AllOrNothing` says how far that goes).

## 6. Proofs

Checked by TLAPS for all values of the constants that satisfy the named
assumptions (`...Assumption`, which TLC evaluates on every run): finite sets of
accounts or nodes, valid initial parameters, an initial state that `init_running`
accepts, well-typed inputs, natural bounds.  Each module has one lemma per action
and conjunct that the action can disturb; steps of the same shape share a lemma.

`ContractProtocolProofs` (of `ContractProtocol` and `ContractHistory`)

* `KeysInStepAlways`, with `KeysFollowDomainsAlways` and `EpochAheadAlways`.
  `TypeOK` and `KeysFollowDomains` are inductive only together (`TypeInv`): that
  `keyset.keys[n + 1]` exists when the n-th key has been reshared is part of the type
  correctness of `vote_reshared`, and it follows from keys and domains being equally
  many outside Initializing.  `EpochAhead` is inductive relative to it (`EpochInv`).
* `KeyHistoryStableAlways`, with `KeysStableAlways` and `DomainIdsNotReusedAlways`:
  `StepShapes` reduces each step to a few shapes of change of `domains` and `keyset`.
* `ParametersSoundAlways`.  `ParametersInv` adds `CancelVotesCleared`, that a
  new resharing starts without votes to cancel; without it the votes of the
  participants of an earlier one could be left over.
* `EpochsSoundAlways`.  `HistoryInv` adds that abandoned epochs lie at or below the one
  remembered (`AbandonedPast`).
* `NewKeysUnanimousAlways`, about the keys in the keyset and in the list of reshared
  ones, each with its epoch (`NamedKeys`).  `UnanimousInv` adds that an instance without a
  key has no votes (`NoKeyNoVotes`): so the votes an attempt has counted are for its key;
  the end of a resharing moves the list into the keyset under the same epoch.
* `ImplementsKeyServiceAlways`: under the mapping of `ContractHistory` the initial
  states of the contract are initial states of `KeyService`, and each step is a step
  of it or a stutter, from `EpochInv` and `ParametersInv`.

`ContractRequestsProofs`

* `PendingSoundAlways`, `PendingIsYoungestAlways`, `AnswerableUnlessResubmittedAlways`,
  `AnswersAreOwnAlways`, from `ReqInv`.  It adds to the three and to the types: two
  unanswered yields of a request are both marked as resubmitted (`Twins`:
  otherwise the callback of the older one would take the entry of the younger),
  and the key recorded at submission is still the key of the domain
  (`ServedBySame`: it rests on `KeyService`, where a key is only added for a domain
  without one).

`ContractGovernanceProofs`

* `AllowListsSoundAlways`, `ExpiredImagesStayOutAlways`, from `ListInv`: the list is sorted
  by age, not empty, has nothing from the future, and compose hashes are complete.
  Sortedness is what makes the newest image survive the cleanup.  Least elements
  come from the well-foundedness of the naturals.
* `VotesBackedAlways`, from `VotesInv`.

`SupportProofs` (of `EchoBroadcast`, `Attestations`, `BackupService`, `ForeignChains` and
`RequestQueue`)

* `BroadcastSoundAlways` for any number of participants of which fewer than a third
  are faulty.  `EchoInv` says that every Ready of an honest participant is backed by
  an echo quorum (`ReadyBacked`); two echo quorums meet in an honest participant,
  proved by cardinalities.
* `DeliveredAlways`, under the same assumption, with participants that leave at any moment
  because of an alarm in another session.  `Prompt` says that a participant acts on
  a quorum at once (a box that has one is never left standing) and counts what it sends
  as a vote of its own; `TakenBacked`, that a value that was taken has a ready quorum
  behind it.  When nothing is outstanding, the part of that quorum that is not lost makes
  everybody else who is not lost amplify, then all of these are ready, and they are a
  quorum by themselves because no more are lost than the threshold; with an honest owner
  the same argument starts from the echoes.
* `AttestationsSoundAlways` for any evidence, and mocks by any account for any TLS key,
  under `EvidenceAssumption`: the platform
  signs only what it measured, so a signed quote with the registers of a known image
  carries the keys and the register of one of the nodes.  The unsigned event log
  and compose file are arbitrary.  `EvidenceIsTrue` is the heart of it: an event that
  the log names has a digest that the register holds, and the digest fixes its name
  and payload; so image and launcher are those of the node that the report
  names.  `AttestedInv` adds to it that every participant, listed or prospective, has a
  stored entry, and that there are no prospective ones while Running.
* `BackupsSoundAlways`, from `BackupInv`: a connection has the peer info that goes with
  its token or a token that is cancelled, cancelled tokens are not newer than the
  latest (`PeersInv`); the keyset of a Running contract, and whatever is stored
  under its name, is adopted (`KeysetsInv`).
* `ForeignTxSoundAlways`, from `ForeignInv`: an inspection at an honest provider has seen
  a place of the transaction that, if finality was asked for, is final, and what is
  final stays (`InspectionsOK`, `WorldOK`).  `OneHonest` is the pigeonhole argument: signers
  with the same list ask different providers, and fewer of these are faulty.
* `BlocksSoundAlways`, `RequestsSoundAlways`, `NoFutileAttemptAlways` for every tree of
  blocks (`IsBlockTree`, a conjunct of `QueueAssumption` that TLC evaluates on the trees of
  the run): heights rise from parent to child, a request is in one block and answered
  in a descendant of it, and the blocks that others name as final are one chain
  without gaps.  That last part is what NEAR's finality guarantees, and `add_block` relies on
  it.  Blocks may come in any order that delivers a parent first, forks may be
  overtaken any number of times, and the chain may begin anywhere.

  `QueueInv` describes the tracker outright (`Tracks`): up to pruning it is a function of the
  delivered blocks and the two heads (`TrackerOf`), the flag `canonical` is on the
  ancestry of the canonical head and `is_final` on the final blocks up to the final head,
  and nothing at or above the lowest height to keep is missing (`Keeps`).  `AddBlockForm`
  shows that `add_block` leads from such a tracker to such a tracker: the walk of
  `maybe_update_final_head` ends exactly at the old final head because the final head is
  never pruned (`NewlyFinalForm`), and marking and unmarking up to the common ancestor is the
  same as marking the new chain (`Reorganised`, `CanonicalForm`).  The stream is all final
  blocks up to the final head in ascending order (`StreamInv`).  A block is discarded
  exactly if it is too old or was passed by finality (`ClassForm`), which it stays
  (`GoneStays`): so the requests that are not queued cannot become answerable again
  (`KeptInv`).  An ancestry is the least set that contains parents, and least and greatest
  heights come from well-foundedness, so no induction along blocks is needed.

`AssetStoreProofs`

* `StoreSoundAlways`, `NoUsableDiscardedAlways`, from `StoreInv`: both queues are without
  repetition and apart from each other and from what callers hold (`Apart`), the two
  barriers of the cold queue delimit what the condition value was tested on
  (`QueueOK`), and memory is empty while the node is down.

`AssetsProofs`

* `StoresSoundAlways`, `UsedSafelyAlways`, from `Inv`.  An id of the current second is
  below what a running leader remembers (`IdInv`), and a restart moves the clock on,
  so ids are fresh; a share was made by a task that its holder finished
  (`ShareInv`), a leader of a generation finishes last (`LeaderLast`), so an owned
  asset is backed by its participants (`OwnedBacked`); an input of a computation was
  made by a finished computation of the same leader with the same participants
  and is gone from every store that contributed (`InputInv`), so two computations
  never share one (`InputsDiffer`).

`TaskChannelsProofs`

* `ChannelsSoundAlways`, from `ChannelsInv`: besides the channel maps, the messages on
  links and in mailboxes are accounted for.  A Success message comes from a
  follower that succeeded, there is at most one Start per channel, and only
  to a participant that has not begun.

`NodeProofs` (of `Connectivity` and `NodeKeys`)

* `DeliverySoundAlways`, from `DeliveryInv`: the messages in a pipe are the ones sent
  under the version of its connection, in order (`StreamsOK`), and continue what
  the listener has logged (`LogOK`).
* `ListenerStepsAlways`: under `Spec /\ []NoWrap`, that is, while the ids have not
  wrapped: the code compares wrapping 32-bit ids.  Restarts at any moment are
  included; `IdInv` orders the ids of one mesh, and a connection left over from an
  earlier mesh is the exception the property names.
* `ServesSoundAlways`, `PromotionSucceedsAlways`, `SharesSafeAlways` for any number of
  domains, attempts, epochs, instances and crashes, with a migration or without.

  `KeysInvariant` ties the contract, the state the node last saw (`view`), its job and
  its files together.  What the node saw was the contract's state earlier: its keyset
  is the beginning of the contract's, domain by domain with the same public keys
  (`Grown`, `Lags`), however many states the monitor skipped.  A key event id has one run
  (`OneRun`), because a run leaves a marker that stays until the node has seen its epoch
  pass (`RunsMarked`).  So a share that the node wrote in a run of its own has the
  public key under which the contract can come to certify its id (`OwnShare`,
  `Certifiable`), whenever the vote for it arrives.  What is in permanent storage, or on its
  way there, is the beginning of the keyset of the job and of the view (`StoredOf`),
  which is why the store never refuses what a job promotes; and it is certified while
  the contract counts on the node (`Certified`).  `ServesSound` follows.

  `HeldInvariant` is about not losing anything.  A key completes only with the vote of
  this node, and the vote, counted or still under way, has a committed temporary
  file behind it (`VoteHolds`, `TxHolds`).  A store deletes temporary files of earlier
  epochs than its own, which is never ahead of the contract's keyset, and writes to a
  numbered file that is new or empty (`WriteKept`).  While a migration is under way the node
  has no run of its own, so what it loads is in permanent storage and each share has its
  numbered copy (`CopyInv`).  `CountedInv` is the conclusion, in the form that a step
  preserves.  `BoundInv` and `FilesInv` add the bounds of the model, for `KeysTypeOK`.

Only model-checked, and why:

* Liveness is out of the prover's reach: `PendingCleared`, `TakeReturns`, `Reconnects`,
  `CompletesWithoutFaults`, `BufferRefilled`, `ServedByLeader`, `AttestationKept`.
* `KeyshareSound`, `OutputsSound`, `NoFalseAlarm` rest on interpolation in a field, i.e. on
  induction over sums.
* `ProtocolsEnd` needs no arithmetic but a schedule argument of its own for each of the
  twelve protocols (which rounds a participant has sent when another one waits); no proof
  of it has been written.

## 7. Not modelled

* Contents of participant info, gas, deposits, storage costs, the bounded sizes
  of inputs, views.
* Upgrading the contract state (`migrate`) and its config.  A longer
  `tee_upgrade_deadline_duration` set by a config update makes images valid again
  that expired under the shorter one but were not yet cleaned up; the models keep
  the duration constant.
* The overflow of a 64-bit timestamp at the end of an image's grace period
  (`AllowLists.Enforced`): the code takes the image as enforced.
* The owner and key of an attestation in `ContractProtocol`, where an entry is that of an
  account; `Attestations` has them, by TLS key.
* The Running job that a node keeps up beside a resharing (`coordinator.rs`); it loads
  the keyset the resharing loads, under the same lock.
* A database without `EpochData`, where all assets are kept, and the legacy format of it,
  where only the epoch is compared (`assets/cleanup.rs`).  A database without it is a new
  one; an update from the legacy format is made once.
* In `AssetStore.DiscardHot` the receipt of an element and the lock on the cold queue are one
  step; in `ForeignChains.MaybeVoteForeignChainPolicy` the two reads and the transaction are.
* `BackupService` has one connection per server at a time; the exit of the server when
  the sender of the migration info is dropped is left out, and an import compares with
  the contract's keyset of the moment, not with that of the onboarding job.
* The loop in which a leader of a key event starts attempts (it is reduced to the
  channel it opens), the GCP backend of the permanent storage (a single put,
  without intermediate states), the conversion of legacy key share files, and
  file systems that reorder writes.
* Nonces, the start of the indexer and its synchronisation; TLS, sockets and
  serialization; curves and encodings; quotes and certificates, which are opaque.
* Web pages, metrics, configuration files, CLIs other than the backup CLI, devnet,
  SDK, test contracts: I/O and type definitions without protocol state.

## 8. Plan

Done: all components of the inventory that have protocol state; every safety
property of the contract's protocol, requests, governance and attestations, of the
asset store, the assets, the channels, the connections, the request queue, the key
events and key share storage, the reliable broadcast, backups and foreign transactions
is proved.  What stays with TLC is named at the end of section 6.  Next:

1. A second node with its own files in `NodeKeys`, so that the condition on the other
   participants (`MayComplete`) is derived and not a guard.
