------------------------------ MODULE NodeKeys ------------------------------
(***************************************************************************)
(* One node and its key shares: the jobs its coordinator runs, the key     *)
(* generation and resharing computations, onboarding from a backup, and    *)
(* crashes.  The contract is what the node sees of it (ContractProtocol    *)
(* models it in full): an attempt may fail at any time, and a key is       *)
(* accepted only when every participant of the attempt has voted.          *)
(*                                                                         *)
(* An instance is one start of an attempt; its number stands for the run   *)
(* of the cryptographic protocol.  The other participants can finish a run *)
(* only if this node has begun it.                                         *)
(***************************************************************************)
EXTENDS KeyshareStorage

CONSTANTS
  MaxEpoch,       \* bound: no resharing to a later epoch
  MaxDomains,     \* bound: domains that are ever added
  MaxAttempt,     \* bound: the last attempt of a key event
  MaxInstances,   \* bound: attempts that are started in all
  MaxCrashes,     \* bound: crashes of the node
  Migrates        \* whether the node may start as the target of a migration

ASSUME NodeAssumption ==
  /\ MaxEpoch \in Nat /\ MaxDomains \in Nat /\ MaxAttempt \in Nat
  /\ MaxInstances \in Nat /\ MaxCrashes \in Nat
  /\ Migrates \in BOOLEAN

VARIABLES
  contract,               \* the contract state as monitor_contract_state reads it
  voted,                  \* whether the contract has this node's vote for the instance
  next_domain_id,
  previously_cancelled,   \* epoch of the resharing that was cancelled last
  instance,               \* instances started so far
  opened,                 \* whether the leader has opened a channel for the last one
  view,                   \* the contract state the node has seen last
  onboarded,              \* whether onboard() has returned
  job,                    \* the job of the coordinator, or the onboarding
  channels,               \* channels of key events not yet received by the node
  tasks,                  \* computations in progress
  txs,                    \* transactions on their way
  ran,                    \* <<key id, instance>> this node has begun, as the others know it
  hasty,                  \* whether a cancelled onboarding concluded without the shares
  migrant,                \* whether the node began as the target of a migration
  crashes

chainVars == <<contract, voted, next_domain_id, previously_cancelled, instance, opened>>
nodeVars == <<view, onboarded, job, tasks>>
keysVars == <<chainVars, nodeVars, channels, txs, ran, hasty, migrant, crashes, storageVars>>

NoJob == [kind |-> "None", epoch_id |-> NoEpoch, keyset |-> [epoch_id |-> NoEpoch, keys |-> <<>>],
          status |-> "new", member |-> FALSE]

KeysInit ==
  /\ StorageInit
  /\ \E migrating \in {FALSE, Migrates} :
       contract = [phase |-> "Running", keyset |-> [epoch_id |-> 0, keys |-> <<>>],
                   completed |-> <<>>, id |-> KeyEventId(NoEpoch, 0, 0), started |-> FALSE,
                   member |-> ~migrating, joins |-> FALSE, migrating |-> migrating]
  /\ voted = FALSE
  /\ next_domain_id = 0
  /\ previously_cancelled = NoEpoch
  /\ instance = 0
  /\ opened = FALSE
  /\ view = contract
  /\ onboarded = FALSE
  /\ job = NoJob
  /\ channels = {}
  /\ tasks = {}
  /\ txs = {}
  /\ ran = {}
  /\ hasty = FALSE
  /\ migrant = contract.migrating
  /\ crashes = 0

(***************************************************************************)
(* The contract.                                                           *)
(***************************************************************************)

\* This node is one of those whose vote the key event needs.
Needed(state) == IF state.phase = "Resharing" THEN state.joins ELSE state.member

BecomeRunning(keyset, member) ==
  /\ contract' = [contract EXCEPT !.phase = "Running", !.keyset = keyset, !.completed = <<>>,
                    !.id = KeyEventId(NoEpoch, 0, 0), !.started = FALSE,
                    !.member = member, !.joins = FALSE]
  /\ voted' = FALSE

\* vote_add_domains with the last vote: one new domain.
AddDomain ==
  /\ contract.phase = "Running"
  /\ next_domain_id < MaxDomains
  /\ contract' = [contract EXCEPT !.phase = "Initializing", !.completed = contract.keyset.keys,
                    !.id = KeyEventId(contract.keyset.epoch_id, next_domain_id, 0)]
  /\ next_domain_id' = next_domain_id + 1
  /\ previously_cancelled' = NoEpoch
  /\ UNCHANGED <<voted, instance, opened>>

\* vote_new_parameters with the last vote, while Running or Resharing.
BeginResharing(joins) ==
  LET epoch == 1 + IF contract.phase = "Resharing" THEN contract.id.epoch_id
                   ELSE IF previously_cancelled # NoEpoch THEN previously_cancelled
                   ELSE contract.keyset.epoch_id IN
  /\ contract.phase \in {"Running", "Resharing"}
  /\ contract.keyset.keys # <<>>
  /\ epoch <= MaxEpoch
  /\ contract.migrating => ~joins
  /\ contract' = [contract EXCEPT !.phase = "Resharing", !.completed = <<>>, !.joins = joins,
                    !.id = KeyEventId(epoch, contract.keyset.keys[1].domain_id, 0), !.started = FALSE]
  /\ voted' = FALSE
  /\ previously_cancelled' = NoEpoch
  /\ UNCHANGED <<next_domain_id, instance, opened>>

\* start_keygen_instance or start_reshare_instance, sent by the leader.
StartInstance ==
  /\ contract.phase # "Running"
  /\ ~contract.started
  /\ instance < MaxInstances
  /\ instance' = instance + 1
  /\ contract' = [contract EXCEPT !.started = TRUE]
  /\ voted' = FALSE
  /\ opened' = FALSE
  /\ UNCHANGED <<next_domain_id, previously_cancelled>>

\* The leader, which may be this node or another one, waits for the attempt it
\* has asked for to become active and opens a channel for it; it may be too
\* late for that, and asks for the next attempt when this one is gone.
OpenChannel ==
  /\ contract.started
  /\ ~opened
  /\ opened' = TRUE
  /\ channels' = channels \union
       {[kind |-> contract.phase, id |-> contract.id, instance |-> instance]}
  /\ UNCHANGED <<contract, voted, next_domain_id, previously_cancelled, instance>>

KeygenLeader == contract.phase = "Initializing" /\ OpenChannel
ResharingLeader == contract.phase = "Resharing" /\ OpenChannel

\* The attempt expires, or somebody votes to abort it.
FailInstance ==
  /\ contract.started
  /\ contract.id.attempt_id < MaxAttempt
  /\ contract' = [contract EXCEPT !.started = FALSE, !.id.attempt_id = @ + 1]
  /\ voted' = FALSE
  /\ UNCHANGED <<next_domain_id, previously_cancelled, instance, opened>>

\* Mutant of MayComplete: a threshold of votes is enough.
MayCompleteWithoutNode == contract.started

\* Everybody has voted.  The others can have finished only a run that this
\* node has begun, if it is one of them.
MayComplete ==
  contract.started /\ (Needed(contract) => voted /\ <<contract.id, instance>> \in ran)

\* The last vote_pk or vote_reshared of the attempt.
CompleteKey ==
  LET i == Len(contract.completed) + 1
      keys == contract.keyset.keys
      generating == contract.phase = "Initializing"
      new == [domain_id |-> contract.id.domain_id, attempt |-> contract.id.attempt_id,
              key |-> IF generating THEN instance ELSE keys[i].key, instance |-> instance]
      completed == Append(contract.completed, new) IN
  /\ MayComplete
  /\ IF generating \/ Len(completed) = Len(keys)
     THEN /\ BecomeRunning([epoch_id |-> contract.id.epoch_id, keys |-> completed],
                           Needed(contract))
          /\ previously_cancelled' = NoEpoch
     ELSE /\ contract' = [contract EXCEPT !.completed = completed, !.started = FALSE,
               !.id = KeyEventId(contract.id.epoch_id, keys[i + 1].domain_id, 0)]
          /\ voted' = FALSE
          /\ UNCHANGED previously_cancelled
  /\ UNCHANGED <<next_domain_id, instance, opened>>

\* vote_cancel_keygen or vote_cancel_resharing with the last vote.
CancelKeyEvent ==
  /\ contract.phase # "Running"
  /\ BecomeRunning(contract.keyset, contract.member)
  /\ previously_cancelled' =
       IF contract.phase = "Resharing" THEN contract.id.epoch_id ELSE previously_cancelled
  /\ UNCHANGED <<next_domain_id, instance, opened>>

\* vote_pk or vote_reshared of this node.
ReceiveVote(tx) ==
  /\ tx.kind = "vote"
  /\ voted' = (voted \/ (contract.started /\ Needed(contract) /\ tx.id = contract.id))
  /\ UNCHANGED <<contract, next_domain_id, previously_cancelled, instance, opened>>

\* conclude_node_migration.
ReceiveConclude(tx) ==
  /\ tx.kind = "conclude"
  /\ contract' = IF contract.phase = "Running" /\ contract.migrating /\ tx.keyset = contract.keyset
                 THEN [contract EXCEPT !.migrating = FALSE, !.member = TRUE]
                 ELSE contract
  /\ UNCHANGED <<voted, next_domain_id, previously_cancelled, instance, opened>>

Chain ==
  \/ /\ \/ AddDomain
        \/ \E joins \in BOOLEAN : BeginResharing(joins)
        \/ FailInstance
        \/ CompleteKey
        \/ CancelKeyEvent
     /\ UNCHANGED <<channels, txs>>
  \/ StartInstance /\ UNCHANGED <<channels, txs>>
  \/ (KeygenLeader \/ ResharingLeader) /\ UNCHANGED txs
  \/ /\ \E tx \in txs : /\ ReceiveVote(tx) \/ ReceiveConclude(tx)
                        /\ txs' = txs \ {tx}
     /\ UNCHANGED channels

ChainStep == Chain /\ UNCHANGED <<nodeVars, ran, hasty, crashes, storageVars>>

(***************************************************************************)
(* The coordinator: which job runs for which contract state.               *)
(***************************************************************************)

\* Run by the node rather than its coordinator: onboard().
OnboardingKeyset(state) ==
  IF state.phase = "Running" /\ state.migrating THEN {state.keyset} ELSE {}

\* OnboardingJob::Done.
OnboardingDone ==
  /\ ~onboarded
  /\ job.kind = "None"
  /\ Needed(view)
  /\ onboarded' = TRUE
  /\ UNCHANGED <<view, job, tasks, ran, storageVars>>

StartOnboarding ==
  /\ ~onboarded
  /\ job.kind = "None"
  /\ ~Needed(view)
  /\ \E keyset \in OnboardingKeyset(view) :
       job' = [NoJob EXCEPT !.kind = "Onboarding", !.keyset = keyset]
  /\ UNCHANGED <<view, onboarded, tasks, ran, storageVars>>

ConcludeTx == [kind |-> "conclude", keyset |-> job.keyset]

\* The onboarding is cancelled; an import that has begun to store is not.  The
\* wait for the backup returns Ok, and then the transaction and the
\* cancellation are both ready: either may be polled first.
CancelOnboarding ==
  /\ job.kind = "Onboarding"
  /\ storing.pc = "idle"
  /\ Needed(view) \/ job.keyset \notin OnboardingKeyset(view)
  /\ job' = NoJob
  /\ \/ UNCHANGED <<txs, hasty>>
     \/ /\ job.status # "concluded"
        /\ txs' = txs \union {ConcludeTx}
        /\ hasty' = (hasty \/ ~CanLoadKeyset(job.keyset))
  /\ UNCHANGED <<view, onboarded, tasks, ran, storageVars>>

\* run_initialization: who is a participant waits for key events at once.
InitializationStatus(state) == IF Needed(state) THEN "ready" ELSE "halted"

\* Coordinator::run takes the current state; who is not a participant halts.
\* The Running job that run_mpc keeps up during a resharing loads the keyset
\* that the resharing loads, under the same lock; it is not modelled.
StartJob ==
  /\ onboarded
  /\ job.kind = "None"
  /\ job' = [kind |-> view.phase, epoch_id |-> view.id.epoch_id, keyset |-> view.keyset,
             status |-> IF view.phase = "Initializing" THEN InitializationStatus(view)
                        ELSE IF Needed(view) THEN "new" ELSE "halted",
             member |-> view.member]
  /\ UNCHANGED <<view, onboarded, tasks, ran, storageVars>>

\* stop_running, stop_resharing and stop_initializing.
StopJob(state) ==
  /\ job.kind \notin {"None", "Onboarding"}
  /\ \/ state.phase # job.kind
     \/ /\ job.kind = "Running"
        /\ state.keyset.epoch_id # job.keyset.epoch_id \/ state.member # job.member
     \/ job.kind # "Running" /\ state.id.epoch_id # job.epoch_id

\* monitor_contract_state reads the contract again and finds it changed;
\* states in between may be missed.
MonitorContractState == view # contract /\ view' = contract

\* A job that is stopped is dropped together with everything it was doing.
SeeContract ==
  /\ MonitorContractState
  /\ IF StopJob(contract)
     THEN job' = NoJob /\ tasks' = {} /\ DropStore
     ELSE UNCHANGED <<job, tasks, storageVars>>
  /\ UNCHANGED <<onboarded, ran>>

(***************************************************************************)
(* update_permanent_keyshares by the Running and the Resharing job, and    *)
(* import_backup by the onboarding.                                        *)
(***************************************************************************)
Status(s) == job' = [job EXCEPT !.status = s]

\* Every share is already in permanent storage.
NothingToStore(keyset) ==
  CanLoadKeyset(keyset) /\ Len(StoredPrefix(keyset)) = Len(keyset.keys)

Promoting == job.kind \in {"Running", "Resharing"} /\ job.status = "new" /\ storing.pc = "idle"

PromotedData(keyset) == [epoch_id |-> keyset.epoch_id, keyshares |-> LoadKeyset(keyset)]

BeginPromotion ==
  /\ Promoting
  /\ CanLoadKeyset(job.keyset)
  /\ ~NothingToStore(job.keyset)
  /\ BeginStore(PromotedData(job.keyset))
  /\ UNCHANGED <<nodeVars, ran>>

\* The call returns without a store: with the shares, or with an error.  A
\* node that joins with this resharing does without.
ReturnPromotion ==
  /\ Promoting
  /\ \/ /\ NothingToStore(job.keyset)
        /\ Status("ready")
     \/ /\ ~NothingToStore(job.keyset)
        /\ ~(CanLoadKeyset(job.keyset) /\ CanStore(PromotedData(job.keyset)))
        /\ Status(IF job.member THEN "failed" ELSE "ready")
  /\ UNCHANGED <<view, onboarded, tasks, ran, storageVars>>

\* The Running job has its shares and enough others are connected: it serves
\* requests.  Without any share it waits for the contract to change.
BeginServing ==
  /\ job.kind = "Running" /\ job.status = "ready"
  /\ Status(IF job.keyset.keys = <<>> THEN "halted" ELSE "serving")
  /\ UNCHANGED <<view, onboarded, tasks, ran, storageVars>>

\* The share of the backup for the key k.
BackupShare(epoch, k) == Keyshare(IdOf(epoch, k), k.key, k.instance)

\* Onboarding does not need the backup.
SkipImport ==
  /\ job.kind = "Onboarding" /\ job.status = "new" /\ storing.pc = "idle"
  /\ CanLoadKeyset(job.keyset)
  /\ Status("ready")
  /\ UNCHANGED <<view, onboarded, tasks, ran, storageVars>>

\* The backup matches the keyset, and so does what the node has of it.  If an
\* import fails it is tried again with the next backup.
ImportBackup ==
  LET epoch == job.keyset.epoch_id
      keys == job.keyset.keys
      backup == [i \in 1 .. Len(keys) |-> BackupShare(epoch, keys[i])]
      stored == StoredPrefix(job.keyset) IN
  /\ job.kind = "Onboarding" /\ job.status = "new"
  /\ ~CanLoadKeyset(job.keyset)
  /\ IsPrefixOfKeyset(stored, epoch, keys)
  /\ \A i \in 1 .. Len(stored) : stored[i] = backup[i]
  /\ \A i \in Len(stored) + 1 .. Len(keys) :
       IdOf(epoch, keys[i]) \in DOMAIN temporary => temporary[IdOf(epoch, keys[i])] = <<backup[i]>>
  /\ BeginStore([epoch_id |-> epoch, keyshares |-> backup])
  /\ UNCHANGED <<nodeVars, ran>>

ContinueStore ==
  /\ \/ Store /\ UNCHANGED job
     \/ StoreReturn /\ Status("ready")
  /\ UNCHANGED <<view, onboarded, tasks, ran>>

\* send_conclude_onboarding.  It only hands the transaction over, and what is
\* retried is the handing over: the transaction is sent once.
Conclude ==
  /\ job.kind = "Onboarding" /\ job.status = "ready"
  /\ txs' = txs \union {ConcludeTx}
  /\ Status("concluded")
  /\ UNCHANGED <<view, onboarded, tasks, ran, storageVars>>

(***************************************************************************)
(* Computations.  A task that fails votes to abort the attempt, which the  *)
(* contract may do anyway.                                                 *)
(***************************************************************************)

\* The order of compare_to_expected_key_event_id.
Before(a, b) ==
  \/ a.epoch_id < b.epoch_id
  \/ a.epoch_id = b.epoch_id /\ a.domain_id < b.domain_id
  \/ a.epoch_id = b.epoch_id /\ a.domain_id = b.domain_id /\ a.attempt_id < b.attempt_id

RemoteBehind(id) == Before(view.id, id) \/ (view.id = id /\ ~view.started)

RemoteAhead(id) == Before(id, view.id)

ReplaceTask(t, pc) == tasks' = (tasks \ {t}) \union {[t EXCEPT !.pc = pc]}

\* The multiplexer of the Resharing job hands key resharings to the loop below
\* and everything else to the Running job beside it.
IsResharingMessage(c) == c.kind = "Resharing"

\* The leader or follower loop takes up a channel of its own job.
ReceiveChannel(c) ==
  /\ job.status = "ready" /\ job.kind = c.kind /\ job.epoch_id = c.id.epoch_id
  /\ tasks' = tasks \union {[id |-> c.id, instance |-> c.instance, pc |-> "waiting"]}
  /\ channels' = channels \ {c}
  /\ UNCHANGED <<view, onboarded, job, ran, storageVars>>

KeygenFollower(c) == ~IsResharingMessage(c) /\ ReceiveChannel(c)
ResharingFollower(c) == IsResharingMessage(c) /\ ReceiveChannel(c)

\* The keyset that the job began with has a key for the domain.
HasPreviousKey(domain) ==
  \E i \in DOMAIN job.keyset.keys : job.keyset.keys[i].domain_id = domain

\* start_generating_key or start_resharing_key, once the node has seen the
\* attempt.  A resharing then looks up the previous key; without one it fails,
\* and leaves its marker behind.
StartTask(t) ==
  /\ t.pc = "waiting"
  /\ ~RemoteBehind(t.id)
  /\ IF /\ t.id.domain_id = view.id.domain_id
        /\ IF job.kind = "Initializing" THEN CanStartGenerating(view.completed, t.id)
           ELSE CanStartResharing(view.completed, t.id)
     THEN /\ CreateStartedMarker(t.id)
          /\ IF job.kind = "Initializing" \/ HasPreviousKey(t.id.domain_id)
             THEN ReplaceTask(t, "running") /\ ran' = ran \union {<<t.id, t.instance>>}
             ELSE tasks' = tasks \ {t} /\ UNCHANGED ran
     ELSE /\ tasks' = tasks \ {t}
          /\ UNCHANGED <<ran, storageVars>>
  /\ UNCHANGED <<view, onboarded, job>>

\* The protocol run has ended; commit_keyshare creates the file.
FinishTask(t) ==
  /\ t.pc = "running"
  /\ IF t.id \in DOMAIN temporary
     THEN tasks' = tasks \ {t} /\ UNCHANGED storageVars
     ELSE ReplaceTask(t, "created") /\ CreateKeyshareFile(t.id)
  /\ UNCHANGED <<view, onboarded, job, ran>>

\* The public key of the share: new, or that of the previous keyset.
PublicKeyOf(t) ==
  IF job.kind = "Initializing" THEN t.instance
  ELSE LET keys == job.keyset.keys
           at == CHOOSE i \in DOMAIN keys : keys[i].domain_id = t.id.domain_id
       IN keys[at].key

CommitTask(t) ==
  /\ t.pc = "created"
  /\ WriteKeyshareFile(Keyshare(t.id, PublicKeyOf(t), t.instance))
  /\ ReplaceTask(t, "committed")
  /\ UNCHANGED <<view, onboarded, job, ran>>

\* Mutant of Vote: it does not wait for the share to be written.
VoteBeforeCommit(t) ==
  /\ t.pc \in {"created", "committed"}
  /\ txs' = txs \union {[kind |-> "vote", id |-> t.id]}
  /\ tasks' = tasks \ {t}
  /\ UNCHANGED <<view, onboarded, job, ran, storageVars>>

\* The vote is sent, once.
Vote(t) ==
  /\ t.pc = "committed"
  /\ txs' = txs \union {[kind |-> "vote", id |-> t.id]}
  /\ tasks' = tasks \ {t}
  /\ UNCHANGED <<view, onboarded, job, ran, storageVars>>

VotePk(t) == job.kind = "Initializing" /\ Vote(t)
VoteReshared(t) == job.kind = "Resharing" /\ Vote(t)

\* The computation fails or the key event expires.
DropTask(t) ==
  /\ t.pc \in {"running", "created"} \/ RemoteAhead(t.id)
  /\ tasks' = tasks \ {t}
  /\ UNCHANGED <<view, onboarded, job, ran, storageVars>>

KeygenFails(t) == job.kind = "Initializing" /\ DropTask(t)
ResharingFails(t) == job.kind = "Resharing" /\ DropTask(t)

Node ==
  \/ /\ \/ OnboardingDone \/ StartOnboarding
        \/ StartJob \/ SeeContract
        \/ BeginPromotion \/ ReturnPromotion \/ BeginServing
        \/ SkipImport \/ ImportBackup
        \/ ContinueStore
        \/ \E t \in tasks : StartTask(t) \/ FinishTask(t) \/ CommitTask(t)
                         \/ KeygenFails(t) \/ ResharingFails(t)
     /\ UNCHANGED <<channels, txs, hasty>>
  \/ CancelOnboarding /\ UNCHANGED channels
  \/ /\ Conclude \/ \E t \in tasks : VotePk(t) \/ VoteReshared(t)
     /\ UNCHANGED <<channels, hasty>>
  \/ /\ \E c \in channels : KeygenFollower(c) \/ ResharingFollower(c)
     /\ UNCHANGED <<txs, hasty>>

NodeStep == Node /\ UNCHANGED <<chainVars, crashes>>

\* The process dies and starts again with the files it left.
Crash ==
  /\ crashes < MaxCrashes
  /\ crashes' = crashes + 1
  /\ view' = contract
  /\ onboarded' = FALSE
  /\ job' = NoJob
  /\ tasks' = {}
  /\ DropStore
  /\ UNCHANGED <<chainVars, channels, txs, ran, hasty>>

KeysNext == (ChainStep \/ NodeStep \/ Crash) /\ UNCHANGED migrant

KeysSpec == KeysInit /\ [][KeysNext]_keysVars
(***************************************************************************)
(* Properties.                                                             *)
(***************************************************************************)
IsKeyId(id) == id.epoch_id \in -1 .. MaxEpoch /\ id.domain_id \in 0 .. MaxDomains
               /\ id.attempt_id \in 0 .. MaxAttempt

IsShare(s) == IsKeyId(s.key_id) /\ s.public_key \in 1 .. MaxInstances
              /\ s.instance \in 1 .. MaxInstances

\* Files are named after what is in them, and the states of the job, of the
\* store and of the tasks are those of the code.
KeysTypeOK ==
  /\ contract.phase \in {"Running", "Initializing", "Resharing"}
  /\ \A id \in markers : IsKeyId(id)
  /\ \A id \in DOMAIN temporary :
       IsKeyId(id) /\ \A i \in DOMAIN temporary[id] :
                        i = 1 /\ IsShare(temporary[id][i]) /\ temporary[id][i].key_id = id
  /\ \A f \in DOMAIN permanent_keys :
       permanent_keys[f] # <<>> =>
         /\ Len(permanent_keys[f]) = f[2]
         /\ \A i \in 1 .. f[2] : IsShare(permanent_keys[f][i])
                                 /\ permanent_keys[f][i].key_id.epoch_id = f[1]
  /\ job.kind \in {"None", "Onboarding", "Running", "Initializing", "Resharing"}
  /\ job.status \in {"new", "ready", "serving", "concluded", "failed", "halted"}
  /\ storing.pc \in {"idle", "created", "written", "removed", "linked"}
  /\ \A t \in tasks : t.pc \in {"waiting", "running", "created", "committed"}

\* The shares in the files that the node reads.
SharesRead ==
  {permanent.keyshares[i] : i \in DOMAIN permanent.keyshares}
  \union UNION {{temporary[id][i] : i \in DOMAIN temporary[id]} : id \in DOMAIN temporary}

\* The shares in any file, the numbered copies of the permanent storage too.
SharesOnDisk ==
  SharesRead
  \union UNION {{permanent_keys[f][i] : i \in DOMAIN permanent_keys[f]} : f \in DOMAIN permanent_keys}

\* The share of the run the contract certified, of each key it counts on this
\* node for: those of its keyset, and those of a resharing under way.
SharesCountedOn ==
  LET counted(needed, epoch, keys) ==
        {BackupShare(epoch, keys[i]) : i \in {j \in 1 .. Len(keys) : needed}} IN
  counted(contract.member, contract.keyset.epoch_id, contract.keyset.keys)
  \union counted(contract.phase = "Resharing" /\ contract.joins, contract.id.epoch_id,
                 contract.completed)

\* As long as the contract counts on this node for a key, the node has the
\* share of exactly the certified run in a file that it reads: through crashes,
\* dropped jobs, epoch ids that are used again and deleted temporary files.
\* It holds unless the shares came with a migration.
SharesLoadable == SharesCountedOn \subseteq SharesRead

\* The same for a node that may have entered by a migration.  Imported shares
\* have no temporary files: while `key` is replaced, and after a crash at that
\* moment, they are only in a numbered copy, which the code writes so "we
\* don't lose any keys" and which an operator has to link again.
NoShareLost == SharesCountedOn \subseteq SharesOnDisk

\* No share that the contract counts on is lost, by a crash, a dropped job, a
\* promotion or a migration that waited for its backup; and who did not enter
\* by a migration has it where it reads it.
SharesSafe == KeysTypeOK /\ (NoShareLost \/ hasty) /\ (migrant \/ SharesLoadable)

\* A job that serves requests uses the shares the contract certified, and not
\* those of another run with the same key id.
ServesCertifiedShares ==
  job.kind = "Running" /\ job.status = "serving" =>
    LET keys == job.keyset.keys IN
    /\ keys # <<>> => permanent.epoch_id = job.keyset.epoch_id
    /\ \A i \in 1 .. Len(keys) :
         permanent.keyshares[i] = BackupShare(job.keyset.epoch_id, keys[i])

\* The node takes part in at most one run for a key id, although markers are
\* deleted, epoch ids are used again and the process restarts.
RunOnce == \A x, y \in ran : x[1] = y[1] => x = y

\* The Running job serves the keyset of the state the node sees, although
\* stop_running does not compare keysets: a participant cannot miss the key
\* generation that extends its keyset, because its own vote is needed.
ServesCurrentKeyset ==
  job.kind = "Running" /\ view.phase = "Running" /\ view.member => job.keyset = view.keyset

\* update_permanent_keyshares "ensures that the given keyset is in permanent
\* key storage": it fails only if a share is missing, or if the file was left
\* behind by a store that was cut off.  The permanent store refuses fewer
\* domains, an older epoch and other keys; the contract never asks for them.
PromotionSucceeds ==
  job.status = "failed" =>
    \/ ~CanLoadKeyset(job.keyset)
    \/ Identifier(PromotedData(job.keyset)) \in DOMAIN permanent_keys

\* A job that serves requests does so with the shares of exactly the run the
\* contract certified, for the keyset in use, and no key id is run twice.
ServesSound == ServesCertifiedShares /\ ServesCurrentKeyset /\ RunOnce
=============================================================================
