--------------------------- MODULE BackupService ---------------------------
(***************************************************************************)
(* The key shares of one account on their way from its node to another     *)
(* one: the web servers of the two nodes (crates/node/src/                 *)
(* migration_service/web), which serve only the backup service that the    *)
(* contract names, and the backup service itself (crates/backup-cli).      *)
(* Onboarding and its jobs are in NodeKeys, storage step by step in        *)
(* KeyshareStorage.  A keyset is its epoch and its number of domains: the  *)
(* keys of an epoch only ever grow at the end.  Each server handles one    *)
(* connection at a time here; in the code several, none of which looks at  *)
(* another.  A server whose monitor ends because the node is going down    *)
(* (server.rs:104) is not modelled.                                        *)
(***************************************************************************)
EXTENDS Integers, FiniteSets

CONSTANTS
  MaxBackupKeys,  \* times the operator generates secrets
  MaxDomains,
  MaxKeysets,     \* keysets the contract comes to be Running with
  MaxTokens,      \* changes of the migration info a server sees
  MaxLinks,       \* connections at a time
  EncryptionKeys, NodeEncryptionKey

ASSUME BackupServiceAssumption ==
  /\ MaxBackupKeys \in Nat \ {0} /\ MaxKeysets \in Nat \ {0} /\ MaxDomains \in Nat \ {0}
  /\ MaxTokens \in Nat /\ MaxLinks \in Nat /\ NodeEncryptionKey \in EncryptionKeys

VARIABLES
  chain,       \* the contract: phase, epoch and number of keys
  adopted,     \* history: keysets the contract has been Running with
  registered,  \* the backup service's key on the contract, 0 for none
  destination, \* whether a migration to the new node is under way
  told,        \* MigrationInfo in each server's watch channel
  news,        \* the channel has a value its reader has not seen
  expecting,   \* ExpectedPeerInfo of each server
  revoked,     \* cancelled tokens of each server
  revoking,    \* the monitor is between cancelling and sending
  links,       \* the connection each server handles
  secrets,     \* the backup service's p2p key, the latest generated one
  fixture,     \* its contract_state.json: a keyset it was given
  vault,       \* its stored key shares
  oldShares,   \* the old node's permanent key shares
  inbox,       \* the new node's import channel
  newShares    \* the new node's permanent key shares

backupVars == <<chain, adopted, registered, destination, told, news, expecting, revoked, revoking,
                links, secrets, fixture, vault, oldShares, inbox, newShares>>

Servers == {"old", "new"}
Keyset(epoch, count) == [epoch |-> epoch, count |-> count]
NoShares == Keyset(0, 0)
NoLink == [state |-> "none", key |-> 0, expected |-> 0, token |-> 0]

\* MigrationInfo::from_contract_state, with infer_migration_status.
MigrationInfoOf(s) == [key |-> registered, active |-> s = "new" /\ destination]

\* ExpectedPeerInfo::from_migration.
FromMigration(info, token) == [key |-> info.key, token |-> token]

\* The operator has generated and registered a first key, or has not, and the
\* nodes have started after that.
BackupInit ==
  /\ chain = [phase |-> "Running", epoch |-> 0, count |-> 1] /\ adopted = {Keyset(0, 1)}
  /\ registered \in {0, 1} /\ secrets = registered /\ destination = FALSE
  /\ told = [s \in Servers |-> MigrationInfoOf(s)]
  /\ news = [s \in Servers |-> FALSE]
  /\ expecting = [s \in Servers |-> FromMigration(told[s], 0)]
  /\ revoked = [s \in Servers |-> {}] /\ revoking = [s \in Servers |-> FALSE]
  /\ links = [s \in Servers |-> NoLink]
  /\ fixture = NoShares /\ vault = NoShares
  /\ oldShares = Keyset(0, 1) /\ inbox = NoShares /\ newShares = NoShares

-----------------------------------------------------------------------------
(***************************************************************************)
(* The contract, and what its readers see of it.                           *)
(***************************************************************************)

Keys == Keyset(chain.epoch, chain.count)

Advance(state) ==
  /\ chain' = state
  /\ adopted' = adopted \union
                  (IF state.phase = "Running" THEN {Keyset(state.epoch, state.count)} ELSE {})
  /\ Cardinality(adopted') <= MaxKeysets
  /\ UNCHANGED <<registered, destination, told, news, expecting, revoked, revoking, links, secrets,
                 fixture, vault, oldShares, inbox, newShares>>

\* Keys are generated for up to two domains; the generation may be cancelled
\* after the first (vote_cancel_keygen), which keeps it.
ContractMoves ==
  \/ chain.phase = "Running" /\ Advance([chain EXCEPT !.phase = "Initializing"])
  \/ /\ chain.phase = "Initializing" /\ chain.count < MaxDomains
     /\ Advance([chain EXCEPT !.count = @ + 1])
  \/ chain.phase = "Initializing" /\ Advance([chain EXCEPT !.phase = "Running"])
  \/ chain.phase = "Running" /\ Advance([chain EXCEPT !.phase = "Resharing"])
  \/ chain.phase = "Resharing" /\ Advance([chain EXCEPT !.phase = "Running"])
  \/ /\ chain.phase = "Resharing"
     /\ Advance([phase |-> "Running", epoch |-> chain.epoch + 1, count |-> chain.count])

\* register_backup_service and start_node_migration, by the operator.
Register ==
  /\ secrets # 0 /\ registered' = secrets
  /\ UNCHANGED <<chain, adopted, destination, told, news, expecting, revoked, revoking, links,
                 secrets, fixture, vault, oldShares, inbox, newShares>>

StartMigration ==
  /\ chain.phase = "Running" /\ destination' = TRUE
  /\ UNCHANGED <<chain, adopted, registered, told, news, expecting, revoked, revoking, links,
                 secrets, fixture, vault, oldShares, inbox, newShares>>

\* monitor_migrations: send_if_modified.
SeeMigration(s) ==
  /\ told[s] # MigrationInfoOf(s) /\ told' = [told EXCEPT ![s] = MigrationInfoOf(s)]
  /\ news' = [news EXCEPT ![s] = TRUE]
  /\ UNCHANGED <<chain, adopted, registered, destination, expecting, revoked, revoking, links,
                 secrets, fixture, vault, oldShares, inbox, newShares>>

\* update_permanent_keyshares of the old node, a participant.
Promote ==
  /\ chain.phase = "Running" /\ oldShares # Keys /\ oldShares' = Keys
  /\ UNCHANGED <<chain, adopted, registered, destination, told, news, expecting, revoked, revoking,
                 links, secrets, fixture, vault, inbox, newShares>>

-----------------------------------------------------------------------------
(***************************************************************************)
(* spawn_expected_peer_info_monitoring: the token of the old info is       *)
(* cancelled, then the new info is sent.                                   *)
(***************************************************************************)

\* Mutant of Revoke: the token is not cancelled.
RevokeNothing(s) ==
  /\ ~revoking[s] /\ news[s] /\ expecting[s].token < MaxTokens
  /\ revoking' = [revoking EXCEPT ![s] = TRUE]
  /\ UNCHANGED <<chain, adopted, registered, destination, told, news, expecting, revoked, links,
                 secrets, fixture, vault, oldShares, inbox, newShares>>

Revoke(s) ==
  /\ ~revoking[s] /\ news[s] /\ expecting[s].token < MaxTokens
  /\ revoking' = [revoking EXCEPT ![s] = TRUE]
  /\ revoked' = [revoked EXCEPT ![s] = @ \union {expecting[s].token}]
  /\ UNCHANGED <<chain, adopted, registered, destination, told, news, expecting, links, secrets,
                 fixture, vault, oldShares, inbox, newShares>>

Expect(s) ==
  /\ revoking[s] /\ revoking' = [revoking EXCEPT ![s] = FALSE]
  /\ news' = [news EXCEPT ![s] = FALSE]
  /\ expecting' = [expecting EXCEPT ![s] = FromMigration(told[s], @.token + 1)]
  /\ UNCHANGED <<chain, adopted, registered, destination, told, revoked, links, secrets, fixture,
                 vault, oldShares, inbox, newShares>>

-----------------------------------------------------------------------------
(***************************************************************************)
(* Connections, by the holder of one of the keys generated so far.         *)
(***************************************************************************)

SetLink(s, link) ==
  /\ links' = [links EXCEPT ![s] = link]
  /\ UNCHANGED <<chain, adopted, registered, destination, told, news, expecting, revoked, revoking,
                 secrets, fixture, vault, oldShares, inbox, newShares>>

\* start_web_server accepts, and takes the info along to handle_stream.
Accept(s, key) ==
  /\ links[s] = NoLink /\ Cardinality({t \in Servers : links[t] # NoLink}) < MaxLinks
  /\ SetLink(s, [state |-> "accepted", key |-> key, expected |-> expecting[s].key,
                 token |-> expecting[s].token])

\* authenticate_peer: the key of the TLS certificate is the expected one.
Authenticates(link) == link.expected # 0 /\ link.key = link.expected

\* handle_stream, once the TLS handshake is over.
Authenticate(s) ==
  /\ links[s].state = "accepted"
  /\ SetLink(s, IF Authenticates(links[s]) THEN [links[s] EXCEPT !.state = "open"] ELSE NoLink)

\* The connection ends: the client closes it, or its token is cancelled.  Until
\* the select looks at the token, a request may still be handled.
Disconnect(s) == links[s].state = "open" /\ SetLink(s, NoLink)

\* serialize_and_encrypt_keyshares and decrypt_and_deserialize_keyshares.
Encrypt(key, shares) == [key |-> key, shares |-> shares]
Decrypts(key, text) == text.key = key

\* KeyshareStorage::get_keyshares of the old node: permanent shares must be a
\* prefix of the keyset, the others are temporary ones.
CanGet(keyset) ==
  /\ keyset # NoShares /\ keyset.epoch >= oldShares.epoch
  /\ keyset.epoch = oldShares.epoch => oldShares.count <= keyset.count

\* PermanentKeyStorage::store.
MayStore(stored, shares) ==
  stored = NoShares \/ /\ stored.epoch <= shares.epoch /\ stored.count <= shares.count
                       /\ stored.epoch = shares.epoch => stored.count < shares.count

\* GET /get_keyshares: the node answers with its shares of the keyset that was
\* named, which are read with the key the operator has given the backup service.
MakeKeyshareGetRequest(keyset, key) ==
  /\ links["old"].state = "open" /\ links["old"].key = secrets
  /\ CanGet(keyset) /\ Decrypts(key, Encrypt(NodeEncryptionKey, keyset))

\* PUT /set_keyshares: the node reads them with its own key.
MakeSetKeysharesRequest(shares, key) ==
  /\ links["new"].state = "open" /\ links["new"].key = secrets
  /\ Decrypts(NodeEncryptionKey, Encrypt(key, shares))

\* get_keyshares of the backup service stores the answer.
GetKeyshares(key) ==
  /\ MakeKeyshareGetRequest(fixture, key)
  /\ MayStore(vault, fixture) /\ vault' = fixture
  /\ UNCHANGED <<chain, adopted, registered, destination, told, news, expecting, revoked, revoking,
                 links, secrets, fixture, oldShares, inbox, newShares>>

\* put_keyshares of the backup service: into the node's import channel.
PutKeyshares(key) ==
  /\ vault # NoShares /\ MakeSetKeysharesRequest(vault, key)
  /\ inbox' = vault
  /\ UNCHANGED <<chain, adopted, registered, destination, told, news, expecting, revoked, revoking,
                 links, secrets, fixture, vault, oldShares, newShares>>

-----------------------------------------------------------------------------
(***************************************************************************)
(* The backup service's other commands, and the import.                    *)
(***************************************************************************)

\* generate_secrets overwrites the secrets.
GenerateSecrets ==
  /\ secrets < MaxBackupKeys /\ secrets' = secrets + 1
  /\ UNCHANGED <<chain, adopted, registered, destination, told, news, expecting, revoked, revoking,
                 links, fixture, vault, oldShares, inbox, newShares>>

\* The operator saves the contract's state, from which
\* get_keyset_from_contract_state takes the keyset: also one that is being
\* extended, but none that is being reshared.
SaveContractState ==
  /\ chain.phase # "Resharing" /\ fixture # Keys /\ fixture' = Keys
  /\ UNCHANGED <<chain, adopted, registered, destination, told, news, expecting, revoked, revoking,
                 links, secrets, vault, oldShares, inbox, newShares>>

\* import_backup, in an onboarding job: a backup that is no exact match of the
\* job's keyset is passed over.  The job is cancelled when the contract moves on
\* (onboarding.rs, NodeKeys), so that its keyset is taken to be the contract's.
Import ==
  /\ told["new"].active /\ chain.phase = "Running" /\ inbox # NoShares
  /\ inbox' = NoShares
  /\ newShares' = IF inbox = Keys /\ MayStore(newShares, inbox) THEN inbox ELSE newShares
  /\ UNCHANGED <<chain, adopted, registered, destination, told, news, expecting, revoked, revoking,
                 links, secrets, fixture, vault, oldShares>>

BackupNext ==
  \/ ContractMoves \/ Register \/ StartMigration \/ Promote
  \/ \E s \in Servers : SeeMigration(s) \/ Revoke(s) \/ Expect(s)
  \/ \E s \in Servers, k \in 1 .. secrets : Accept(s, k)
  \/ \E s \in Servers : Authenticate(s) \/ Disconnect(s)
  \/ \E k \in EncryptionKeys : GetKeyshares(k) \/ PutKeyshares(k)
  \/ GenerateSecrets \/ SaveContractState \/ Import

BackupSpec == BackupInit /\ [][BackupNext]_backupVars

-----------------------------------------------------------------------------
(***************************************************************************)
(* What is promised.                                                       *)
(***************************************************************************)

\* A connection that is served belongs to the backup service the server
\* expects at the moment, or is about to be dropped (server.rs): no change of
\* the contract's migration info is missed by a connection accepted while the
\* change comes through.
NoStaleConnection ==
  \A s \in Servers :
    links[s].state = "open" =>
      \/ links[s].token \in revoked[s]
      \/ links[s].key = expecting[s].key /\ links[s].token = expecting[s].token

\* A new connection has the token of the latest info, cancelled only while a
\* newer one is on its way.
TokensSound ==
  \A s \in Servers : expecting[s].token \in revoked[s] <=> revoking[s]

\* What the new node stores is one whole keyset the contract has been Running
\* with, although a backup may be of an older one or of one half made, and
\* connections outlive changes of the backup service (server.rs, keyshare.rs,
\* backup.rs).
BackupsSound ==
  /\ NoStaleConnection /\ TokensSound
  /\ newShares # NoShares => newShares \in adopted
=============================================================================
