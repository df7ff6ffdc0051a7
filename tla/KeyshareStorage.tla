--------------------------- MODULE KeyshareStorage ---------------------------
(***************************************************************************)
(* The key shares of one node on disk: the temporary storage (a started    *)
(* marker and a share file per key id), the permanent storage with the     *)
(* local backend (a `key` file and a directory of numbered copies), and    *)
(* the steps in which a new permanent object is put in place.  What is     *)
(* written here survives a crash; the step counter of a store does not.    *)
(*                                                                         *)
(* A file is the sequence of shares that can be decrypted from it: <<>> is *)
(* a file that was created and not yet written.  A share carries, beside   *)
(* its key id and public key, the number of the protocol run it is from,   *)
(* standing for the secret: two runs for one key id give unrelated shares. *)
(***************************************************************************)
EXTENDS Integers, Sequences

VARIABLES
  markers,          \* key ids with a `started_...` file
  temporary,        \* key id -> `keyshare_...` file
  permanent,        \* the object that the `key` file leads to
  permanent_keys,   \* <<epoch, number of domains>> -> file in permanent_keys/
  storing           \* volatile: how far the store in progress has come

disk == <<markers, temporary, permanent, permanent_keys>>
storageVars == <<disk, storing>>

NoEpoch == -1

\* There is no `key` file.
NoPermanent == [epoch_id |-> NoEpoch, keyshares |-> <<>>]

NotStoring == [pc |-> "idle", data |-> NoPermanent]

KeyEventId(epoch, domain, attempt) ==
  [epoch_id |-> epoch, domain_id |-> domain, attempt_id |-> attempt]

\* The id of the key k of a keyset of the given epoch.
IdOf(epoch, k) == KeyEventId(epoch, k.domain_id, k.attempt)

Keyshare(id, key, instance) == [key_id |-> id, public_key |-> key, instance |-> instance]

StorageInit ==
  /\ markers = {}
  /\ temporary = [id \in {} |-> <<>>]
  /\ permanent = NoPermanent
  /\ permanent_keys = [identifier \in {} |-> <<>>]
  /\ storing = NotStoring

Write(files, name, content) ==
  [f \in DOMAIN files \union {name} |-> IF f = name THEN content ELSE files[f]]

RemoveFile(files, name) == [f \in DOMAIN files \ {name} |-> files[f]]

(***************************************************************************)
(* Temporary storage.                                                      *)
(***************************************************************************)

\* TemporaryKeyStorage::load_keyshare returns a share.
CanLoad(id) == id \in DOMAIN temporary /\ temporary[id] # <<>>

\* Keyshare::check_consistency.
CheckConsistency(share, epoch, k) == share.key_id = IdOf(epoch, k) /\ share.public_key = k.key

\* load_keyshare_from_temporary succeeds.
TemporaryHas(epoch, k) ==
  LET id == IdOf(epoch, k) IN CanLoad(id) /\ CheckConsistency(temporary[id][1], epoch, k)

IsPrefixOfKeyset(shares, epoch, keys) ==
  /\ Len(shares) <= Len(keys)
  /\ \A i \in 1 .. Len(shares) : CheckConsistency(shares[i], epoch, keys[i])

\* File::create_new of the started marker succeeds.
StartedMarkerIsFree(id) == id \notin markers

\* start_generating_key succeeds.
CanStartGenerating(generated, id) ==
  LET same == permanent.epoch_id = id.epoch_id
      stored == IF same THEN Len(permanent.keyshares) ELSE 0 IN
  /\ permanent.epoch_id <= id.epoch_id
  /\ same => IsPrefixOfKeyset(permanent.keyshares, id.epoch_id, generated)
  /\ \A i \in stored + 1 .. Len(generated) : TemporaryHas(id.epoch_id, generated[i])
  /\ StartedMarkerIsFree(id)

\* start_resharing_key succeeds.
CanStartResharing(reshared, id) ==
  /\ permanent.epoch_id < id.epoch_id
  /\ \A i \in 1 .. Len(reshared) : TemporaryHas(id.epoch_id, reshared[i])
  /\ StartedMarkerIsFree(id)

\* TemporaryKeyStorage::start_generating_keyshare.
CreateStartedMarker(id) ==
  /\ markers' = markers \union {id}
  /\ UNCHANGED <<temporary, permanent, permanent_keys, storing>>

\* commit_keyshare up to and including create_new.
CreateKeyshareFile(id) ==
  /\ id \notin DOMAIN temporary
  /\ temporary' = Write(temporary, id, <<>>)
  /\ UNCHANGED <<markers, permanent, permanent_keys, storing>>

\* The rest of commit_keyshare.
WriteKeyshareFile(share) ==
  /\ temporary' = Write(temporary, share.key_id, <<share>>)
  /\ UNCHANGED <<markers, permanent, permanent_keys, storing>>

(***************************************************************************)
(* Permanent storage.                                                      *)
(***************************************************************************)

\* What _load_prefix_from_permanent finds.
StoredPrefix(keyset) ==
  IF permanent.epoch_id = keyset.epoch_id THEN permanent.keyshares ELSE <<>>

\* _load_keyshares_from_permanent_or_temporary succeeds.
CanLoadKeyset(keyset) ==
  LET stored == StoredPrefix(keyset) IN
  /\ IsPrefixOfKeyset(stored, keyset.epoch_id, keyset.keys)
  /\ \A i \in Len(stored) + 1 .. Len(keyset.keys) : CanLoad(IdOf(keyset.epoch_id, keyset.keys[i]))

LoadKeyset(keyset) ==
  LET stored == StoredPrefix(keyset) IN
  [i \in 1 .. Len(keyset.keys) |->
     IF i <= Len(stored) THEN stored[i] ELSE temporary[IdOf(keyset.epoch_id, keyset.keys[i])][1]]

\* PermanentKeyshareData::new succeeds.
IsConsistent(data) ==
  /\ data.keyshares # <<>>
  /\ \A i \in 1 .. Len(data.keyshares) : data.keyshares[i].key_id.epoch_id = data.epoch_id
  /\ \A i \in 2 .. Len(data.keyshares) :
       data.keyshares[i - 1].key_id.domain_id < data.keyshares[i].key_id.domain_id

\* Mutant of MayReplacePermanent: a new epoch needs more domains too.
MayReplacePermanentByMore(data) ==
  permanent.epoch_id <= data.epoch_id /\ Len(permanent.keyshares) < Len(data.keyshares)

\* PermanentKeyStorage::store accepts the data.
MayReplacePermanent(data) ==
  LET same == permanent.epoch_id = data.epoch_id IN
  /\ permanent.epoch_id <= data.epoch_id
  /\ Len(permanent.keyshares) <= Len(data.keyshares)
  /\ same => Len(permanent.keyshares) < Len(data.keyshares)
  /\ \A i \in 1 .. Len(permanent.keyshares) :
       LET old == permanent.keyshares[i]
           new == data.keyshares[i] IN
       /\ old.key_id.domain_id = new.key_id.domain_id
       /\ same => old.key_id = new.key_id
       /\ old.public_key = new.public_key

\* The name of the file in store_unchecked.
Identifier(data) == <<data.epoch_id, Len(data.keyshares)>>

\* _store_new_permanent_keyset_data_delete_temporary gets past the checks and
\* the create_new of LocalPermanentKeyStorageBackend::store.
CanStore(data) ==
  /\ IsConsistent(data)
  /\ MayReplacePermanent(data)
  /\ Identifier(data) \notin DOMAIN permanent_keys

BeginStore(data) ==
  /\ storing.pc = "idle"
  /\ CanStore(data)
  /\ permanent_keys' = Write(permanent_keys, Identifier(data), <<>>)
  /\ storing' = [pc |-> "created", data |-> data]
  /\ UNCHANGED <<markers, temporary, permanent>>

StoreWrite ==
  /\ storing.pc = "created"
  /\ permanent_keys' = Write(permanent_keys, Identifier(storing.data), storing.data.keyshares)
  /\ storing' = [storing EXCEPT !.pc = "written"]
  /\ UNCHANGED <<markers, temporary, permanent>>

StoreRemoveKey ==
  /\ storing.pc = "written"
  /\ permanent' = NoPermanent
  /\ storing' = [storing EXCEPT !.pc = "removed"]
  /\ UNCHANGED <<markers, temporary, permanent_keys>>

StoreLink ==
  /\ storing.pc = "removed"
  /\ permanent' = storing.data
  /\ storing' = [storing EXCEPT !.pc = "linked"]
  /\ UNCHANGED <<markers, temporary, permanent_keys>>

\* delete_keyshares_prior_to_epoch_id deletes the files of this key id.
IsOld(id) == id.epoch_id < storing.data.epoch_id

\* One remove_file of delete_keyshares_prior_to_epoch_id.
StoreDelete ==
  /\ storing.pc = "linked"
  /\ \/ \E id \in markers : IsOld(id) /\ markers' = markers \ {id} /\ UNCHANGED temporary
     \/ \E id \in DOMAIN temporary :
          IsOld(id) /\ temporary' = RemoveFile(temporary, id) /\ UNCHANGED markers
  /\ UNCHANGED <<permanent, permanent_keys, storing>>

\* Nothing is left to delete: the store returns.
StoreReturn ==
  /\ storing.pc = "linked"
  /\ \A id \in markers \union DOMAIN temporary : ~IsOld(id)
  /\ storing' = NotStoring
  /\ UNCHANGED disk

\* The future that runs the store is dropped, or the process dies.
DropStore == storing' = NotStoring /\ UNCHANGED disk

Store == StoreWrite \/ StoreRemoveKey \/ StoreLink \/ StoreDelete
=============================================================================
