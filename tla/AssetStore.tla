----------------------------- MODULE AssetStore -----------------------------
(***************************************************************************)
(* DistributedAssetStorage of one node for one kind of asset: the owned    *)
(* assets in the database, their copies in memory (a hot channel and a     *)
(* cold queue with two barriers), concurrent take_owned calls, the         *)
(* discarding of assets whose participants are offline, crashes, and the   *)
(* cleanup on start.  The condition of an asset is that its participants   *)
(* are all in the condition value, the set of participants seen alive.     *)
(***************************************************************************)
EXTENDS Integers, FiniteSets, Sequences, SequencesExt

CONSTANTS
  Peers,             \* the other participants
  Takers,            \* concurrent callers of take_owned
  ParticipantSets,   \* participants of an asset, besides this node
  DiscardCount,      \* num_assets_to_process of maybe_discard_owned
  MaxAssets,         \* bound: assets ever added
  MaxRestarts,       \* bound: crashes
  MaxChanges         \* bound: changes of the set of alive peers

ASSUME StoreAssumption ==
  /\ ParticipantSets \subseteq SUBSET Peers
  /\ DiscardCount \in Nat /\ MaxAssets \in Nat /\ MaxRestarts \in Nat /\ MaxChanges \in Nat

VARIABLES
  asset,       \* every asset ever added: [participants, epoch, keys]
  db,          \* owned assets in the database
  hot,         \* the flume channel
  cold,        \* cold_queue, a record
  alive,       \* peers alive now, what the fetcher returns
  due,         \* whether next_fetch_due has surely passed
  taker,       \* program counter of each take_owned call
  discarder,   \* the maybe_discard_owned call
  epoch_data,  \* EpochData in the database
  config,      \* epoch and TLS keys of the configuration now
  up,          \* whether the node runs
  restarts, changes,
  used         \* ghost: assets that take_owned returned

storeVars == <<asset, db, hot, cold, taker, discarder, used>>
vars == <<storeVars, alive, due, epoch_data, config, up, restarts, changes>>

NoCall == [pc |-> "idle", left |-> 0, removed |-> {}]
Idle == [pc |-> "idle", id |-> 0]
At(pc, id) == [pc |-> pc, id |-> id]

Satisfies(cond, id) == asset[id].participants \subseteq cond

-----------------------------------------------------------------------------
(* The cold queue: ids, cold_ready, cold_available, last_condition_value. *)

EmptyCold == [ids |-> <<>>, ready |-> 0, available |-> 0, cond |-> {}]

(* A changed condition value makes the whole queue unknown. *)
UpdateConditionValue(c) ==
  IF alive = c.cond THEN c
  ELSE [c EXCEPT !.cond = alive, !.ready = 0, !.available = Len(c.ids)]

(* update_condition_value_if_due: the interval may have passed, and surely has after the
   wait of a caller. *)
Refreshed(c) == IF due THEN {UpdateConditionValue(c)} ELSE {c, UpdateConditionValue(c)}

(* take: the front, unless nothing is available; an unknown element that fails the
   condition goes to the back.  pc is where take_owned continues. *)
ColdTake(c) ==
  IF c.available = 0 THEN [cold |-> c, pc |-> "wait", id |-> 0]
  ELSE LET id == Head(c.ids)
           rest == [c EXCEPT !.ids = Tail(@), !.available = @ - 1]
       IN  IF c.ready > 0
           THEN [cold |-> [rest EXCEPT !.ready = @ - 1], pc |-> "taken", id |-> id]
           ELSE IF Satisfies(c.cond, id)
           THEN [cold |-> rest, pc |-> "taken", id |-> id]
           ELSE [cold |-> [rest EXCEPT !.ids = Append(@, id)], pc |-> "loop", id |-> 0]

ColdDiscardSkipCheck(c) ==
  IF c.ready = Len(c.ids) THEN [cold |-> c, pc |-> "hot", removed |-> {}]
  ELSE [cold |-> [c EXCEPT !.ids = Front(@), !.available = IF @ > Len(c.ids) - 1
                                                             THEN @ - 1 ELSE @],
        pc |-> "cold", removed |-> {Last(c.ids)}]

(* discard: the back, unless everything is ready; an unknown element that satisfies the
   condition goes to the front. *)
ColdDiscard(c) ==
  IF c.ready = Len(c.ids) THEN [cold |-> c, pc |-> "hot", removed |-> {}]
  ELSE LET id == Last(c.ids)
           rest == Front(c.ids)
           unknown == c.available > Len(rest)
       IN  IF unknown /\ Satisfies(c.cond, id)
           THEN [cold |-> [c EXCEPT !.ids = <<id>> \o rest, !.ready = @ + 1],
                 pc |-> "cold", removed |-> {}]
           ELSE [cold |-> [c EXCEPT !.ids = rest,
                                    !.available = IF unknown THEN @ - 1 ELSE @],
                 pc |-> "cold", removed |-> {id}]

(* add_if_condition_satisfied: to the front as ready, or handed back. *)
AddIfSatisfied(c, id) ==
  IF Satisfies(c.cond, id)
  THEN [c EXCEPT !.ids = <<id>> \o @, !.ready = @ + 1, !.available = @ + 1]
  ELSE c

(* add_if_condition_not_satisfied, for an element that does not. *)
AddNotSatisfied(c, id) == [c EXCEPT !.ids = Append(@, id)]

-----------------------------------------------------------------------------
(* Initial state and the environment. *)

Keys == [p \in Peers |-> 0]

Init ==
  /\ asset = <<>> /\ db = {} /\ hot = <<>> /\ cold = EmptyCold
  /\ alive = Peers /\ due = FALSE
  /\ taker = [k \in Takers |-> Idle] /\ discarder = NoCall
  /\ config = [epoch |-> 0, keys |-> Keys]
  /\ epoch_data = config
  /\ up = TRUE /\ restarts = 0 /\ changes = 0 /\ used = {}

(* The generation of an asset ends with add_owned: to the database, then to the channel. *)
AddOwned(ps) ==
  /\ up /\ Len(asset) < MaxAssets /\ ps \in ParticipantSets
  /\ asset' = Append(asset, [participants |-> ps, epoch |-> config.epoch,
                             keys |-> [p \in ps |-> config.keys[p]]])
  /\ db' = db \cup {Len(asset')}
  /\ hot' = Append(hot, Len(asset'))
  /\ UNCHANGED <<cold, alive, due, taker, discarder, epoch_data, config, up, restarts,
                 changes, used>>

AliveChange ==
  /\ up /\ changes < MaxChanges /\ changes' = changes + 1
  /\ \E p \in Peers : alive' \in {alive \cup {p}, alive \ {p}} \ {alive}
  /\ UNCHANGED <<storeVars, due, epoch_data, config, up, restarts>>

-----------------------------------------------------------------------------
(* take_owned: every lock of the cold queue is a step. *)

TakeCall(k) ==
  /\ up /\ taker[k].pc = "idle"
  /\ cold' = UpdateConditionValue(cold)
  /\ due' = FALSE
  /\ taker' = [taker EXCEPT ![k] = At("loop", 0)]
  /\ UNCHANGED <<asset, db, hot, discarder, used, alive, epoch_data, config, up, restarts,
                 changes>>

TakeCold(k) ==
  /\ up /\ taker[k].pc = "loop"
  /\ \E c \in Refreshed(cold) : LET r == ColdTake(c) IN
         /\ cold' = r.cold
         /\ taker' = [taker EXCEPT ![k] = At(r.pc, r.id)]
  /\ due' = FALSE
  /\ UNCHANGED <<asset, db, hot, discarder, used, alive, epoch_data, config, up, restarts,
                 changes>>

TakeTimeoutKeepsWaiting(k) ==
  /\ up /\ taker[k].pc = "wait" /\ hot = <<>>
  /\ due' = TRUE
  /\ UNCHANGED <<asset, db, hot, cold, taker, discarder, used, alive, epoch_data, config, up,
                 restarts, changes>>

(* The one second of waiting ends; an element of the channel is received before that. *)
TakeTimeout(k) ==
  /\ up /\ taker[k].pc = "wait" /\ hot = <<>>
  /\ taker' = [taker EXCEPT ![k] = At("loop", 0)]
  /\ due' = TRUE
  /\ UNCHANGED <<asset, db, hot, cold, discarder, used, alive, epoch_data, config, up,
                 restarts, changes>>

TakeHot(k) ==
  /\ up /\ taker[k].pc = "wait" /\ hot # <<>>
  /\ hot' = Tail(hot)
  /\ taker' = [taker EXCEPT ![k] = At("received", Head(hot))]
  /\ UNCHANGED <<asset, db, cold, discarder, used, alive, due, epoch_data, config, up,
                 restarts, changes>>

TakeReceived(k) ==
  /\ up /\ taker[k].pc = "received"
  /\ \E c \in Refreshed(cold) :
         \/ /\ Satisfies(c.cond, taker[k].id)
            /\ cold' = c
            /\ taker' = [taker EXCEPT ![k] = At("taken", taker[k].id)]
         \/ /\ ~Satisfies(c.cond, taker[k].id)
            /\ cold' = AddNotSatisfied(c, taker[k].id)
            /\ taker' = [taker EXCEPT ![k] = At("loop", 0)]
  /\ due' = FALSE
  /\ UNCHANGED <<asset, db, hot, discarder, used, alive, epoch_data, config, up, restarts,
                 changes>>

TakeReturnKeepInDb(k) ==
  /\ up /\ taker[k].pc = "taken"
  /\ used' = used \cup {taker[k].id}
  /\ taker' = [taker EXCEPT ![k] = Idle]
  /\ UNCHANGED <<asset, db, hot, cold, discarder, alive, due, epoch_data, config, up,
                 restarts, changes>>

(* The asset is deleted from the database, and only then returned. *)
TakeReturn(k) ==
  /\ up /\ taker[k].pc = "taken"
  /\ db' = db \ {taker[k].id}
  /\ used' = used \cup {taker[k].id}
  /\ taker' = [taker EXCEPT ![k] = Idle]
  /\ UNCHANGED <<asset, hot, cold, discarder, alive, due, epoch_data, config, up, restarts,
                 changes>>

-----------------------------------------------------------------------------
(* maybe_discard_owned: the cold queue first, then the channel, then the database. *)

DiscardCall ==
  /\ up /\ discarder.pc = "idle"
  /\ cold' = UpdateConditionValue(cold)
  /\ due' = FALSE
  /\ discarder' = [pc |-> "cold", left |-> DiscardCount, removed |-> {}]
  /\ UNCHANGED <<asset, db, hot, taker, used, alive, epoch_data, config, up, restarts,
                 changes>>

DiscardCold ==
  /\ up /\ discarder.pc = "cold"
  /\ \/ /\ discarder.left = 0
        /\ discarder' = [discarder EXCEPT !.pc = "hot"]
        /\ UNCHANGED <<cold, due>>
     \/ /\ discarder.left > 0
        /\ \E c \in Refreshed(cold) : LET r == ColdDiscard(c) IN
             /\ cold' = r.cold
             /\ discarder' = [pc |-> r.pc, removed |-> discarder.removed \cup r.removed,
                              left |-> IF r.pc = "hot" THEN discarder.left
                                       ELSE discarder.left - 1]
        /\ due' = FALSE
  /\ UNCHANGED <<asset, db, hot, taker, used, alive, epoch_data, config, up, restarts,
                 changes>>

(* An element of the channel that fails the condition is dropped from memory only.  The
   element is received before the lock on the cold queue is taken; this is one step here. *)
DiscardHot ==
  /\ up /\ discarder.pc = "hot"
  /\ \/ /\ discarder.left = 0 \/ hot = <<>>
        /\ discarder' = [discarder EXCEPT !.pc = "delete"]
        /\ UNCHANGED <<hot, cold, due>>
     \/ /\ discarder.left > 0 /\ hot # <<>>
        /\ hot' = Tail(hot)
        /\ \E c \in Refreshed(cold) : cold' = AddIfSatisfied(c, Head(hot))
        /\ due' = FALSE
        /\ discarder' = [discarder EXCEPT !.left = @ - 1]
  /\ UNCHANGED <<asset, db, taker, used, alive, epoch_data, config, up, restarts, changes>>

DiscardDelete ==
  /\ up /\ discarder.pc = "delete"
  /\ db' = db \ discarder.removed
  /\ discarder' = NoCall
  /\ UNCHANGED <<asset, hot, cold, taker, used, alive, due, epoch_data, config, up,
                 restarts, changes>>

-----------------------------------------------------------------------------
(* Crash, and the cleanup and reload of the next start. *)

(* While the node is down the key of a peer may change, or a resharing may end. *)
Crash ==
  /\ up /\ restarts < MaxRestarts
  /\ up' = FALSE /\ restarts' = restarts + 1
  /\ hot' = <<>> /\ cold' = EmptyCold /\ discarder' = NoCall
  /\ taker' = [k \in Takers |-> Idle]
  /\ \/ UNCHANGED config
     \/ config' = [config EXCEPT !.epoch = @ + 1]
     \/ \E p \in Peers : config' = [config EXCEPT !.keys[p] = @ + 1]
  /\ UNCHANGED <<asset, db, used, alive, due, epoch_data, changes>>

(* delete_stale_triples_and_presignatures: everything of another epoch, and the assets
   with a participant whose TLS key changed.  A database without EpochData, where all is
   kept, and EpochData of the legacy format are not modelled. *)
CleanupBehavior(prev, cur, ids) ==
  LET persistent == {p \in Peers : prev.keys[p] = cur.keys[p]}
  IN  IF prev.epoch # cur.epoch THEN {}
      ELSE {id \in ids : asset[id].participants \subseteq persistent}

(* The deletions are committed first and the new EpochData after them; the node may
   crash between the two. *)
CleanupDelete ==
  /\ ~up
  /\ db' = CleanupBehavior(epoch_data, config, db)
  /\ db' # db
  /\ UNCHANGED <<asset, hot, cold, taker, discarder, used, alive, due, epoch_data, config,
                 up, restarts, changes>>

(* The owned assets are listed in the order of their keys. *)
InKeyOrder(ids) ==
  {s \in [1..Cardinality(ids) -> ids] :
     \A i, j \in 1..Cardinality(ids) : i < j => s[i] < s[j]}

Restart ==
  /\ ~up
  /\ db' = CleanupBehavior(epoch_data, config, db)
  /\ epoch_data' = config
  /\ hot' \in InKeyOrder(db')
  /\ due' = FALSE
  /\ up' = TRUE
  /\ UNCHANGED <<asset, cold, taker, discarder, used, alive, config, restarts, changes>>

Next ==
  \/ \E ps \in ParticipantSets : AddOwned(ps)
  \/ AliveChange
  \/ \E k \in Takers : TakeCall(k) \/ TakeCold(k) \/ TakeTimeout(k) \/ TakeHot(k)
                       \/ TakeReceived(k) \/ TakeReturn(k)
  \/ DiscardCall \/ DiscardCold \/ DiscardHot \/ DiscardDelete
  \/ Crash \/ CleanupDelete \/ Restart

(* A running call goes on, and a node that is down starts again. *)
Fairness ==
  /\ \A k \in Takers : WF_vars(TakeCold(k) \/ TakeTimeout(k) \/ TakeHot(k)
                               \/ TakeReceived(k) \/ TakeReturn(k))
  /\ WF_vars(DiscardCold \/ DiscardHot \/ DiscardDelete)
  /\ WF_vars(Restart)

Spec == Init /\ [][Next]_vars /\ Fairness

-----------------------------------------------------------------------------
(* Properties. *)

Ids == 1..Len(asset)

InFlight == {taker[k].id : k \in Takers} \ {0}

TypeOK ==
  /\ db \subseteq Ids /\ ToSet(hot) \subseteq Ids /\ ToSet(cold.ids) \subseteq Ids
  /\ cold.ready \in 0..cold.available /\ cold.available \in 0..Len(cold.ids)
  /\ alive \subseteq Peers /\ cold.cond \subseteq Peers
  /\ due \in BOOLEAN /\ up \in BOOLEAN
  /\ \A k \in Takers : taker[k].pc \in {"idle", "loop", "wait", "received", "taken"}
  /\ discarder.pc \in {"idle", "cold", "hot", "delete"}

(* The barriers of the cold queue: everything before cold_ready satisfies the last
   condition value, nothing from cold_available on does (the picture at ColdQueue). *)
BarriersSound ==
  \A i \in 1..Len(cold.ids) :
    /\ i <= cold.ready => Satisfies(cold.cond, cold.ids[i])
    /\ i > cold.available => ~Satisfies(cold.cond, cold.ids[i])

(* An asset has one copy in memory, and one that was used is in no place from which it
   could be taken again, not even after a crash. *)
UsedOnce ==
  /\ used \cap (db \cup ToSet(hot) \cup ToSet(cold.ids) \cup InFlight) = {}
  /\ IsInjective(hot) /\ IsInjective(cold.ids) /\ ToSet(hot) \cap ToSet(cold.ids) = {}
  /\ InFlight \cap (ToSet(hot) \cup ToSet(cold.ids)) = {}
  /\ \A k, l \in Takers : taker[k].id = taker[l].id /\ taker[k].id # 0 => k = l

(* A running node keeps no asset of another epoch, and none with a participant whose TLS
   key has changed since: the new node at that key has no share of it. *)
OwnedAssetsCurrent ==
  up => \A id \in db :
          /\ asset[id].epoch = config.epoch
          /\ \A p \in asset[id].participants : asset[id].keys[p] = config.keys[p]

(* Only maybe_discard_owned and crashes lose assets, and discarding loses only assets
   that fail the condition value in use. *)
NoUsableDiscardedStep ==
  up' => \A id \in (ToSet(hot) \cup ToSet(cold.ids)) :
           \/ id \in ToSet(hot') \cup ToSet(cold'.ids)
           \/ \E k \in Takers : taker'[k].id = id
           \/ ~Satisfies(cold'.cond, id)
NoUsableDiscarded == [][NoUsableDiscardedStep]_vars

(* A call of take_owned returns if from some time on an asset with live participants is
   in memory: changes of the condition value are noticed and the barriers never hide it. *)
TakeReturns ==
  \A k \in Takers :
    ~<>[](/\ up /\ taker[k].pc # "idle"
          /\ \E id \in ToSet(hot) \cup ToSet(cold.ids) : Satisfies(alive, id))

(* The queues, the database and the callers agree: no asset is usable twice, none is kept
   past its epoch or its participants' keys, and the barriers tell the truth. *)
StoreSound == TypeOK /\ UsedOnce /\ BarriersSound /\ OwnedAssetsCurrent
=============================================================================
