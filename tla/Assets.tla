------------------------------- MODULE Assets -------------------------------
(***************************************************************************)
(* The life of triples and presignatures across the nodes: background      *)
(* generation led by their owner, their use in presigning and signing,     *)
(* the shares the followers keep, the ids that name them, and crashes.     *)
(* A computation is seen through what perform_leader_centric_computation   *)
(* gives (module TaskChannels): a participant finishes the protocol only   *)
(* if all of them took part in it, may fail at any point, and a leader     *)
(* that waits succeeds only after all followers did.  The store of a node  *)
(* is its database (module AssetStore has the copies in memory).           *)
(***************************************************************************)
EXTENDS Integers, FiniteSets, Sequences

CONSTANTS
  Node,          \* participants, numbers
  Threshold,     \* participants of a generation
  Owners,        \* nodes that lead tasks in the model
  Scenarios,     \* sets of task kinds that run together
  Desired,       \* desired_*_to_buffer
  BatchSize,     \* SUPPORTED_TRIPLE_GENERATION_BATCH_SIZE, 64 in the code
  MaxTasks,      \* bound: tasks ever started
  MaxRequests,   \* bound: of them, attempts at requests
  MaxFaults      \* bound: crashes, and participants that fail by themselves

ASSUME AssetsAssumption ==
  /\ Owners \subseteq Node /\ Threshold \in 1..Cardinality(Node)
  /\ Desired \in Nat /\ BatchSize \in Nat \ {0} /\ BatchSize % 2 = 0
  /\ MaxTasks \in Nat /\ MaxRequests \in Nat /\ MaxFaults \in Nat

VARIABLES
  kinds,     \* the task kinds of this behaviour
  store,     \* store[n]: shares in the database of node n
  last_id,   \* last_id[n][a]: last reserved id of asset a, volatile
  clock,     \* seconds
  tasks,     \* sequence of tasks
  up,
  stopped,   \* nodes whose loop for presignatures of the robust scheme has returned
  faults

vars == <<kinds, store, last_id, clock, tasks, up, stopped, faults>>

AssetKinds == {"triple", "presignature"}
None == [owner |-> 0, timestamp |-> 0, counter |-> 0]

(* What the kinds of tasks consume, produce and wait for.  The robust scheme needs no
   triples; EdDSA signatures and confidential keys need no asset at all. *)
Consumes(k) ==
  IF k = "presign" THEN "triple"
  ELSE IF k \in {"sign", "robust_sign", "verify_foreign_tx"} THEN "presignature" ELSE "nothing"
Produces(k) ==
  IF k = "triples" THEN "triple"
  ELSE IF k \in {"presign", "robust_presign"} THEN "presignature" ELSE "nothing"
LeaderNeverWaits(k) == FALSE
LeaderWaitsForSuccess(k) == Produces(k) # "nothing"

-----------------------------------------------------------------------------
(* Unique ids. *)

(* pick_new_after: a new second, or the next counter of the last one. *)
PickNewAfter(id) ==
  IF clock > id.timestamp THEN [id EXCEPT !.timestamp = clock, !.counter = 0]
                          ELSE [id EXCEPT !.counter = @ + 1]

AddToCounter(id, delta) == [id EXCEPT !.counter = @ + delta]

Start(n, a) ==
  IF last_id[n][a] = None THEN [owner |-> n, timestamp |-> clock, counter |-> 0]
                          ELSE PickNewAfter(last_id[n][a])

Less(i, j) == i.timestamp < j.timestamp \/ (i.timestamp = j.timestamp /\ i.counter < j.counter)

(* The ids of the assets that a task of kind k with first id `id` makes: a batch of triples
   becomes half as many pairs. *)
ManyTriples(id) == {AddToCounter(id, i) : i \in 0..(BatchSize \div 2 - 1)}
Outputs(k, id) ==
  IF Produces(k) = "nothing" THEN {} ELSE IF k = "triples" THEN ManyTriples(id) ELSE {id}
Reserved(k) == IF k = "triples" THEN BatchSize ELSE 1

-----------------------------------------------------------------------------
(* Stores. *)

Share(a, id, ps, task) == [asset |-> a, id |-> id, participants |-> ps, task |-> task]
Owned(n, a) == {s \in store[n] : s.asset = a /\ s.id.owner = n}
Usable(n, a) == {s \in Owned(n, a) : s.participants \subseteq up}

(* add_owned and add_unowned: put under the key of the id. *)
Put(st, new) ==
  {s \in st : \A t \in new : ~(t.asset = s.asset /\ t.id = s.id)} \cup new

-----------------------------------------------------------------------------
(* Tasks. *)

Leads(n, k) == {t \in DOMAIN tasks : tasks[t].leader = n /\ tasks[t].kind = k}
InFlight(n, k) == {t \in Leads(n, k) : tasks[t].state[n] \in {"inspecting", "computing"}}

NeedsMoreLeaky(n, k) ==
  /\ \A t \in Leads(n, k) : tasks[t].state[n] = "done"
  /\ Cardinality(Usable(n, Produces(k))) < Desired

(* should_generate, with one computation at a time; a task that ends in any way is no longer
   in flight.  num_owned leaves out what is known to have an offline participant: an asset
   becomes known as such when somebody tries to take or to discard it. *)
NeedsMore(n, k) ==
  /\ Cardinality(Usable(n, Produces(k))) + Cardinality(InFlight(n, k)) * Reserved(k) < Desired
  /\ InFlight(n, k) = {}

(* select_random_active_participants_including_me. *)
Selected(n, ps) == n \in ps /\ ps \subseteq up /\ Cardinality(ps) = Threshold

NewTask(n, k, ps, id, input, state) ==
  [kind |-> k, leader |-> n, participants |-> ps, id |-> id, input |-> input,
   contributed |-> IF state = "computing" THEN {n} ELSE {},
   state |-> [p \in ps |-> IF p = n THEN state ELSE "starting"]]

Init ==
  /\ kinds \in Scenarios
  /\ store = [n \in Node |-> {}]
  /\ last_id = [n \in Node |-> [a \in AssetKinds |-> None]]
  /\ clock = 1 /\ tasks = <<>> /\ up = Node /\ stopped = {} /\ faults = 0

(* generate_and_reserve_id_range: the last id of the range is remembered. *)
Reserve(n, a, id, count) == [last_id EXCEPT ![n][a] = AddToCounter(id, count - 1)]

TakeOwnedKeep(n, s) == store

(* take_owned deletes the asset before it is used. *)
TakeOwned(n, s) == [store EXCEPT ![n] = @ \ {s}]

MayStart(n, k) ==
  /\ n \in up /\ k \in kinds /\ Len(tasks) < MaxTasks
  /\ Produces(k) = "nothing" =>
       Cardinality({t \in DOMAIN tasks : Produces(tasks[t].kind) = "nothing"}) < MaxRequests

(* new_channel_for_task either opens the channel, or fails because a participant has just
   become unreachable. *)
Opens(n, k, ps, id, input, state) ==
  /\ tasks' = Append(tasks, NewTask(n, k, ps, id, input, state))
  /\ UNCHANGED <<stopped, faults>>
Unreachable(n, ps) ==
  /\ ps # {n} /\ faults < MaxFaults /\ faults' = faults + 1
  /\ UNCHANGED tasks

-----------------------------------------------------------------------------
(* Background generation at the owner.  A generation whose channel fails is skipped, ids and
   a taken pair of triples being lost; the loop of the robust scheme returns instead. *)

RunBackgroundTripleGeneration(n, ps) ==
  /\ MayStart(n, "triples") /\ NeedsMore(n, "triples") /\ Selected(n, ps)
  /\ LET id == Start(n, "triple") IN
       /\ last_id' = Reserve(n, "triple", id, BatchSize)
       /\ \/ Opens(n, "triples", ps, id, None, "computing")
          \/ Unreachable(n, ps) /\ UNCHANGED stopped
  /\ UNCHANGED <<kinds, store, clock, up>>

(* The id is reserved, then a pair of triples is taken, whose participants are those of the
   computation. *)
RunBackgroundPresignatureGeneration(n, s) ==
  /\ MayStart(n, "presign") /\ NeedsMore(n, "presign") /\ s \in Usable(n, "triple")
  /\ LET id == Start(n, "presignature") IN
       /\ last_id' = Reserve(n, "presignature", id, 1)
       /\ \/ Opens(n, "presign", s.participants, id, s, "computing")
          \/ Unreachable(n, s.participants) /\ UNCHANGED stopped
  /\ store' = TakeOwned(n, s)
  /\ UNCHANGED <<kinds, clock, up>>

RobustRunBackgroundPresignatureGeneration(n, ps) ==
  /\ MayStart(n, "robust_presign") /\ n \notin stopped
  /\ NeedsMore(n, "robust_presign") /\ Selected(n, ps)
  /\ LET id == Start(n, "presignature") IN
       /\ last_id' = Reserve(n, "presignature", id, 1)
       /\ \/ Opens(n, "robust_presign", ps, id, None, "computing")
          \/ Unreachable(n, ps) /\ stopped' = stopped \cup {n}
  /\ UNCHANGED <<kinds, store, clock, up>>

(* maybe_discard_owned when num_owned is the desired number: an asset whose participants
   are not all alive. *)
Discard(n, a, s) ==
  /\ n \in up /\ s \in Owned(n, a) \ Usable(n, a)
  /\ Desired \in Cardinality(Usable(n, a))..Cardinality(Owned(n, a))
  /\ store' = [store EXCEPT ![n] = @ \ {s}]
  /\ UNCHANGED <<kinds, last_id, clock, tasks, up, stopped, faults>>

-----------------------------------------------------------------------------
(* Requests at their leader.  Every attempt takes a presignature of its own, and loses it if
   the channel fails. *)

SignWith(n, k, s, state) ==
  /\ MayStart(n, k) /\ s \in Usable(n, "presignature")
  /\ \/ Opens(n, k, s.participants, None, s, state)
     \/ Unreachable(n, s.participants) /\ UNCHANGED stopped
  /\ store' = TakeOwned(n, s)
  /\ UNCHANGED <<kinds, last_id, clock, up>>
SignWithout(n, k, ps) ==
  /\ MayStart(n, k) /\ Selected(n, ps)
  /\ \/ Opens(n, k, ps, None, None, "computing")
     \/ Unreachable(n, ps) /\ UNCHANGED stopped
  /\ UNCHANGED <<kinds, store, last_id, clock, up>>

MakeSignatureLeader(n, s) == SignWith(n, "sign", s, "computing")
RobustMakeSignatureLeader(n, s) == SignWith(n, "robust_sign", s, "computing")
EddsaMakeSignatureLeader(n, ps) == SignWithout(n, "eddsa", ps)
MakeCkdLeader(n, ps) == SignWithout(n, "ckd", ps)

(* The channel is opened before the foreign chain is asked. *)
MakeVerifyForeignTxLeader(n, s) == SignWith(n, "verify_foreign_tx", s, "inspecting")

(* execute_foreign_chain_request answers; its failure is a ParticipantFails. *)
ExecuteForeignChainRequest(t) ==
  LET n == tasks[t].leader IN
  /\ n \in up /\ tasks[t].state[n] = "inspecting"
  /\ tasks' = [tasks EXCEPT ![t].state[n] = "computing", ![t].contributed = @ \cup {n}]
  /\ UNCHANGED <<kinds, store, last_id, clock, up, stopped, faults>>

-----------------------------------------------------------------------------
(* Followers.  process_channel finds the handler of the task; a follower takes its share of
   the input from its store when it begins to compute, or fails. *)

WithState(t, p, s) == [tasks EXCEPT ![t].state[p] = s]

Begins(t, p, k) ==
  /\ p \in up /\ tasks[t].state[p] = "starting" /\ tasks[t].kind = k
  /\ UNCHANGED <<kinds, last_id, clock, up, stopped, faults>>
Computes(t, p) == tasks' = [WithState(t, p, "computing") EXCEPT ![t].contributed = @ \cup {p}]

TakeUnowned(t, p) ==
  LET shares == {s \in store[p] : s.asset = Consumes(tasks[t].kind) /\ s.id = tasks[t].input.id}
  IN  \/ shares # {} /\ Computes(t, p) /\ store' = [store EXCEPT ![p] = @ \ shares]
      \/ shares = {} /\ tasks' = WithState(t, p, "failed") /\ UNCHANGED store

RunTripleGenerationFollower(t, p) == Begins(t, p, "triples") /\ Computes(t, p) /\ UNCHANGED store
RunPresignatureGenerationFollower(t, p) == Begins(t, p, "presign") /\ TakeUnowned(t, p)
RobustRunPresignatureGenerationFollower(t, p) ==
  Begins(t, p, "robust_presign") /\ Computes(t, p) /\ UNCHANGED store
MakeSignatureFollower(t, p) == Begins(t, p, "sign") /\ TakeUnowned(t, p)
RobustMakeSignatureFollower(t, p) == Begins(t, p, "robust_sign") /\ TakeUnowned(t, p)
EddsaMakeSignatureFollower(t, p) == Begins(t, p, "eddsa") /\ Computes(t, p) /\ UNCHANGED store
MakeCkdFollower(t, p) == Begins(t, p, "ckd") /\ Computes(t, p) /\ UNCHANGED store
MakeVerifyForeignTxFollower(t, p) == Begins(t, p, "verify_foreign_tx") /\ TakeUnowned(t, p)

MadeBy(t) == {Share(Produces(tasks[t].kind), id, tasks[t].participants, t)
                : id \in Outputs(tasks[t].kind, tasks[t].id)}

(* The protocol returns at a follower: the output is stored before Success is sent. *)
FollowerDone(t, p) ==
  /\ p \in up /\ p # tasks[t].leader /\ tasks[t].state[p] = "computing"
  /\ tasks[t].contributed = tasks[t].participants
  /\ store' = [store EXCEPT ![p] = Put(@, MadeBy(t))]
  /\ tasks' = WithState(t, p, "done")
  /\ UNCHANGED <<kinds, last_id, clock, up, stopped, faults>>

FollowersSucceeded(t) ==
  \A p \in tasks[t].participants \ {tasks[t].leader} : tasks[t].state[p] = "done"

(* The protocol returns at the leader, which waits for Success if the task makes an asset
   and then adds the asset to its own store. *)
LeaderDone(t) ==
  LET n == tasks[t].leader IN
  /\ n \in up /\ tasks[t].state[n] = "computing"
  /\ tasks[t].contributed = tasks[t].participants
  /\ LeaderWaitsForSuccess(tasks[t].kind) => FollowersSucceeded(t)
  /\ store' = [store EXCEPT ![n] = Put(@, MadeBy(t))]
  /\ tasks' = WithState(t, n, "done")
  /\ UNCHANGED <<kinds, last_id, clock, up, stopped, faults>>

(* A participant fails: a timeout, a lost connection, or an Abort; in a verification of a
   foreign transaction also a query of the foreign chain, of which the leader tells no one. *)
ParticipantFails(t, p) ==
  /\ p \in up /\ tasks[t].state[p] \in {"starting", "inspecting", "computing"}
  /\ faults < MaxFaults /\ faults' = faults + 1
  /\ tasks' = WithState(t, p, "failed")
  /\ UNCHANGED <<kinds, store, last_id, clock, up, stopped>>

(* Once a participant has failed, the others time out sooner or later. *)
GivesUp(t, p) ==
  /\ p \in up /\ tasks[t].state[p] \in {"starting", "inspecting", "computing"}
  /\ \E q \in tasks[t].participants : tasks[t].state[q] = "failed"
  /\ tasks' = WithState(t, p, "failed")
  /\ UNCHANGED <<kinds, store, last_id, clock, up, stopped, faults>>

-----------------------------------------------------------------------------
(* Crashes and the clock. *)

Crash(n) ==
  /\ n \in up /\ faults < MaxFaults /\ faults' = faults + 1
  /\ up' = up \ {n}
  /\ tasks' = [t \in DOMAIN tasks |->
                 IF n \in tasks[t].participants /\ tasks[t].state[n] # "done"
                 THEN [tasks[t] EXCEPT !.state[n] = "failed"] ELSE tasks[t]]
  /\ last_id' = [last_id EXCEPT ![n] = [a \in AssetKinds |-> None]]
  /\ UNCHANGED <<kinds, store, clock, stopped>>

(* DistributedAssetStorage::new takes the highest owned id of the database, if there is one. *)
IsHighest(n, a, id) ==
  IF Owned(n, a) = {} THEN id = None
  ELSE \E s \in Owned(n, a) : id = s.id /\ \A r \in Owned(n, a) : ~Less(id, r.id)

(* The clock has moved on by a second: the assumption of the TODO at
   generate_and_reserve_id. *)
Restart(n) ==
  /\ n \notin up
  /\ up' = up \cup {n}
  /\ clock' = clock + 1
  /\ stopped' = stopped \ {n}
  /\ \E ids \in [AssetKinds -> {None} \cup {s.id : s \in store[n]}] :
       /\ \A a \in AssetKinds : IsHighest(n, a, ids[a])
       /\ last_id' = [last_id EXCEPT ![n] = ids]
  /\ UNCHANGED <<kinds, store, tasks, faults>>

EcdsaSpawnBackgroundTasks(n) ==
  \/ \E ps \in SUBSET Node : RunBackgroundTripleGeneration(n, ps)
  \/ \E s \in store[n] : RunBackgroundPresignatureGeneration(n, s)
RobustSpawnBackgroundTasks(n) ==
  \E ps \in SUBSET Node : RobustRunBackgroundPresignatureGeneration(n, ps)
Background(n) == EcdsaSpawnBackgroundTasks(n) \/ RobustSpawnBackgroundTasks(n)

Request(n) ==
  \/ \E s \in store[n] : \/ MakeSignatureLeader(n, s)
                        \/ RobustMakeSignatureLeader(n, s)
                        \/ MakeVerifyForeignTxLeader(n, s)
  \/ \E ps \in SUBSET Node : EddsaMakeSignatureLeader(n, ps) \/ MakeCkdLeader(n, ps)

(* process_channel_task hands a channel to the provider of its task. *)
EcdsaProcessChannel(t, p) ==
  \/ RunTripleGenerationFollower(t, p)
  \/ RunPresignatureGenerationFollower(t, p)
  \/ MakeSignatureFollower(t, p)
RobustProcessChannel(t, p) ==
  \/ RobustRunPresignatureGenerationFollower(t, p)
  \/ RobustMakeSignatureFollower(t, p)
EddsaProcessChannel(t, p) == EddsaMakeSignatureFollower(t, p)
CkdProcessChannel(t, p) == MakeCkdFollower(t, p)
VerifyForeignTxProcessChannel(t, p) == MakeVerifyForeignTxFollower(t, p)
ProcessChannelTask(t, p) ==
  \/ EcdsaProcessChannel(t, p)
  \/ RobustProcessChannel(t, p)
  \/ EddsaProcessChannel(t, p)
  \/ CkdProcessChannel(t, p)
  \/ VerifyForeignTxProcessChannel(t, p)

Progress ==
  \E t \in DOMAIN tasks :
    \/ ExecuteForeignChainRequest(t)
    \/ LeaderDone(t)
    \/ \E p \in tasks[t].participants : ProcessChannelTask(t, p) \/ FollowerDone(t, p) \/ GivesUp(t, p)

Next ==
  \/ \E n \in Owners : Background(n) \/ Request(n)
  \/ \E n \in Owners, a \in AssetKinds : \E s \in store[n] : Discard(n, a, s)
  \/ Progress
  \/ \E t \in DOMAIN tasks : \E p \in tasks[t].participants : ParticipantFails(t, p)
  \/ \E n \in Node : Crash(n) \/ Restart(n)

(* Computations go on or time out, the background loops run, and nodes come back. *)
Fairness ==
  /\ WF_vars(Progress)
  /\ \A n \in Owners : WF_vars(Background(n))
  /\ \A n \in Node : WF_vars(Restart(n))

Spec == Init /\ [][Next]_vars /\ Fairness

-----------------------------------------------------------------------------
(* Properties. *)

(* A node keeps shares of its own computations only, at most one per asset and id, and the
   ids it reserves are its own. *)
TypeOK ==
  /\ \A n \in Node : \A s \in store[n] : s.asset \in AssetKinds /\ n \in s.participants
  /\ \A n \in Node, a \in AssetKinds :
       \A s, t \in store[n] : (s.asset = a /\ t.asset = a /\ s.id = t.id) => s = t
  /\ \A n \in Node, a \in AssetKinds : last_id[n][a] = None \/ (last_id[n][a].owner = n /\ last_id[n][a].counter \in Nat)
  /\ up \subseteq Node
  /\ \A t \in DOMAIN tasks : tasks[t].contributed \subseteq tasks[t].participants

(* An asset in the store of its owner has a share, made in the same computation, in the
   store of each of its participants: the owner can use it at any time. *)
OwnedBacked ==
  \A n \in Node, a \in AssetKinds : \A s \in Owned(n, a) : \A p \in s.participants : s \in store[p]

(* The participants use a presignature, and a pair of triples, in one computation only,
   whatever crashes, retries and late starts there are: a presignature used for two
   messages gives the key away. *)
UsedIn(s) == {t \in DOMAIN tasks : tasks[t].input = s}
UsedInOneComputation ==
  \A t \in DOMAIN tasks : tasks[t].input # None =>
    /\ UsedIn(tasks[t].input) = {t}
    /\ tasks[t].input \notin store[tasks[t].leader]
    /\ \A p \in tasks[t].contributed : tasks[t].input \notin store[p]

(* Ids are never given out twice, also across restarts, so that a follower never takes a
   share of another computation. *)
IdsFresh ==
  \A t, u \in DOMAIN tasks :
    (t # u /\ Produces(tasks[t].kind) = Produces(tasks[u].kind))
      => Outputs(tasks[t].kind, tasks[t].id) \cap Outputs(tasks[u].kind, tasks[u].id) = {}

(* Generation never stalls: when faults stop, every owner's buffer is full again, unless
   the bound on tasks is reached or the loop of the robust scheme has returned.  Failed
   computations give their place back. *)
Refilled(n) == \A k \in kinds : Produces(k) # "nothing" => Cardinality(Usable(n, Produces(k))) >= Desired
BufferRefilled == <>[](Len(tasks) = MaxTasks \/ \A n \in Owners : n \in stopped \/ Refilled(n))

(* An asset is used in one computation, under an id that names no other. *)
UsedSafely == UsedInOneComputation /\ IdsFresh

(* What an owner keeps, its participants can use with it. *)
StoresSound == TypeOK /\ OwnedBacked
=============================================================================
