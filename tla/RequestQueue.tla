---------------------------- MODULE RequestQueue ----------------------------
(***************************************************************************)
(* The requests of one node: blocks come from the indexer, possibly from   *)
(* several forks; PendingRequests queues their requests and decides which  *)
(* to attempt as the leader; tasks compute the responses and hand them to  *)
(* the transaction sender.  The three queues of monitor_block_updates see  *)
(* the same blocks and differ only in the schemes they accept, so they are *)
(* one queue here, whose requests have a kind.                             *)
(*                                                                         *)
(* The id of a request is a receipt id, which depends on the block that    *)
(* executed the call: it occurs in one block of the tree.                  *)
(***************************************************************************)
EXTENDS RecentBlocks, Sequences, SequencesExt

CONSTANTS
  Chains,          \* trees of blocks the indexer may deliver: functions from hashes to
                   \* [height, prev_hash, last_final_block, requests, completed]
  RequestIds,      \* request ids
  RequestKind,     \* Signature, CKD or VerifyForeignTx, of each request
  Scheme,          \* domain_to_scheme of the request's domain ("none" without one)
  Participants,    \* all_participants
  Me,              \* my_participant_id
  LeaderOrder,     \* leader_selection_order of each request
  StaleThreshold,  \* STALE_PARTICIPANT_THRESHOLD
  MaxHeightDiff,   \* MAX_HEIGHT_DIFF of the network client
  MaxLeaderAttempts, \* MAX_ATTEMPTS_PER_REQUEST_AS_LEADER
  MaxNetworkChanges \* bound: changes of the peers' connections and heights

(* The final blocks of a tree: with a block its ancestors, and the parent of each but the
   lowest is the final block below it (a finalized block is never reverted). *)
IsFinalChain(c, F) ==
  /\ \A b \in DOMAIN c : c[b].last_final_block \in F \cup {NoBlock}
  /\ \A f \in F : c[f].prev_hash \in DOMAIN c => c[f].prev_hash \in F
  /\ \A f, g \in F : /\ c[f].height = c[g].height => f = g
                     /\ c[f].height < c[g].height =>
                          /\ c[g].prev_hash \in F
                          /\ c[f].height <= c[c[g].prev_hash].height

(* A request is in one block, and is answered in a descendant of that block. *)
IsBlockTree(c) ==
  /\ NoBlock \notin DOMAIN c /\ IsFiniteSet(DOMAIN c)
  /\ \A b \in DOMAIN c :
       /\ c[b].height \in Nat
       /\ c[b].prev_hash \in DOMAIN c => c[c[b].prev_hash].height < c[b].height
       /\ c[b].requests \subseteq RequestIds /\ c[b].requests \cap c[b].completed = {}
  /\ \A r \in RequestIds : \E b \in DOMAIN c :
       /\ \A d \in DOMAIN c : r \in c[d].requests <=> d = b
       /\ \A S \in SUBSET DOMAIN c :
            /\ \A d \in S : c[d].prev_hash \in DOMAIN c => c[d].prev_hash \in S
            /\ \E d \in S : r \in c[d].completed
            => b \in S
  /\ \E F \in SUBSET DOMAIN c : IsFinalChain(c, F)

ASSUME QueueAssumption ==
  /\ \A c \in Chains : IsBlockTree(c)
  /\ IsFiniteSet(Participants)
  /\ Me \in Participants
  /\ StaleThreshold \in Nat /\ MaxHeightDiff \in Nat /\ MaxLeaderAttempts \in Nat
  /\ MaxNetworkChanges \in Nat
  /\ \A r \in RequestIds : LeaderOrder[r] \in SetToAllKPermutations(Participants)

VARIABLES
  tree,            \* the tree of blocks of this behaviour
  delivered,       \* blocks the indexer has delivered
  tracker,         \* recent_blocks
  queue,           \* ids in the map `requests`
  progress,        \* computation_progress of each id
  due,             \* queued ids whose next_check_due has passed
  tasks,           \* attempts in progress
  network,         \* connected peers and indexer heights
  started,         \* whether INITIAL_STARTUP_PROCESSING_DELAY is over
  networkChanges,
  finalStream      \* ghost: the finalized blocks returned so far, in order

queueVars == <<tracker, queue, due, finalStream>>
vars == <<tree, delivered, queueVars, progress, tasks, network, started, networkChanges>>

BlockOf(r) == CHOOSE b \in DOMAIN tree : r \in tree[b].requests

-----------------------------------------------------------------------------
(* Who may lead. *)

(* all_alive_participant_ids: connected peers that are not too far behind, and me. *)
AliveParticipants(net) ==
  {Me} \cup {p \in net.connected : net.heights[Me] <= net.heights[p] + MaxHeightDiff}

MaximumHeight(net) == Max({net.heights[p] : p \in AliveParticipants(net)})

EligibleLeaders(net) ==
  {p \in AliveParticipants(net) : net.heights[p] + StaleThreshold >= MaximumHeight(net)}

(* The first eligible participant in the request's own order. *)
CurrentLeader(r, eligible) ==
  LET order == SelectSeq(LeaderOrder[r], LAMBDA p : p \in eligible)
  IN  IF order = <<>> THEN "none" ELSE order[1]

-----------------------------------------------------------------------------
(* The queue. *)

Class(t, r) == ClassifyBlock(t, BlockOf(r), tree[BlockOf(r)].height)

Discarded == {"NotIncluded", "OlderThanRecentWindow"}
Attemptable == {"RecentAndFinal", "OptimisticAndCanonical", "Unknown"}

VerdictNonCanonical(t, r, eligible) ==
  IF Class(t, r) \notin Attemptable THEN "discard"
  ELSE IF CurrentLeader(r, eligible) # Me THEN "skip"
  ELSE IF progress[r].attempts >= MaxLeaderAttempts THEN "discard"
  ELSE IF progress[r].waiting THEN "skip"
  ELSE "attempt"

VerdictAnyBlock(t, r, eligible) ==
  IF Class(t, r) = "OlderThanRecentWindow" THEN "discard"
  ELSE IF CurrentLeader(r, eligible) # Me THEN "skip"
  ELSE IF progress[r].attempts >= MaxLeaderAttempts THEN "discard"
  ELSE IF progress[r].waiting THEN "skip"
  ELSE "attempt"

VerdictUnbounded(t, r, eligible) ==
  IF Class(t, r) \in Discarded THEN "discard"
  ELSE IF \/ Class(t, r) \notin Attemptable \/ CurrentLeader(r, eligible) # Me
          \/ progress[r].waiting THEN "skip"
  ELSE IF progress[r].attempts >= MaxLeaderAttempts THEN "skip" ELSE "attempt"

(* What one check does with a queued request that has no active attempt: skip it,
   discard it or attempt it. *)
Verdict(t, r, eligible) ==
  IF Class(t, r) \in Discarded THEN "discard"
  ELSE IF Class(t, r) \notin Attemptable \/ CurrentLeader(r, eligible) # Me THEN "skip"
  ELSE IF progress[r].attempts >= MaxLeaderAttempts THEN "discard"
  ELSE IF progress[r].waiting THEN "skip"
  ELSE "attempt"

HasAttempt(r) == \E k \in tasks : k.id = r

(* get_requests_to_attempt on the tracker t and the queue q, with the ids in d due. *)
GetRequestsToAttempt(t, q, d) ==
  /\ tracker' = NotifyMaximumHeightAvailable(t, MaximumHeight(network'))
  /\ \E verdict \in {[r \in {x \in d : ~HasAttempt(x)} |->
                        Verdict(tracker', r, EligibleLeaders(network'))]} :
       LET attempted == {r \in DOMAIN verdict : verdict[r] = "attempt"}
       IN  /\ queue' = q \ {r \in DOMAIN verdict : verdict[r] = "discard"}
           /\ progress' = [r \in RequestIds |-> IF r \in attempted
                                             THEN [progress[r] EXCEPT !.attempts = @ + 1]
                                             ELSE progress[r]]
           /\ tasks' = tasks \cup {[id |-> r, attempt |-> progress[r].attempts + 1,
                                     pc |-> IF progress[r].computed THEN "submit"
                                            ELSE "compute"] : r \in attempted}
  /\ due' = {}

(* The end of every iteration of monitor_block_updates. *)
AfterEvent(t, q, d) ==
  IF started THEN GetRequestsToAttempt(t, q, d)
  ELSE tracker' = t /\ queue' = q /\ due' = d /\ UNCHANGED <<progress, tasks>>

Completed(bs) == UNION {tree[b].completed : b \in bs}

Ascending(bs) ==
  CHOOSE s \in [1..Cardinality(bs) -> bs] :
    \A i, j \in DOMAIN s : i < j => tree[s[i]].height < tree[s[j]].height

(* notify_new_block: the completed requests of the newly final blocks leave, then
   the requests of the new block enter. *)
NotifyNewBlock(b) ==
  LET new == NewFinalBlocks(tracker, b, tree[b])
      q == (queue \ Completed(new)) \cup tree[b].requests
  IN  /\ finalStream' = finalStream \o Ascending(new)
      /\ \E t \in {AddBlock(tracker, b, tree[b])} :
           AfterEvent(t, q, (due \cap q) \cup tree[b].requests)

-----------------------------------------------------------------------------
(* Initial state and actions. *)

Init ==
  /\ tree \in Chains
  /\ delivered = {}
  /\ tracker = NewTracker
  /\ queue = {}
  /\ progress = [r \in RequestIds |-> [attempts |-> 0, computed |-> FALSE, waiting |-> FALSE]]
  /\ due = {}
  /\ tasks = {}
  /\ network = [connected |-> Participants \ {Me}, heights |-> [p \in Participants |-> 0]]
  /\ started = FALSE
  /\ networkChanges = 0
  /\ finalStream = <<>>

(* The indexer delivers a block once its parent was delivered, and the loop receives it:
   update_indexer_height, notify_new_block, then the checks. *)
BlockUpdate(b) ==
  /\ b \notin delivered
  /\ tree[b].prev_hash \in DOMAIN tree => tree[b].prev_hash \in delivered
  /\ delivered' = delivered \cup {b}
  /\ network' = [network EXCEPT !.heights[Me] = Max({@, tree[b].height})]
  /\ NotifyNewBlock(b)
  /\ UNCHANGED <<tree, started, networkChanges>>

(* The loop wakes after CHECK_EACH_REQUEST_INTERVAL. *)
Wake ==
  /\ started /\ due # {}
  /\ UNCHANGED network
  /\ AfterEvent(tracker, queue, due)
  /\ UNCHANGED <<tree, delivered, started, networkChanges, finalStream>>

StartupDelayOver ==
  /\ ~started /\ started' = TRUE
  /\ UNCHANGED <<tree, delivered, queueVars, progress, tasks, network, networkChanges>>

(* The clock passes the next_check_due of every request. *)
ChecksDue ==
  /\ due # queue /\ due' = queue
  /\ UNCHANGED <<tree, delivered, tracker, queue, finalStream, progress, tasks, network,
                 started, networkChanges>>

(* MAX_LATENCY_BEFORE_EXPECTING_TRANSACTION_TO_FINALIZE passes after a submission. *)
LatencyOver(r) ==
  /\ progress[r].waiting
  /\ progress' = [progress EXCEPT ![r].waiting = FALSE]
  /\ UNCHANGED <<tree, delivered, queueVars, tasks, network, started, networkChanges>>

(* The schemes with which a request of each kind can be answered. *)
AcceptsSignature(scheme) == scheme \in {"Secp256k1", "Ed25519", "V2Secp256k1"}
AcceptsCKD(scheme) == scheme = "Bls12381"
AcceptsVerifyForeignTx(scheme) == scheme = "Secp256k1"

Accepts(r) ==
  CASE RequestKind[r] = "Signature" -> AcceptsSignature(Scheme[r])
    [] RequestKind[r] = "CKD" -> AcceptsCKD(Scheme[r])
    [] RequestKind[r] = "VerifyForeignTx" -> AcceptsVerifyForeignTx(Scheme[r])

(* The computation of a task succeeds; its response is kept for later attempts. *)
Compute(k) ==
  /\ k \in tasks /\ k.pc = "compute" /\ Accepts(k.id)
  /\ tasks' = (tasks \ {k}) \cup {[k EXCEPT !.pc = "submit"]}
  /\ progress' = [progress EXCEPT ![k.id].computed = TRUE]
  /\ UNCHANGED <<tree, delivered, queueVars, network, started, networkChanges>>

(* It fails, times out, or has a scheme the request cannot use: the attempt is dropped. *)
ComputeFails(k) ==
  /\ k \in tasks /\ k.pc = "compute"
  /\ tasks' = tasks \ {k}
  /\ UNCHANGED <<tree, delivered, queueVars, progress, network, started, networkChanges>>

(* The response goes to the transaction sender and last_response_submission is set. *)
Submit(k) ==
  /\ k \in tasks /\ k.pc = "submit"
  /\ tasks' = tasks \ {k}
  /\ progress' = [progress EXCEPT ![k.id].waiting = TRUE]
  /\ UNCHANGED <<tree, delivered, queueVars, network, started, networkChanges>>

(* Peers connect and disconnect, and their indexers advance. *)
NetworkChange ==
  /\ networkChanges < MaxNetworkChanges /\ networkChanges' = networkChanges + 1
  /\ \/ \E c \in SUBSET (Participants \ {Me}) :
          c # network.connected /\ network' = [network EXCEPT !.connected = c]
     \/ \E p \in Participants \ {Me}, h \in {tree[b].height : b \in DOMAIN tree} :
          h > network.heights[p] /\ network' = [network EXCEPT !.heights[p] = h]
  /\ UNCHANGED <<tree, delivered, queueVars, progress, tasks, started>>

Next ==
  \/ \E b \in DOMAIN tree : BlockUpdate(b)
  \/ Wake \/ StartupDelayOver \/ ChecksDue
  \/ \E r \in RequestIds : LatencyOver(r)
  \/ \E k \in tasks : Compute(k) \/ ComputeFails(k) \/ Submit(k)
  \/ NetworkChange

(* The loop runs, clocks advance and computations end by their timeout; the indexer and
   the network owe nothing. *)
Fairness ==
  /\ WF_vars(Wake) /\ WF_vars(StartupDelayOver) /\ WF_vars(ChecksDue)
  /\ \A r \in RequestIds : WF_vars(LatencyOver(r))
  /\ WF_vars(\E k \in tasks : Compute(k) \/ ComputeFails(k) \/ Submit(k))

Spec == Init /\ [][Next]_vars /\ Fairness
-----------------------------------------------------------------------------
(* Properties. *)

TypeOK ==
  /\ tree \in Chains /\ delivered \subseteq DOMAIN tree
  /\ Hashes(tracker) \subseteq delivered
  /\ {tracker.canonical_head, tracker.final_head} \subseteq Hashes(tracker) \cup {NoBlock}
  /\ queue \subseteq RequestIds /\ due \subseteq queue
  /\ progress \in [RequestIds -> [attempts : 0..MaxLeaderAttempts, computed : BOOLEAN,
                                waiting : BOOLEAN]]
  /\ tasks \subseteq [id : RequestIds, attempt : 1..MaxLeaderAttempts,
                       pc : {"compute", "submit"}]
  /\ network.connected \subseteq Participants \ {Me}
  /\ started \in BOOLEAN /\ networkChanges \in 0..MaxNetworkChanges

(* The blocks flagged canonical are exactly the chain of the canonical head, whatever
   forks, pruning and reorganisations happened (update_canonical_head marks and unmarks
   only up to a common ancestor). *)
CanonicalIsAncestry ==
  {x \in Hashes(tracker) : tracker.nodes[x].canonical} =
    IF tracker.canonical_head = NoBlock THEN {}
    ELSE Ancestry(tracker, tracker.canonical_head)

(* The new final blocks returned by the calls of add_block form one contiguous stream:
   each is the child of the one before (the guarantee stated at AddBlockResult). *)
FinalStreamContiguous ==
  \A i \in 1..(Len(finalStream) - 1) :
    tree[finalStream[i + 1]].prev_hash = finalStream[i]

(* A request that can still be answered stays queued: its block was received, is in the
   recent window and not orphaned, no final block has its response, and this node has
   attempts left. *)
RequestNotForgotten ==
  \A r \in RequestIds :
    /\ BlockOf(r) \in delivered
    /\ Class(tracker, r) \notin Discarded
    /\ r \notin Completed(Range(finalStream))
    /\ progress[r].attempts < MaxLeaderAttempts
    => r \in queue

(* A request has one attempt at a time, and a response that was computed is submitted
   again rather than computed again. *)
NoRedundantComputation ==
  /\ \A k1, k2 \in tasks : k1.id = k2.id => k1 = k2
  /\ \A k \in tasks : (k.pc = "compute") <=> ~progress[k.id].computed

(* No attempt starts for a request whose response is in a final block, or whose block
   finality has passed by: some final block is as high, and its own block is not final
   (NotIncluded of classify_block). *)
NoFutileAttemptStep ==
  \A r \in RequestIds :
    progress'[r].attempts > progress[r].attempts =>
      /\ r \notin Completed(Range(finalStream'))
      /\ \A f \in Range(finalStream') :
           tree[f].height >= tree[BlockOf(r)].height => BlockOf(r) \in Range(finalStream')
NoFutileAttempt == [][NoFutileAttemptStep]_vars

(* If from some moment on this node leads a request of a final block, the request leaves
   the queue: it is answered, or given up after the last attempt. *)
ServedByLeader ==
  \A r \in RequestIds :
    <>[](r \in queue => /\ BlockOf(r) \in Range(finalStream)
                        /\ CurrentLeader(r, EligibleLeaders(network)) = Me)
      => <>[](r \notin queue \/ BlockOf(r) \notin delivered)

(* Forks and reorganisations leave one canonical chain and one stream of final blocks. *)
BlocksSound == CanonicalIsAncestry /\ FinalStreamContiguous

(* Requests are neither forgotten nor worked on twice. *)
RequestsSound == TypeOK /\ RequestNotForgotten /\ NoRedundantComputation
=============================================================================
