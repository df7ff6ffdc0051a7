---------------------------- MODULE RecentBlocks ----------------------------
(***************************************************************************)
(* RecentBlocksTracker: the topology of the recent blocks, kept from the   *)
(* blocks the indexer gives.  A tracker is a record; its nodes map the     *)
(* hash of each block kept to its height, its parent (NoBlock for the      *)
(* children of the root) and the flags canonical and is_final.             *)
(***************************************************************************)
EXTENDS Integers, FiniteSets, FiniteSetsExt, Functions

CONSTANT WindowSize       \* REQUEST_EXPIRATION_BLOCKS

ASSUME WindowAssumption == WindowSize \in Nat \ {0}

NoBlock == "none"

NewTracker == [nodes |-> <<>>, canonical_head |-> NoBlock, final_head |-> NoBlock,
               maximum_height_available |-> 0]

Hashes(t) == DOMAIN t.nodes

HeightOf(t, h) == t.nodes[h].height

(* Sets of blocks that contain the parents of their members. *)
ParentClosed(t, S) == {t.nodes[x].parent : x \in S} \subseteq S \cup {NoBlock}

(* A node and its ancestors, as far as the parent links go. *)
Ancestry(t, h) ==
  LET closed == {S \in SUBSET Hashes(t) : h \in S /\ ParentClosed(t, S)}
  IN  {x \in Hashes(t) : \A S \in closed : x \in S}

SaturatingSub(a, b) == IF a > b THEN a - b ELSE 0

(* The lowest height of the recent window. *)
WindowStart(t) == SaturatingSub(t.maximum_height_available, WindowSize) + 1

-----------------------------------------------------------------------------
NewlyFinalNoWalk(t, potential) ==
  IF potential \notin Hashes(t) \/ t.nodes[potential].is_final THEN {} ELSE {potential}

(* The blocks that become final with `potential`: it and its ancestors up to
   the first that is final already, which ends the walk. *)
NewlyFinal(t, potential) ==
  LET walk == IF potential \in Hashes(t) THEN Ancestry(t, potential) ELSE {}
  IN  {x \in walk : \A y \in walk : HeightOf(t, y) >= HeightOf(t, x) => ~t.nodes[y].is_final}

MaybeUpdateFinalHead(t, potential) ==
  LET new == NewlyFinal(t, potential)
      higher == /\ potential \in Hashes(t)
                /\ \/ t.final_head = NoBlock
                   \/ HeightOf(t, t.final_head) < HeightOf(t, potential)
  IN  [t EXCEPT !.nodes = [x \in Hashes(t) |->
                             [t.nodes[x] EXCEPT !.is_final = @ \/ x \in new]],
                !.final_head = IF higher THEN potential ELSE @]

(* Marks the chain of h up to the first canonical block, the common ancestor,
   and unmarks the old chain above that ancestor (all of it without one). *)
UpdateCanonicalHead(t, h) ==
  LET new == Ancestry(t, h)
      common == {x \in new : t.nodes[x].canonical}
      fork == IF common = {} THEN -1 ELSE Max({HeightOf(t, x) : x \in common})
      marked == {x \in new : HeightOf(t, x) > fork}
      unmarked == IF t.canonical_head = NoBlock THEN {}
                  ELSE {x \in Ancestry(t, t.canonical_head) : HeightOf(t, x) > fork}
  IN  [t EXCEPT !.nodes = [x \in Hashes(t) |->
                             [t.nodes[x] EXCEPT !.canonical =
                                 (@ \/ x \in marked) /\ x \notin unmarked]],
                !.canonical_head = h]

(* None without a final head; the final head itself is never pruned. *)
MinimumHeightToKeep(t) ==
  IF t.final_head = NoBlock THEN 0
  ELSE Min({WindowStart(t), HeightOf(t, t.final_head)})

PruneOldBlocks(t) ==
  LET kept == {x \in Hashes(t) : HeightOf(t, x) >= MinimumHeightToKeep(t)}
  IN  [t EXCEPT !.nodes = [x \in kept |->
                             [t.nodes[x] EXCEPT !.parent = IF @ \in kept THEN @ ELSE NoBlock]]]

(* The tracker with a new node, a child of its parent or of the root. *)
WithNode(t, hash, block) ==
  [t EXCEPT !.nodes = [x \in Hashes(t) \cup {hash} |->
     IF x # hash THEN t.nodes[x]
     ELSE [height |-> block.height,
           parent |-> IF block.prev_hash \in Hashes(t) THEN block.prev_hash ELSE NoBlock,
           canonical |-> FALSE, is_final |-> FALSE]]]

(* add_block for a block that is not in the tracker. *)
AddBlock(t, hash, block) ==
  LET final == MaybeUpdateFinalHead(WithNode(t, hash, block), block.last_final_block)
      head == IF \/ t.canonical_head = NoBlock
                 \/ block.height > HeightOf(t, t.canonical_head)
              THEN UpdateCanonicalHead(final, hash)
              ELSE final
  IN  PruneOldBlocks([head EXCEPT !.maximum_height_available = Max({@, block.height})])

(* The newly final blocks add_block returns. *)
NewFinalBlocks(t, hash, block) ==
  NewlyFinal(WithNode(t, hash, block), block.last_final_block)

NotifyMaximumHeightAvailable(t, height) ==
  IF height > t.maximum_height_available
  THEN PruneOldBlocks([t EXCEPT !.maximum_height_available = height])
  ELSE t

ClassifyBlock(t, hash, height) ==
  CASE WindowStart(t) > height -> "OlderThanRecentWindow"
    [] WindowStart(t) <= height /\ hash \notin Hashes(t) -> "Unknown"
    [] OTHER ->
         IF t.nodes[hash].is_final THEN "RecentAndFinal"
         ELSE IF t.final_head # NoBlock /\ height <= HeightOf(t, t.final_head)
              THEN "NotIncluded"
         ELSE IF t.nodes[hash].canonical THEN "OptimisticAndCanonical"
         ELSE "OptimisticButNotCanonical"
=============================================================================
