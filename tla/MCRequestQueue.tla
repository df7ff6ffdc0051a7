--------------------------- MODULE MCRequestQueue ---------------------------
(***************************************************************************)
(* One node with two requests on small block trees: a straight chain, a    *)
(* fork that loses, a fork of two blocks of one height, and two forks      *)
(* whose common parent was never delivered, of which the later one wins.   *)
(***************************************************************************)
EXTENDS RequestQueue

Tree(parent, height) ==
  LET final[b \in DOMAIN parent] ==
        LET p == parent[b]
            g == IF p \in DOMAIN parent THEN parent[p] ELSE NoBlock
        IN  IF p \notin DOMAIN parent THEN NoBlock
            ELSE IF /\ g # NoBlock /\ g # "genesis"
                    /\ height[b] = height[p] + 1 /\ height[p] = height[g] + 1
                 THEN g ELSE final[p]
  IN  [b \in DOMAIN parent |-> [height |-> height[b], prev_hash |-> parent[b],
                                last_final_block |-> final[b]]]

Fill(shape, at, done) ==
  [b \in DOMAIN shape |-> [height |-> shape[b].height, prev_hash |-> shape[b].prev_hash,
                          last_final_block |-> shape[b].last_final_block,
                          requests |-> {r \in RequestIds : at[r] = b},
                          completed |-> {r \in RequestIds : done[r] = b}]]

Straight ==
  Tree([a1 |-> "genesis", a2 |-> "a1", a3 |-> "a2", a4 |-> "a3", a5 |-> "a4", a6 |-> "a5"],
       [a1 |-> 1, a2 |-> 2, a3 |-> 3, a4 |-> 4, a5 |-> 5, a6 |-> 6])

(* b3 is overtaken by a4, a5 and a6, which become final. *)
Fork ==
  Tree([a1 |-> "genesis", a2 |-> "a1", b3 |-> "a2", a4 |-> "a2", a5 |-> "a4", a6 |-> "a5",
        a7 |-> "a6"],
       [a1 |-> 1, a2 |-> 2, b3 |-> 3, a4 |-> 4, a5 |-> 5, a6 |-> 6, a7 |-> 7])

(* Two roots; the branch of b2 wins after a3 was canonical. *)
Roots ==
  Tree([a2 |-> "genesis", a3 |-> "a2", b2 |-> "genesis", b4 |-> "b2", b5 |-> "b4", b6 |-> "b5"],
       [a2 |-> 1, a3 |-> 3, b2 |-> 2, b4 |-> 4, b5 |-> 5, b6 |-> 6])

(* b2 has the height of a2, which becomes final. *)
Twins ==
  Tree([a1 |-> "genesis", a2 |-> "a1", b2 |-> "a1", a3 |-> "a2", a4 |-> "a3", a5 |-> "a4"],
       [a1 |-> 1, a2 |-> 2, b2 |-> 2, a3 |-> 3, a4 |-> 4, a5 |-> 5])

R(x, y) == [r \in RequestIds |-> IF r = "r1" THEN x ELSE y]

MCChains ==
  {Fill(Straight, R("a1", "a2"), done) : done \in {R("a3", NoBlock), R(NoBlock, "a4"),
                                                    R("a3", "a4")}}
  \cup {Fill(Fork, R("a1", "b3"), R("a2", NoBlock)), Fill(Fork, R("a4", "b3"), R("a5", NoBlock))}
  \cup {Fill(Twins, R("b2", "a2"), R(NoBlock, "a3"))}
  \cup {Fill(Roots, R("a3", "b2"), R(NoBlock, "b4"))}

MCLeaderOrder == [r1 |-> <<"me", "p">>, r2 |-> <<"p", "me">>]
MCKind == [r1 |-> "Signature", r2 |-> "CKD"]
MCScheme == [r1 |-> "Ed25519", r2 |-> "Bls12381"]
=============================================================================
