----------------------- MODULE MCContractGovernance -------------------------
(***************************************************************************)
(* Three participants with threshold 2; one of them may leave and come     *)
(* back or be replaced.                                                    *)
(***************************************************************************)
EXTENDS ContractGovernance, TLC

CONSTANTS a, b, c, d

ABC == [ids |-> a :> 0 @@ b :> 1 @@ c :> 2, next_id |-> 3, threshold |-> 2]

\* c leaves.
AB == [ids |-> a :> 0 @@ b :> 1, next_id |-> 3, threshold |-> 2]

\* d replaces c.
ABD == [ids |-> a :> 0 @@ b :> 1 @@ d :> 3, next_id |-> 4, threshold |-> 2]

Replacement == {AB, ABD}
OneImage == <<[image_hash |-> "i1", added |-> 0]>>
Initially == {ABC, AB}

-----------------------------------------------------------------------------
(* The votes on updates and policies share nothing with those on images and launchers but the
   participants: each behaviour is about one of the two agendas. *)

VARIABLE agenda

MCInit ==
  /\ Init
  /\ agenda \in {"updates", "images"}
  /\ parameters = IF agenda = "updates" THEN ABC ELSE AB

MCNext ==
  /\ Next
  /\ UNCHANGED agenda
  /\ agenda = "updates" => UNCHANGED teeVars
  /\ agenda = "images" => UNCHANGED <<updateVars, policyVars, parameters>>

MCSpec == MCInit /\ [][MCNext]_<<vars, agenda>>
=============================================================================
