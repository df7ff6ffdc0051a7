----------------------------- MODULE MCNodeKeys -----------------------------
(***************************************************************************)
(* Small instances of one node with its key shares.  A participant sees    *)
(* more resharings; a node that takes over an account sees attempts fail.  *)
(***************************************************************************)
EXTENDS NodeKeys

MCNext ==
  /\ KeysNext
  /\ IF migrant THEN contract'.id.epoch_id <= 1 /\ instance' <= 3
                ELSE contract'.id.attempt_id = 0

MCSpec == KeysInit /\ [][MCNext]_keysVars

\* execute_onboarding waits "to receive missing keyshares (if not already
\* present)" and only then concludes: a participant that entered by a
\* migration has the shares of the keyset.
ConcludedWithShares == migrant => NoShareLost
=============================================================================
