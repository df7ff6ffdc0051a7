------------------------------ MODULE MCAssets ------------------------------
(***************************************************************************)
(* Three nodes, of which one leads, with the kinds of tasks of the OT-based*)
(* scheme, of the robust one, or those that need no asset.                 *)
(***************************************************************************)
EXTENDS Assets

MCScenarios == {{"triples", "presign", "sign"}, {"triples", "presign", "verify_foreign_tx"},
                {"robust_presign", "robust_sign"}, {"eddsa", "ckd"}}
=============================================================================
