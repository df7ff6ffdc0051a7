-------------------------------- MODULE Ckd --------------------------------
(***************************************************************************)
(* Confidential key derivation (threshold-signatures/src/                  *)
(* confidential_key_derivation): protocol.rs, whose output nobody checks,  *)
(* and protocol_pv.rs, whose output can be verified publicly.  Jobs have   *)
(* key, coordinator, the application's secret scalar appSk, its public key *)
(* pk1 and pk2 in the two groups, and hashPoint, the point the application *)
(* id and the public key hash to.                                          *)
(***************************************************************************)
EXTENDS Rounds

CkdAccepts(j) == Cardinality(j.group) >= 2 /\ j.coordinator \in j.group

\* app_public_key_check: both halves of the key are of one secret.
CkdPvAccepts(j) == CkdAccepts(j) /\ j.pk1 = j.pk2

\* compute_signature_share: (Y, C), normalized.
CkdShare(j, p) ==
  LET lambda == Lagrange(j.group, p)
      y == Coin(j, p, 30)
      s == Mul(KeyShare(j, p), j.hashPoint)
  IN <<Mul(lambda, y), Mul(lambda, Add(s, Mul(j.pk1, y)))>>

\* aggregated_output_check: e(C, g2) = e(Y, pk2) e(H, X).
CkdOutputVerifies(j, bigY, bigC) ==
  bigC = Add(Mul(bigY, j.pk2), Mul(j.hashPoint, PublicKey(j)))

\* CKDOutput::unmask, done by the application.
Unmask(j, output) == Sub(output.bigC, Mul(output.bigY, j.appSk))

(***************************************************************************)
(* run_ckd_protocol: do_ckd_participant and do_ckd_coordinator.            *)
(***************************************************************************)
CkdParticipant(j, p) == Return(<<>>, 1, ToOne(j.coordinator, Payload(CkdShare(j, p))))

CkdSum(j, p, in) ==
  LET all == Collected(j, p, CkdShare(j, p), [q \in Peers(j, p) |-> in[q].x])
  IN [bigY |-> SumOver(j, [q \in j.group |-> all[q][1]]),
      bigC |-> SumOver(j, [q \in j.group |-> all[q][2]])]

CkdCoordinator(j, p, k, in) ==
  IF k = 0 THEN Await(<<>>, 1, Nobody, Peers(j, p)) ELSE Return(CkdSum(j, p, in), 0, Nobody)

CkdPvCoordinator(j, p, k, in) ==
  IF k = 0 THEN Await(<<>>, 1, Nobody, Peers(j, p))
  ELSE LET output == CkdSum(j, p, in)
       IN IF CkdOutputVerifies(j, output.bigY, output.bigC) THEN Return(output, 0, Nobody)
          ELSE Fail("rejected")

CkdRound(j, p, k, in) ==
  IF p = j.coordinator THEN CkdCoordinator(j, p, k, in) ELSE CkdParticipant(j, p)
CkdPvRound(j, p, k, in) ==
  IF p = j.coordinator THEN CkdPvCoordinator(j, p, k, in) ELSE CkdParticipant(j, p)
=============================================================================
