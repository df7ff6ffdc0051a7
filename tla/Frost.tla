------------------------------- MODULE Frost -------------------------------
(***************************************************************************)
(* The FROST signatures (threshold-signatures/src/frost.rs, frost/eddsa,   *)
(* frost/redjubjub): presigning, EdDSA signing in three messages (v1) and  *)
(* from a presignature (v2), RedJubjub signing with a randomizer.  What    *)
(* the frost libraries compute is modelled from how they are used.         *)
(* Jobs have key, threshold, coordinator, message and, for RedJubjub,      *)
(* randomizer; a presignature's nonces are those drawn in the job.         *)
(***************************************************************************)
EXTENDS Rounds

\* assert_sign_inputs, presign.
FrostAccepts(j) ==
  /\ Cardinality(j.group) >= Max({2, j.threshold})
  /\ j.coordinator \in j.group

\* round1::commit: hiding and binding nonce; the commitments are their points.
Nonces(j, p) == <<NonZeroCoin(j, p, 20), NonZeroCoin(j, p, 21)>>

\* SigningPackage::new: the message and the commitments by participant.
SigningPackage(j, commitments) ==
  Payload(<<j.message>> \o FlattenSeq(InOrder(j, commitments)))
PackageMessage(pkg) == pkg.x[1]
Position(j, p) == CHOOSE i \in DOMAIN Sorted(j.group) : Sorted(j.group)[i] = p
CommitmentsIn(j, pkg, p) ==
  LET i == 2 * Position(j, p) IN SubSeq(pkg.x, i, i + 1)

BindingFactor(j, pkg, p) == HashToScalar(<<PublicKey(j), Identifier(p)>> \o pkg.x)
GroupCommitment(j, pkg) ==
  SumOver(j, [p \in j.group |->
    Add(CommitmentsIn(j, pkg, p)[1],
        Mul(BindingFactor(j, pkg, p), CommitmentsIn(j, pkg, p)[2]))])
Challenge(j, pkg, key) == HashToScalar(<<GroupCommitment(j, pkg), key, PackageMessage(pkg)>>)

\* round2::sign, once the package holds the signer's own commitments.
PackageIsFor(j, p, pkg) == CommitmentsIn(j, pkg, p) = Nonces(j, p)
FrostShare(j, p, pkg, randomizer) ==
  Add(Add(Nonces(j, p)[1], Mul(BindingFactor(j, pkg, p), Nonces(j, p)[2])),
      Mul(Mul(Lagrange(j.group, p), Add(KeyShare(j, p), randomizer)),
          Challenge(j, pkg, Add(PublicKey(j), randomizer))))

\* aggregate, which verifies the signature.
Aggregate(j, pkg, shares, randomizer) ==
  LET z == SumOver(j, shares)
      key == Add(PublicKey(j), randomizer)
  IN IF z = Add(GroupCommitment(j, pkg), Mul(Challenge(j, pkg, key), key))
     THEN Return([bigR |-> GroupCommitment(j, pkg), z |-> z], 0, Nobody)
     ELSE Fail("rejected")

-----------------------------------------------------------------------------
\* do_presign (frost.rs).
FrostPresignRound(j, p, k, in) ==
  IF k = 0 THEN Await(<<>>, 1, ToAll(j, p, Payload(Nonces(j, p))), Peers(j, p))
  ELSE Return([commitments |-> Collected(j, p, Nonces(j, p), [q \in Peers(j, p) |-> in[q].x])],
              0, Nobody)

-----------------------------------------------------------------------------
(***************************************************************************)
(* do_sign_coordinator_v1 and do_sign_participant_v1: commitments to the   *)
(* coordinator at waitpoint 1, the signing package from it and the shares  *)
(* to it at waitpoint 2.                                                   *)
(***************************************************************************)
EddsaV1Coordinator(j, p, k, m, in) ==
  CASE k = 0 -> Await(<<>>, 1, Nobody, Peers(j, p))
    [] k = 1 -> LET pkg == SigningPackage(j, Collected(j, p, Nonces(j, p),
                                                       [q \in Peers(j, p) |-> in[q].x]))
                IN Await([pkg |-> pkg], 2, ToAll(j, p, pkg), Peers(j, p))
    [] k = 2 -> Aggregate(j, m.pkg, Collected(j, p, FrostShare(j, p, m.pkg, 0),
                                              [q \in Peers(j, p) |-> in[q].x[1]]), 0)

\* Mutant: the signing package is awaited from everybody.
EddsaV1ParticipantAwaitsAll(j, p, k, in) ==
  IF k = 0 THEN AwaitAt(<<>>, 1, ToOne(j.coordinator, Payload(Nonces(j, p))), 2, Peers(j, p))
  ELSE Return(<<>>, 2, ToOne(j.coordinator,
                             Payload(<<FrostShare(j, p, in[j.coordinator], 0)>>)))
EddsaV1Participant(j, p, k, in) ==
  IF k = 0 THEN AwaitAt(<<>>, 1, ToOne(j.coordinator, Payload(Nonces(j, p))), 2, {j.coordinator})
  ELSE LET pkg == in[j.coordinator]
       IN IF PackageMessage(pkg) # j.message \/ ~PackageIsFor(j, p, pkg) THEN Fail("rejected")
          ELSE Return(<<>>, 2, ToOne(j.coordinator, Payload(<<FrostShare(j, p, pkg, 0)>>)))

EddsaV1Round(j, p, k, m, in) ==
  IF p = j.coordinator THEN EddsaV1Coordinator(j, p, k, m, in) ELSE EddsaV1Participant(j, p, k, in)

-----------------------------------------------------------------------------
\* do_sign_coordinator_v2, do_sign_participant_v2.
PresignedPackage(j) == SigningPackage(j, [p \in j.group |-> Nonces(j, p)])

EddsaV2Participant(j, p) ==
  Return(<<>>, 1, ToOne(j.coordinator, Payload(<<FrostShare(j, p, PresignedPackage(j), 0)>>)))

EddsaV2Coordinator(j, p, k, in) ==
  IF k = 0 THEN Await(<<>>, 1, Nobody, Peers(j, p))
  ELSE Aggregate(j, PresignedPackage(j),
                 Collected(j, p, FrostShare(j, p, PresignedPackage(j), 0),
                           [q \in Peers(j, p) |-> in[q].x[1]]), 0)

EddsaV2Round(j, p, k, in) ==
  IF p = j.coordinator THEN EddsaV2Coordinator(j, p, k, in) ELSE EddsaV2Participant(j, p)

(***************************************************************************)
(* redjubjub/sign.rs: the coordinator, who alone is given the randomizer,  *)
(* sends it at waitpoint 1 and collects the shares at waitpoint 2.         *)
(***************************************************************************)
RedjubjubCoordinator(j, p, k, in) ==
  IF k = 0 THEN AwaitAt(<<>>, 1, ToAll(j, p, Payload(<<j.randomizer>>)), 2, Peers(j, p))
  ELSE Aggregate(j, PresignedPackage(j),
                 Collected(j, p, FrostShare(j, p, PresignedPackage(j), j.randomizer),
                           [q \in Peers(j, p) |-> in[q].x[1]]), j.randomizer)

RedjubjubParticipant(j, p, k, in) ==
  IF k = 0 THEN Await(<<>>, 1, Nobody, {j.coordinator})
  ELSE LET share == FrostShare(j, p, PresignedPackage(j), in[j.coordinator].x[1])
       IN Return(<<>>, 2, ToOne(j.coordinator, Payload(<<share>>)))

RedjubjubRound(j, p, k, in) ==
  IF p = j.coordinator THEN RedjubjubCoordinator(j, p, k, in)
  ELSE RedjubjubParticipant(j, p, k, in)
=============================================================================
