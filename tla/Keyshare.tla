------------------------------ MODULE Keyshare ------------------------------
(***************************************************************************)
(* Key generation, resharing and refresh (threshold-signatures/src/dkg.rs, *)
(* lib.rs).  A job of kind "keygen" has group and threshold; one of kind   *)
(* "reshare" also has oldGroup and key, the polynomial the old shares lie  *)
(* on (refresh is a reshare to the same group with the same threshold).    *)
(* Waitpoints: 1 and 3 and 5 are broadcasts (session id, commitment and    *)
(* proof, success), 2 carries the hash of the commitment, 4 the shares.    *)
(***************************************************************************)
EXTENDS Rounds

\* assert_key_invariants, assert_reshare_keys_invariants.
KeyshareAccepts(j) ==
  /\ Cardinality(j.group) >= 2
  /\ j.threshold \in 2 .. Cardinality(j.group)
  /\ j.kind = "reshare" => Cardinality(j.oldGroup \intersect j.group) >= Len(j.key)

OldKey(j) == EvalAtZero(j.key)
HoldsOldShare(j, p) == j.kind = "reshare" /\ p \in j.oldGroup
IsNewcomer(j, p) == j.kind = "reshare" /\ p \notin j.oldGroup

\* do_keygen draws a key, which is not zero; do_reshare linearizes the old
\* share over the old participants that stay.
KeyshareSecret(j, p) ==
  IF j.kind = "keygen" THEN NonZeroCoin(j, p, 0)
  ELSE IF HoldsOldShare(j, p)
       THEN Mul(Lagrange(j.oldGroup \intersect j.group, p), EvalAtParticipant(j.key, p))
       ELSE 0

KeysharePolynomial(j, p) ==
  GeneratePolynomial(KeyshareSecret(j, p), [i \in 1 .. j.threshold - 1 |-> Coin(j, p, 1 + i)])

\* generate_coefficient_commitment: a zero constant term is left out.
CoefficientCommitment(f) == IF f[1] = 0 THEN NewPolynomial(Tail(f)) ELSE f

\* insert_identity_if_missing.
FullCommitment(j, c) == IF Len(c) = j.threshold - 1 THEN <<0>> \o c ELSE c

\* challenge and proof_of_knowledge: (R, mu) with R = k and mu = k + a0 * H.
\* Neither the constant term nor R may be the identity.
PokChallenge(session, p, vk, r) == HashToScalar(session \o <<Identifier(p), vk, r>>)
ProofOfKnowledge(session, p, a0, k) == <<k, Add(k, Mul(a0, PokChallenge(session, p, a0, k)))>>

\* verify_proof_of_knowledge.
PokVerdict(j, session, p, c, proof) ==
  IF proof = <<>>
  THEN IF ~IsNewcomer(j, p) THEN "rejected"
       ELSE IF Len(c) # j.threshold - 1 THEN "zero" ELSE "fine"
  ELSE IF IsNewcomer(j, p) THEN "rejected"
       ELSE IF Len(c) # j.threshold THEN "zero"
       ELSE IF proof[1] = Sub(proof[2], Mul(c[1], PokChallenge(session, p, c[1], proof[1])))
            THEN "fine" ELSE "rejected"

\* The hash of (participant, commitment, session id) is the triple itself.
CommitmentHash(session, p, c) == Payload(<<p>> \o c \o session)

(***************************************************************************)
(* do_keyshare, from wait to wait.                                         *)
(***************************************************************************)
KeyshareStart(j, p) ==
  IF KeyshareSecret(j, p) = 0 /\ ~IsNewcomer(j, p)
  THEN Fail("zero")                                        \* assert_keyshare_inputs
  ELSE Broadcast(j, p, <<>>, 1, Payload(<<Coin(j, p, 1)>>))

KeyshareCommit(j, p, in) ==
  LET session == InOrder(j, Collected(j, p, Coin(j, p, 1), [q \in Peers(j, p) |-> in[q].x[1]]))
      f == KeysharePolynomial(j, p)
      c == IF f = <<>> THEN <<>> ELSE CoefficientCommitment(f)
      k == NonZeroCoin(j, p, 9)
      proof == IF IsNewcomer(j, p) THEN <<>> ELSE ProofOfKnowledge(session, p, f[1], k)
  IN IF c = <<>> \/ \E i \in DOMAIN c : c[i] = 0 THEN Fail("zero")   \* cannot be encoded
     ELSE Await([session |-> session, f |-> f, c |-> c, proof |-> proof], 2,
                ToAll(j, p, CommitmentHash(session, p, c)), Peers(j, p))

KeyshareReveal(j, p, m, in) ==
  Broadcast(j, p, [session |-> m.session, f |-> m.f, c |-> m.c, hashes |-> in], 3,
            [x |-> m.c \o m.proof, n |-> Len(m.c)])

\* The checks of round 4 for one participant.
RevealVerdict(j, m, q, c, proof) ==
  LET pok == PokVerdict(j, m.session, q, c, proof)
  IN IF pok # "fine" THEN pok
     ELSE IF m.hashes[q] # CommitmentHash(m.session, q, c) THEN "rejected" ELSE "fine"

KeyshareDeal(j, p, m, in) ==
  LET c == [q \in Peers(j, p) |-> SubSeq(in[q].x, 1, in[q].n)]
      proof == [q \in Peers(j, p) |-> SubSeq(in[q].x, in[q].n + 1, Len(in[q].x))]
      verdicts == {RevealVerdict(j, m, q, c[q], proof[q]) : q \in Peers(j, p)}
      full == Collected(j, p, FullCommitment(j, m.c),
                        [q \in Peers(j, p) |-> FullCommitment(j, c[q])])
      key == SumOver(j, [q \in j.group |-> full[q][1]])
  IN IF verdicts # {"fine"} THEN Fail(IF "rejected" \in verdicts THEN "rejected" ELSE "zero")
     ELSE IF \E q \in j.group : Len(full[q]) # j.threshold THEN Fail("zero")  \* sum_commitments
     ELSE IF j.kind = "reshare" /\ OldKey(j) # key THEN Fail("rejected")
     ELSE Await([session |-> m.session, f |-> m.f, full |-> full, key |-> key], 4,
                [q \in Peers(j, p) |-> Payload(<<EvalAtParticipant(m.f, q)>>)], Peers(j, p))

\* The segment that waits for the success of the others, and where it waits.
SuccessSegment == 5
SuccessWaitpoint == 5

\* validate_received_share.
ShareValid(p, share, c) == share = EvalAtParticipant(c, p)

\* Mutant: the share is returned without waiting for the others' success.
KeyshareCollectAndReturn(j, p, m, in) ==
  IF \E q \in Peers(j, p) : ~ShareValid(p, in[q].x[1], m.full[q]) THEN Fail("rejected")
  ELSE Return([share |-> SumOver(j, Collected(j, p, EvalAtParticipant(m.f, p),
                                              [q \in Peers(j, p) |-> in[q].x[1]])),
               key |-> m.key], 0, Nobody)
KeyshareCollect(j, p, m, in) ==
  LET share == SumOver(j, Collected(j, p, EvalAtParticipant(m.f, p),
                                    [q \in Peers(j, p) |-> in[q].x[1]]))
      output == [session |-> m.session, share |-> share, key |-> m.key]
  IN IF \E q \in Peers(j, p) : ~ShareValid(p, in[q].x[1], m.full[q]) THEN Fail("rejected")
     ELSE Broadcast(j, p, output, SuccessWaitpoint, Payload(<<1>> \o m.session))

\* broadcast_success: everybody reports success for this session.
KeyshareFinish(j, p, m, in) ==
  IF \A q \in Peers(j, p) : in[q].x = <<1>> \o m.session
  THEN Return([share |-> m.share, key |-> m.key], 0, Nobody)
  ELSE Fail("rejected")

KeyshareRound(j, p, k, m, in) ==
  CASE k = 0 -> KeyshareStart(j, p)
    [] k = 1 -> KeyshareCommit(j, p, in)
    [] k = 2 -> KeyshareReveal(j, p, m, in)
    [] k = 3 -> KeyshareDeal(j, p, m, in)
    [] k = 4 -> KeyshareCollect(j, p, m, in)
    [] k = 5 -> KeyshareFinish(j, p, m, in)
=============================================================================
