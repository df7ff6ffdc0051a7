-------------------------- MODULE TripleGeneration --------------------------
(***************************************************************************)
(* The generation of a triple of shares of a, b and a * b                  *)
(* (threshold-signatures/src/ecdsa/ot_based_ecdsa/triples/generation.rs).  *)
(* A job of kind "triple" has group and threshold; N is one.  Waitpoints:  *)
(* 1 commitments, 2 confirmations, 3 revealed polynomials and proofs,      *)
(* 4 shares of a and b, 5 products with the public b and their proofs,     *)
(* 7 points of the shares of a * b and their proofs, 8 shares of c.  The   *)
(* multiplications of each pair run beside the waitpoints 2 to 5; what     *)
(* they do is in ObliviousTransfer, and here they are one exchange at 6:   *)
(* each gives its e(0), its f(0) and a mask.                               *)
(***************************************************************************)
EXTENDS Rounds

\* validate_triple_inputs.
TripleAccepts(j) == Cardinality(j.group) >= 2 /\ j.threshold \in 2 .. Cardinality(j.group)

Drawn(j, p, at, n) == NewPolynomial([i \in 1 .. n |-> Coin(j, p, at + i)])
TripleE(j, p) == Drawn(j, p, 0, j.threshold)
TripleF(j, p) == Drawn(j, p, 10, j.threshold)
TripleL(j, p) == Drawn(j, p, 20, j.threshold - 1)

(***************************************************************************)
(* dlog and dlogeq: a proof is the challenge e and s = k + e * x; the      *)
(* verifier recomputes the commitment from them and hashes it again.  The  *)
(* label keeps the forks of the transcript apart.                          *)
(***************************************************************************)
DlogChallenge(label, p, x, k) == 1 + (HashToScalar(<<label, Identifier(p), x, k>>) % (Q - 1))
DlogProve(label, p, x, k) ==
  LET e == DlogChallenge(label, p, x, k) IN <<e, Add(k, Mul(e, x))>>
DlogVerify(label, p, x, proof) ==
  proof[1] = DlogChallenge(label, p, x, Sub(proof[2], Mul(x, proof[1])))

DlogeqChallenge(p, x0, g1, x1, k0, k1) ==
  1 + (HashToScalar(<<Identifier(p), x0, g1, x1, k0, k1>>) % (Q - 1))
DlogeqProve(p, g1, x, k) ==
  LET e == DlogeqChallenge(p, x, g1, Mul(g1, x), k, Mul(g1, k)) IN <<e, Add(k, Mul(e, x))>>
DlogeqVerify(p, x0, g1, x1, proof) ==
  proof[1] = DlogeqChallenge(p, x0, g1, x1, Sub(proof[2], Mul(x0, proof[1])),
                             Sub(Mul(g1, proof[2]), Mul(x1, proof[1])))

\* A commitment binds: it stands for the polynomials and the randomizer.
TripleCommitment(e, f, l, randomizer) == e \o f \o l \o <<randomizer>>
\* The confirmation is the hash of all commitments in the order of the list.
Confirmation(j, commitments) == FlattenSeq(InOrder(j, commitments))

(***************************************************************************)
(* The multiplication of a pair: the one with the larger order key is the  *)
(* sender.  The sender ends with minus its mask, the receiver with the two *)
(* cross products plus the mask it was dealt.                              *)
(***************************************************************************)
OrderKey(p) == HashToScalar(<<0, Identifier(p)>>)
MaskFor(j, p, q) == Coin(j, p, 50 + q)
MultiplicationShare(j, p, q, a, b, given) ==
  IF OrderKey(q) < OrderKey(p) THEN Sub(0, MaskFor(j, p, q))
  ELSE Add(Add(Mul(given[1], b), Mul(given[2], a)), given[3])

\* multiplication_many.
Multiplied(j, p, a, b, in) ==
  Add(Mul(a, b),
      SumOver(j, Collected(j, p, 0, [q \in Peers(j, p) |-> MultiplicationShare(j, p, q, a, b, in[q].x)])))

(***************************************************************************)
(* do_generation_many, from wait to wait.                                  *)
(***************************************************************************)
Encodable(f) == f # <<>> /\ \A i \in DOMAIN f : f[i] # 0

TripleStart(j, p) ==
  LET e == TripleE(j, p) f == TripleF(j, p) l == TripleL(j, p)
      commitment == TripleCommitment(e, f, l, Coin(j, p, 30))
  IN IF ~(Encodable(e) /\ Encodable(f) /\ Encodable(l)) THEN Fail("zero")
     ELSE Await([commitment |-> commitment], 1, ToAll(j, p, Payload(commitment)), Peers(j, p))

TripleReveal(j, p, m, in) ==
  LET e == TripleE(j, p) f == TripleF(j, p) l == TripleL(j, p)
      commitments == Collected(j, p, m.commitment, [q \in Peers(j, p) |-> in[q].x])
      confirmation == Confirmation(j, commitments)
      reveal == e \o f \o l \o <<Coin(j, p, 30)>> \o DlogProve(0, p, e[1], NonZeroCoin(j, p, 31))
                \o DlogProve(1, p, f[1], NonZeroCoin(j, p, 32))
  IN Posting([commitments |-> commitments, confirmation |-> confirmation],
             << Post(2, ToAll(j, p, Payload(confirmation))),
                Post(3, ToAll(j, p, [x |-> reveal, n |-> Len(e)])),
                Post(4, [q \in Peers(j, p) |->
                           Payload(<<EvalAtParticipant(e, q), EvalAtParticipant(f, q)>>)]),
                Post(6, [q \in Peers(j, p) |-> Payload(<<e[1], f[1], MaskFor(j, p, q)>>)]) >>,
             2, Peers(j, p))

TripleConfirm(j, p, m, in) ==
  IF \E q \in Peers(j, p) : in[q].x # m.confirmation THEN Fail("rejected")
  ELSE Posting(m, <<>>, 3, Peers(j, p))

\* The parts of a reveal, as their lengths say; the proofs are the last four.
RevealedE(x, t) == NewPolynomial(SubSeq(x, 1, t))
RevealedF(x, t) == NewPolynomial(SubSeq(x, t + 1, 2 * t))
RevealedL(x, t) == NewPolynomial(SubSeq(x, 2 * t + 1, 3 * t - 1))
RevealFine(j, m, q, x) ==
  LET t == j.threshold
  IN /\ Len(x) = 3 * t + 4
     /\ Len(RevealedE(x, t)) = t /\ Len(RevealedF(x, t)) = t /\ Len(RevealedL(x, t)) = t - 1
     /\ m.commitments[q] = SubSeq(x, 1, 3 * t)
     /\ DlogVerify(0, q, x[1], SubSeq(x, 3 * t + 1, 3 * t + 2))
     /\ DlogVerify(1, q, x[t + 1], SubSeq(x, 3 * t + 3, 3 * t + 4))

SumPolynomials(j, polynomials) ==
  LET s == InOrder(j, polynomials)
      sum[i \in 1 .. Len(s)] == IF i = 1 THEN s[1] ELSE AddPolynomials(sum[i - 1], s[i])
  IN sum[Len(s)]

TripleSum(j, p, m, in) ==
  LET t == j.threshold
      all(mine, theirs(_, _)) ==
        SumPolynomials(j, Collected(j, p, mine, [q \in Peers(j, p) |-> theirs(in[q].x, t)]))
      bigE == all(TripleE(j, p), RevealedE)
      bigF == all(TripleF(j, p), RevealedF)
      bigL == all(TripleL(j, p), RevealedL)
  IN IF \E q \in Peers(j, p) : ~RevealFine(j, m, q, in[q].x) THEN Fail("rejected")
     ELSE IF <<>> \in {bigE, bigF, bigL} THEN Fail("zero")
     ELSE Posting([bigE |-> bigE, bigF |-> bigF, bigL |-> bigL,
                   zero |-> [q \in Peers(j, p) |-> in[q].x[1]]], <<>>, 4, Peers(j, p))

\* The shares of a and b, checked against the public polynomials.
TripleProduct(j, p, m, in) ==
  LET sum(f, i) == SumOver(j, Collected(j, p, EvalAtParticipant(f, p), [q \in Peers(j, p) |-> in[q].x[i]]))
      a == sum(TripleE(j, p), 1)
      b == sum(TripleF(j, p), 2)
      e0 == TripleE(j, p)[1]
      bigC == Mul(m.bigF[1], e0)
  IN IF a # EvalAtParticipant(m.bigE, p) \/ b # EvalAtParticipant(m.bigF, p) THEN Fail("rejected")
     ELSE IF m.bigF[1] = 0 THEN Fail("zero")
     ELSE AwaitAt([bigE |-> m.bigE, bigF |-> m.bigF, bigL |-> m.bigL, zero |-> m.zero,
                   a |-> a, b |-> b, bigC |-> bigC], 5,
                  ToAll(j, p, Payload(<<bigC>> \o DlogeqProve(p, m.bigF[1], e0, NonZeroCoin(j, p, 33)))),
                  5, Peers(j, p))

TripleJoin(j, p, m, in) ==
  LET fine(q) == DlogeqVerify(q, m.zero[q], m.bigF[1], in[q].x[1], <<in[q].x[2], in[q].x[3]>>)
      bigC == SumOver(j, Collected(j, p, m.bigC, [q \in Peers(j, p) |-> in[q].x[1]]))
  IN IF \E q \in Peers(j, p) : ~fine(q) THEN Fail("rejected")
     ELSE Posting([bigE |-> m.bigE, bigF |-> m.bigF, bigL |-> <<0>> \o m.bigL, a |-> m.a, b |-> m.b,
                   bigC |-> bigC], <<>>, 6, Peers(j, p))

TripleShareC(j, p, m, in) ==
  LET l0 == Multiplied(j, p, TripleE(j, p)[1], TripleF(j, p)[1], in)
      l == SetConstant(ExtendWithZero(TripleL(j, p)), l0)
  IN IF l0 = 0 THEN Fail("zero")                              \* cannot be encoded
     ELSE Posting([bigE |-> m.bigE, bigF |-> m.bigF, bigL |-> m.bigL, a |-> m.a, b |-> m.b,
                   bigC |-> m.bigC, l0 |-> l0],
                  << Post(7, ToAll(j, p, Payload(<<l0>> \o DlogProve(2, p, l0, NonZeroCoin(j, p, 34))))),
                     Post(8, [q \in Peers(j, p) |-> Payload(<<EvalAtParticipant(l, q)>>)]) >>,
                  7, Peers(j, p))

\* "final polynomial doesn't match C value".
ProductMatches(bigL, bigC) == bigL[1] = bigC

TripleCheckC(j, p, m, in) ==
  LET hatC == SumOver(j, Collected(j, p, m.l0, [q \in Peers(j, p) |-> in[q].x[1]]))
      bigL == SetConstant(m.bigL, hatC)
  IN IF \E q \in Peers(j, p) : ~DlogVerify(2, q, in[q].x[1], <<in[q].x[2], in[q].x[3]>>) THEN Fail("rejected")
     ELSE IF bigL = <<>> THEN Fail("zero")
     ELSE IF ~ProductMatches(bigL, m.bigC) THEN Fail("rejected")
     ELSE Posting([m EXCEPT !.bigL = bigL], <<>>, 8, Peers(j, p))

TripleFinish(j, p, m, in) ==
  LET l == SetConstant(ExtendWithZero(TripleL(j, p)), m.l0)
      c == SumOver(j, Collected(j, p, EvalAtParticipant(l, p), [q \in Peers(j, p) |-> in[q].x[1]]))
  IN IF c # EvalAtParticipant(m.bigL, p) THEN Fail("rejected")
     ELSE Return([a |-> m.a, b |-> m.b, c |-> c, bigA |-> m.bigE[1], bigB |-> m.bigF[1], bigC |-> m.bigC],
                 0, Nobody)

TripleRound(j, p, k, m, in) ==
  CASE k = 0 -> TripleStart(j, p)
    [] k = 1 -> TripleReveal(j, p, m, in)
    [] k = 2 -> TripleConfirm(j, p, m, in)
    [] k = 3 -> TripleSum(j, p, m, in)
    [] k = 4 -> TripleProduct(j, p, m, in)
    [] k = 5 -> TripleJoin(j, p, m, in)
    [] k = 6 -> TripleShareC(j, p, m, in)
    [] k = 7 -> TripleCheckC(j, p, m, in)
    [] k = 8 -> TripleFinish(j, p, m, in)
=============================================================================
