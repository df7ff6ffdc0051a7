------------------------------- MODULE Ecdsa -------------------------------
(***************************************************************************)
(* The two ECDSA schemes (threshold-signatures/src/ecdsa): presigning and  *)
(* signing from triples (ot_based_ecdsa) and in the honest-majority        *)
(* setting (robust_ecdsa), with the rerandomization of a presignature and  *)
(* the tweak that derives a user's key.  Jobs have key, the polynomial of  *)
(* the key shares; signing jobs have coordinator, tweak, msgHash, delta    *)
(* (what derive_randomness makes of the public inputs and the entropy; it  *)
(* is never zero) and the polynomials of the presignature.                 *)
(***************************************************************************)
EXTENDS Rounds

\* Tweak::derive_verifying_key.
DerivedKey(j) == Add(PublicKey(j), j.tweak)

\* x_coordinate: what a point shares with its opposite only.
XCoordinate(point) == Mul(point, point)
IsHigh(s) == s > Q \div 2
\* A signature that is not in the lower range is replaced by its opposite.
NormalizeNever(s) == s  \* mutant
Normalize(s) == IF IsHigh(s) THEN Sub(0, s) ELSE s

\* Signature::verify.
Verifies(bigR, s, key, h) ==
  LET r == XCoordinate(bigR)
  IN /\ r # 0 /\ s # 0 /\ ~IsHigh(s)
     /\ XCoordinate(Add(Mul(h, Invert(s)), Mul(key, Mul(r, Invert(s))))) = r

-----------------------------------------------------------------------------
(***************************************************************************)
(* ot_based_ecdsa/presign.rs.  The triples (k, d, e) and (a, b, c) are     *)
(* polynomials of the job, with e = k d and c = a b at zero.               *)
(***************************************************************************)
OtPresignAccepts(j) ==
  /\ Cardinality(j.group) >= 2
  /\ j.threshold <= Cardinality(j.group)
  /\ \A f \in {j.k, j.d, j.e, j.a, j.b, j.c} : Len(f) = j.threshold

OtPresignStart(j, p) ==
  LET e == Mul(Lagrange(j.group, p), EvalAtParticipant(j.e, p))
  IN Await([e |-> e], 1, ToAll(j, p, Payload(<<e>>)), Peers(j, p))

OtPresignOpen(j, p, m, in) ==
  LET e == SumOver(j, Collected(j, p, m.e, [q \in Peers(j, p) |-> in[q].x[1]]))
      lambda == Lagrange(j.group, p)
      alpha == Mul(lambda, Add(EvalAtParticipant(j.k, p), EvalAtParticipant(j.a, p)))
      beta == Mul(lambda, Add(KeyShare(j, p), EvalAtParticipant(j.b, p)))
  IN IF \E q \in Peers(j, p) : in[q].x[1] = 0 THEN Fail("zero")
     ELSE IF EvalAtZero(j.e) # e THEN Fail("rejected")
     ELSE Await([e |-> e, alpha |-> alpha, beta |-> beta], 2,
                ToAll(j, p, Payload(<<alpha, beta>>)), Peers(j, p))

OtPresignChecksNothing(j, alpha, beta) == TRUE  \* mutant
OtPresignChecks(j, alpha, beta) ==
  /\ alpha = Add(EvalAtZero(j.k), EvalAtZero(j.a))
  /\ beta = Add(PublicKey(j), EvalAtZero(j.b))

OtPresignFinish(j, p, m, in) ==
  LET alpha == SumOver(j, Collected(j, p, m.alpha, [q \in Peers(j, p) |-> in[q].x[1]]))
      beta == SumOver(j, Collected(j, p, m.beta, [q \in Peers(j, p) |-> in[q].x[2]]))
      sigma == Sub(Mul(alpha, KeyShare(j, p)),
                   Sub(Mul(beta, EvalAtParticipant(j.a, p)), EvalAtParticipant(j.c, p)))
  IN IF ~OtPresignChecks(j, alpha, beta) THEN Fail("rejected")
     ELSE IF m.e = 0 THEN Fail("zero")
     ELSE Return([bigR |-> Mul(EvalAtZero(j.d), Invert(m.e)),
                  k |-> EvalAtParticipant(j.k, p), sigma |-> sigma], 0, Nobody)

OtPresignRound(j, p, k, m, in) ==
  CASE k = 0 -> OtPresignStart(j, p)
    [] k = 1 -> OtPresignOpen(j, p, m, in)
    [] k = 2 -> OtPresignFinish(j, p, m, in)

-----------------------------------------------------------------------------
(***************************************************************************)
(* Signing in both schemes: everybody sends a share to the coordinator,    *)
(* which adds them up, normalizes and verifies.  A presignature is given   *)
(* by its bigR and the polynomials of its shares.                          *)
(***************************************************************************)
SignAccepts(j) == Cardinality(j.group) >= Max({2, j.threshold}) /\ j.coordinator \in j.group
RobustSignAccepts(j) ==
  /\ Cardinality(j.group) = 2 * j.malicious + 1 /\ j.coordinator \in j.group
  /\ j.msgHash # 0

\* RerandomizationArguments::derive_randomness: a scalar other than zero, a hash
\* of public inputs of the job and so the same at every signer.
DeriveRandomness(j) == j.delta

\* RerandomizedPresignOutput::rerandomize_presign (ot_based_ecdsa.rs).
Rerandomize(j, k, sigma) ==
  LET inverse == Invert(DeriveRandomness(j))
  IN [bigR |-> Mul(j.bigR, DeriveRandomness(j)), k |-> Mul(k, inverse),
      sigma |-> Mul(Add(sigma, Mul(j.tweak, k)), inverse)]

\* compute_signature_share (ot_based_ecdsa/sign.rs).
OtSignatureShare(j, p) ==
  LET pre == Rerandomize(j, EvalAtParticipant(j.k, p), EvalAtParticipant(j.sigma, p))
      lambda == Lagrange(j.group, p)
  IN Add(Mul(j.msgHash, Mul(lambda, pre.k)),
         Mul(XCoordinate(pre.bigR), Mul(lambda, pre.sigma)))

\* The same for robust_ecdsa.rs and robust_ecdsa/sign.rs.
RobustRerandomize(j, alpha, beta, c) ==
  LET inverse == Invert(DeriveRandomness(j))
  IN [bigR |-> Mul(j.bigR, DeriveRandomness(j)), alpha |-> Mul(alpha, inverse),
      beta |-> Mul(Add(beta, Mul(c, j.tweak)), inverse)]

RobustSignatureShare(j, p) ==
  LET pre == RobustRerandomize(j, EvalAtParticipant(j.alpha, p),
                               Mul(EvalAtParticipant(j.c, p), KeyShare(j, p)),
                               EvalAtParticipant(j.c, p))
      beta == Add(Mul(pre.beta, XCoordinate(pre.bigR)), EvalAtParticipant(j.e, p))
  IN Mul(Add(Mul(j.msgHash, pre.alpha), beta), Lagrange(j.group, p))

SignatureShare(j, p) ==
  IF j.kind = "otSign" THEN OtSignatureShare(j, p) ELSE RobustSignatureShare(j, p)

SignStart(j, p) ==
  IF p = j.coordinator THEN Await(<<>>, 1, Nobody, Peers(j, p))
  ELSE Return(<<>>, 1, ToOne(j.coordinator, Payload(<<SignatureShare(j, p)>>)))

SignFinish(j, p, in) ==
  LET s == Normalize(SumOver(j, Collected(j, p, SignatureShare(j, p),
                                          [q \in Peers(j, p) |-> in[q].x[1]])))
      bigR == Mul(j.bigR, DeriveRandomness(j))
  IN IF s = 0 THEN Fail("zero")
     ELSE IF ~Verifies(bigR, s, DerivedKey(j), j.msgHash) THEN Fail("rejected")
     ELSE Return([bigR |-> bigR, s |-> s], 0, Nobody)

SignRound(j, p, k, in) == IF k = 0 THEN SignStart(j, p) ELSE SignFinish(j, p, in)

-----------------------------------------------------------------------------
(***************************************************************************)
(* robust_ecdsa/presign.rs, with exactly 2 t + 1 participants of which t   *)
(* may be malicious.  The polynomials of a participant, in the order of    *)
(* the code: fk, fa of degree t; fb, fd, fe of degree 2 t that are zero at *)
(* zero.                                                                   *)
(***************************************************************************)
RobustPresignAccepts(j) == Cardinality(j.group) = 2 * j.malicious + 1 /\ j.malicious >= 1

RobustPolynomial(j, p, i) ==
  LET degree == IF i <= 2 THEN j.malicious ELSE 2 * j.malicious
      secret == IF i <= 2 THEN Coin(j, p, 10 * i) ELSE 0
  IN GeneratePolynomial(secret, [n \in 1 .. degree |-> Coin(j, p, 10 * i + n)])
RobustShares(j, p, q) == [i \in 1 .. 5 |-> EvalAtParticipant(RobustPolynomial(j, p, i), q)]

RobustPresignStart(j, p) ==
  IF \E i \in 1 .. 5 : RobustPolynomial(j, p, i) = <<>> THEN Fail("zero")
  ELSE Await(<<>>, 1, [q \in Peers(j, p) |-> Payload(RobustShares(j, p, q))], Peers(j, p))

RobustPresignCombine(j, p, in) ==
  LET all == Collected(j, p, RobustShares(j, p, p), [q \in Peers(j, p) |-> in[q].x])
      mine == [i \in 1 .. 5 |-> SumOver(j, [q \in j.group |-> all[q][i]])]
      w == Add(Mul(mine[2], mine[1]), mine[3])
  IN IF mine[1] = 0 THEN Fail("zero")               \* R_me cannot be encoded
     ELSE Await([mine |-> mine, w |-> w], 2,
                ToAll(j, p, Payload(<<mine[1], w>>)), Peers(j, p))

\* The points beyond the first t + 1 lie on the polynomial of those.
OnOnePolynomial(j, values) ==
  LET n == j.malicious + 1
      ids == Identifiers(j.group)
  IN \A i \in n + 1 .. Len(ids) :
       values[i] = EvalInterpolation(SubSeq(ids, 1, n), SubSeq(values, 1, n), ids[i])
AtZero(j, values) ==
  LET n == j.malicious + 1
  IN EvalInterpolation(SubSeq(Identifiers(j.group), 1, n), SubSeq(values, 1, n), 0)

RobustPresignCheckR(j, p, m, in) ==
  LET rs == InOrder(j, Collected(j, p, m.mine[1], [q \in Peers(j, p) |-> in[q].x[1]]))
      ws == InOrder(j, Collected(j, p, m.w, [q \in Peers(j, p) |-> in[q].x[2]]))
      bigR == AtZero(j, rs)
      w == EvalInterpolation(Identifiers(j.group), ws, 0)
  IN IF ~OnOnePolynomial(j, rs) THEN Fail("rejected")
     ELSE IF bigR = 0 \/ w = 0 \/ m.mine[2] = 0 THEN Fail("zero")
     ELSE Await([mine |-> m.mine, bigR |-> bigR, w |-> w], 3,
                ToAll(j, p, Payload(<<Mul(bigR, m.mine[2])>>)), Peers(j, p))

RobustPresignFinish(j, p, m, in) ==
  LET bigWs == InOrder(j, Collected(j, p, Mul(m.bigR, m.mine[2]),
                                    [q \in Peers(j, p) |-> in[q].x[1]]))
      c == Mul(Invert(m.w), m.mine[2])
  IN IF ~OnOnePolynomial(j, bigWs) \/ AtZero(j, bigWs) # m.w THEN Fail("rejected")
     ELSE Return([bigR |-> m.bigR, alpha |-> Add(c, m.mine[4]), beta |-> Mul(c, KeyShare(j, p)),
                  c |-> c, e |-> m.mine[5]], 0, Nobody)

RobustPresignRound(j, p, k, m, in) ==
  CASE k = 0 -> RobustPresignStart(j, p)
    [] k = 1 -> RobustPresignCombine(j, p, in)
    [] k = 2 -> RobustPresignCheckR(j, p, m, in)
    [] k = 3 -> RobustPresignFinish(j, p, m, in)
=============================================================================
