---------------------------- MODULE Polynomials ----------------------------
(***************************************************************************)
(* Polynomials over the scalar field and their commitments                 *)
(* (threshold-signatures/src/crypto/polynomials.rs, participants.rs).  The *)
(* field is the integers modulo a small prime Q, and an element of the     *)
(* group is written as its logarithm: a * G is a, the identity is 0, and   *)
(* what multiplies a point by a scalar multiplies two scalars.  So one     *)
(* operator stands for an operation on polynomials and for its twin in the *)
(* exponent.  A polynomial is the sequence of its coefficients, the        *)
(* constant term first; <<>> is the error EmptyOrZeroCoefficients.         *)
(***************************************************************************)
EXTENDS Integers, Sequences, SequencesExt, FiniteSets, FiniteSetsExt

CONSTANT Q

ASSUME PrimeAssumption ==
  Q \in Nat \ {0, 1} /\ \A a, b \in 1 .. Q - 1 : (a * b) % Q # 0

Scalars == 0 .. Q - 1

Add(a, b) == (a + b) % Q
Sub(a, b) == (a - b) % Q
Mul(a, b) == (a * b) % Q
Invert(a) == CHOOSE b \in Scalars : Mul(a, b) = 1 % Q
SumAll(s) == LET sum[i \in 0 .. Len(s)] == IF i = 0 THEN 0 ELSE Add(sum[i - 1], s[i])
             IN sum[Len(s)]
Product(s) == LET prod[i \in 0 .. Len(s)] == IF i = 0 THEN 1 ELSE Mul(prod[i - 1], s[i])
              IN prod[Len(s)]

(***************************************************************************)
(* Participant::scalar: the participant's number plus one.  A              *)
(* ParticipantList is sorted.                                              *)
(***************************************************************************)
Identifier(p) == (p + 1) % Q
ListOf(group, Of(_)) ==
  LET list[s \in SUBSET group] ==
        IF s = {} THEN <<>> ELSE LET last == Max(s) IN Append(list[s \ {last}], Of(last))
  IN list[group]
Sorted(group) == ListOf(group, LAMBDA p : p)
Identifiers(group) == ListOf(group, Identifier)

(***************************************************************************)
(* Polynomial::new and PolynomialCommitment::new: the highest null         *)
(* coefficients are dropped.                                               *)
(***************************************************************************)
NewPolynomial(c) ==
  SubSeq(c, 1, CHOOSE n \in 0 .. Len(c) : (n > 0 => c[n] # 0) /\ \A i \in n + 1 .. Len(c) : c[i] = 0)

\* generate_polynomial, with the coefficients that are drawn at random.
GeneratePolynomial(secret, drawn) == NewPolynomial(<<secret>> \o drawn)

EvalAtZero(f) == f[1]

\* eval_at_point: Horner's method, from the highest coefficient down.
EvalAtPoint(f, x) ==
  LET n == Len(f)
      horner[i \in 1 .. n] == IF i = n THEN f[n] ELSE Add(Mul(horner[i + 1], x), f[i])
  IN IF x = 0 THEN EvalAtZero(f) ELSE horner[1]

EvalAtParticipant(f, p) == EvalAtPoint(f, Identifier(p))

ExtendWithZero(f) == NewPolynomial(<<0>> \o f)

\* set_nonzero_constant, set_non_identity_constant.
SetConstant(f, v) == IF v = 0 /\ Len(f) = 1 THEN <<>> ELSE [f EXCEPT ![1] = v]

Coefficient(f, i) == IF i \in DOMAIN f THEN f[i] ELSE 0

\* PolynomialCommitment::add.
AddPolynomials(f, g) ==
  NewPolynomial([i \in 1 .. Max({Len(f), Len(g)}) |-> Add(Coefficient(f, i), Coefficient(g, i))])

(***************************************************************************)
(* compute_lagrange_coefficient, for the i-th point; without a point to    *)
(* evaluate at the signs are flipped in numerator and denominator.         *)
(***************************************************************************)
Others(points, i) == SubSeq(points, 1, i - 1) \o SubSeq(points, i + 1, Len(points))

LagrangeAt(points, i, x) ==
  LET rest == Others(points, i)
  IN Mul(Product([j \in DOMAIN rest |-> Sub(x, rest[j])]),
         Invert(Product([j \in DOMAIN rest |-> Sub(points[i], rest[j])])))

LagrangeAtZero(points, i) ==
  LET rest == Others(points, i)
  IN Mul(Product(rest), Invert(Product([j \in DOMAIN rest |-> Sub(rest[j], points[i])])))

\* ParticipantList::lagrange.
Lagrange(group, p) ==
  LagrangeAtZero(Identifiers(group), CHOOSE i \in DOMAIN Sorted(group) : Sorted(group)[i] = p)

(***************************************************************************)
(* batch_invert: one inversion, of the product of all the values; going    *)
(* down from the last value, the inverse of the product of the first i     *)
(* values times the product of the first i - 1 is the inverse of value i.  *)
(***************************************************************************)
Prefix(values, i) == Product(SubSeq(values, 1, i))

BatchInvert(values) ==
  LET n == Len(values)
      total == Invert(Product(values))
      inverseUpTo(i) == Mul(total, Product(SubSeq(values, i + 1, n)))
  IN [i \in 1 .. n |-> Mul(Prefix(values, i - 1), inverseUpTo(i))]

(***************************************************************************)
(* batch_compute_lagrange_coefficients: the Kronecker delta when x is one  *)
(* of the points (the last equal one), a numerator whose sign depends on   *)
(* the number of points when x is zero.                                    *)
(***************************************************************************)
ZeroNumerator(points) ==
  IF Len(points) % 2 = 0 THEN Sub(0, Product(points)) ELSE Product(points)

BatchLagrange(points, x) ==
  LET n == Len(points)
      hits == {i \in 1 .. n : points[i] = x}
      denominators ==
        [i \in 1 .. n |-> Product([j \in 1 .. n - 1 |-> Sub(points[i], Others(points, i)[j])])]
      differences == [i \in 1 .. n |-> Sub(x, points[i])]
      numerator == IF x = 0 THEN ZeroNumerator(points) ELSE Product(differences)
      factors == BatchInvert(IF x = 0 THEN points ELSE differences)
  IN IF hits # {} THEN [i \in 1 .. n |-> IF i = Max(hits) THEN 1 ELSE 0]
     ELSE [i \in 1 .. n |-> Mul(Mul(numerator, factors[i]), BatchInvert(denominators)[i])]

(***************************************************************************)
(* eval_interpolation and eval_exponent_interpolation; their callers pass  *)
(* at least two points and as many shares.                                 *)
(***************************************************************************)
EvalInterpolation(points, shares, x) ==
  LET lambda == BatchLagrange(points, x)
  IN SumAll([i \in DOMAIN points |-> Mul(lambda[i], shares[i])])

\* The value at zero of the polynomial on which the members of group hold
\* the shares.
Reconstruct(group, share) ==
  EvalInterpolation(Identifiers(group), ListOf(group, LAMBDA p : share[p]), 0)
=============================================================================
