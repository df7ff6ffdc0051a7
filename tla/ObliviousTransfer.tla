------------------------- MODULE ObliviousTransfer -------------------------
(***************************************************************************)
(* The multiplication of two participants of a triple generation           *)
(* (threshold-signatures/src/ecdsa/ot_based_ecdsa/triples: bits.rs,        *)
(* batch_random_ot.rs, correlated_ot_extension.rs, random_ot_extension.rs, *)
(* mta.rs, multiplication.rs).  The sender and the receiver have a and b   *)
(* each; they end with additive shares of the sum of the two products of   *)
(* one's a with the other's b.  The sender receives in the base transfers, *)
(* of which there are as many as the security parameter.                   *)
(*                                                                         *)
(* A job of kind "multiply" has sender, receiver, and a and b of each.     *)
(* Waitpoints: 1 the point Y, 2 the points X, 3 the matrix U, 4 the seed   *)
(* of the check, 5 its answer, 6 and 7 the conversion of products to sums, *)
(* whose two instances run side by side and are bundled.                   *)
(***************************************************************************)
EXTENDS Rounds

CONSTANTS SecurityParameter, ScalarBits

Positions == 0 .. SecurityParameter - 1

(***************************************************************************)
(* bits.rs.  A BitVector is the set of the positions of its ones, a        *)
(* BitMatrix a sequence of rows.  The bits that hashes and expansions give *)
(* are a fixed function of what goes in.                                   *)
(***************************************************************************)
Xor(u, v) == (u \ v) \union (v \ u)
XorRows(s, t) == [i \in DOMAIN s |-> Xor(s[i], t[i])]
XorAll(s) == LET all[i \in 0 .. Len(s)] == IF i = 0 THEN {} ELSE Xor(all[i - 1], s[i]) IN all[Len(s)]

\* BitVector::gf_mul: the product of polynomials over two elements, unreduced.
GfMul(u, v) ==
  {k \in 0 .. 2 * SecurityParameter - 2 : Cardinality({i \in u : k - i \in v}) % 2 = 1}

\* How vectors travel: as numbers.
Pack(u) == LET sum[i \in 0 .. 2 * SecurityParameter - 1] ==
                 (IF i \in u THEN 2 ^ i ELSE 0) + (IF i = 0 THEN 0 ELSE sum[i - 1])
           IN sum[2 * SecurityParameter - 1]
Unpack(n) == {i \in 0 .. 2 * SecurityParameter - 1 : (n \div (2 ^ i)) % 2 = 1}
UnpackRow(n) == Unpack(n) \intersect Positions
PackAll(s) == [i \in DOMAIN s |-> Pack(s[i])]
UnpackAll(s) == [i \in DOMAIN s |-> UnpackRow(s[i])]

HashToBits(s) == UnpackRow(HashToScalar(s))
BitOf(s) == HashToScalar(s) % 2

\* BitMatrix::column_chunks and ChoiceVector::chunks.
Chunk(bits, i) == {n \in Positions : bits[SecurityParameter * (i - 1) + n + 1]}
Column(rows, n) == [i \in DOMAIN rows |-> n \in rows[i]]

\* SquareBitMatrix::expand_transpose: bit i of the expansion of each row.
ExpandTranspose(k, rows) ==
  [i \in 1 .. rows |-> {n \in Positions : BitOf(<<i, Pack(k[n + 1]), i * Pack(k[n + 1])>>) = 1}]

(***************************************************************************)
(* batch_random_ot_sender and batch_random_ot_receiver.                    *)
(***************************************************************************)
OtKey(i, x, y, point) == HashToBits(<<i, x, y, point>>)
\* Both keys of the sender: with Z = y * Y, the one from y * X, or y * X - Z.
OtSenderKeys(y, xs, chosen) ==
  [i \in DOMAIN xs |-> OtKey(i, xs[i], y, IF chosen THEN Sub(Mul(xs[i], y), Mul(y, y)) ELSE Mul(xs[i], y))]

OtChoicePoints(delta, x, y) ==
  [i \in DOMAIN x |-> IF i - 1 \in delta THEN Add(x[i], y) ELSE x[i]]
OtReceiverKeys(delta, x, y) ==
  [i \in DOMAIN x |-> OtKey(i, OtChoicePoints(delta, x, y)[i], y, Mul(y, x[i]))]

(***************************************************************************)
(* random_ot_extension: the batch is padded to whole chunks and two more.  *)
(***************************************************************************)
AdjustSize(size) ==
  LET r == size % SecurityParameter
      padded == IF r = 0 THEN size ELSE size + SecurityParameter - r
  IN padded + 2 * SecurityParameter
BatchSize == ScalarBits + SecurityParameter
AdjustedSize == AdjustSize(2 * BatchSize)
Chunks == AdjustedSize \div SecurityParameter

\* What TranscriptRng makes of a seed.
CheckWeight(seed, i) == HashToBits(<<seed, i, i * seed>>)
Checksum(seed, bits) == XorAll([i \in 1 .. Chunks |-> GfMul(Chunk(bits, i), CheckWeight(seed, i))])

ExtensionHash(i, row) == HashToScalar(<<i, Pack(row), i * Pack(row)>>)

\* correlated_ot_sender and correlated_ot_receiver.
CorrelatedSender(u, delta, k) ==
  [i \in DOMAIN u |-> Xor(u[i] \intersect delta, ExpandTranspose(k, AdjustedSize)[i])]
ChoiceRows(b) == [i \in DOMAIN b |-> IF b[i] THEN Positions ELSE {}]
CorrelatedMessage(k0, k1, b) ==
  XorRows(XorRows(ExpandTranspose(k0, AdjustedSize), ExpandTranspose(k1, AdjustedSize)), ChoiceRows(b))

\* The check of random_ot_extension_sender ("q check failed").
ExtensionCheck(q, delta, seed, x, t) ==
  \A n \in Positions :
    Checksum(seed, Column(q, n)) = Xor(t[n + 1], IF n \in delta THEN x ELSE {})

(***************************************************************************)
(* mta_sender and mta_receiver, for one of the two conversions.            *)
(***************************************************************************)
MtaWeight(seed, i) == HashToScalar(<<seed, i, seed + i>>)
MtaMessage(v0, v1, a, d) ==
  [i \in 1 .. BatchSize |-> <<Add(Add(v0[i], d[i]), a), Sub(Add(v1[i], d[i]), a)>>]
MtaSenderShare(d, chi1, seed) ==
  Sub(0, SumAll([i \in 1 .. BatchSize |-> Mul(d[i], IF i = 1 THEN chi1 ELSE MtaWeight(seed, i))]))

Signed(bit, s) == IF bit THEN Sub(0, s) ELSE s
MtaFirstWeight(t, b, seed) ==
  Signed(t[1], Sub(b, SumAll([i \in 1 .. BatchSize - 1 |-> Signed(t[i + 1], MtaWeight(seed, i + 1))])))
MtaReceiverShare(t, v, c, b, seed) ==
  SumAll([i \in 1 .. BatchSize |->
            Mul(Sub(IF t[i] THEN c[i][2] ELSE c[i][1], v[i]),
                IF i = 1 THEN MtaFirstWeight(t, b, seed) ELSE MtaWeight(seed, i))])

(***************************************************************************)
(* What the two draw (generate_random_package), and where the second of    *)
(* the two conversions begins in a result of 2 * BatchSize transfers.      *)
(***************************************************************************)
OtDelta(j) == {n \in Positions : Coin(j, j.sender, 1 + n) % 2 = 1}
OtX(j) == [i \in 1 .. SecurityParameter |-> NonZeroCoin(j, j.sender, 10 + i)]
CheckSeed(j) == Coin(j, j.sender, 20)
MtaMask(j, second) == [i \in 1 .. BatchSize |-> Coin(j, j.sender, 30 + i + (IF second THEN BatchSize ELSE 0))]
OtY(j) == NonZeroCoin(j, j.receiver, 1)
OtChoices(j) == [i \in 1 .. AdjustedSize |-> Coin(j, j.receiver, 10 + i) % 2 = 1]
MtaSeed(j, second) == Coin(j, j.receiver, IF second THEN 3 ELSE 2)
Half(s, second) == SubSeq(s, IF second THEN BatchSize + 1 ELSE 1, IF second THEN 2 * BatchSize ELSE BatchSize)

(***************************************************************************)
(* multiplication_sender, from wait to wait.                               *)
(***************************************************************************)
MultiplySender(j, k, m, in) ==
  LET r == j.receiver IN
  CASE k = 0 -> Posting(<<>>, <<>>, 1, {r})
    [] k = 1 ->
         LET y == in[r].x[1]
             points == OtChoicePoints(OtDelta(j), OtX(j), y)
         IN IF \E i \in DOMAIN points : points[i] = 0 THEN Fail("zero")   \* cannot be encoded
            ELSE AwaitAt([k |-> OtReceiverKeys(OtDelta(j), OtX(j), y)], 2, ToOne(r, Payload(points)), 3, {r})
    [] k = 2 ->
         IF Len(in[r].x) # AdjustedSize THEN Fail("rejected")
         ELSE AwaitAt([q |-> CorrelatedSender(UnpackAll(in[r].x), OtDelta(j), m.k)], 4,
                      ToOne(r, Payload(<<CheckSeed(j)>>)), 5, {r})
    [] k = 3 ->
         LET x == Unpack(in[r].x[1])
             t == [n \in 1 .. SecurityParameter |-> Unpack(in[r].x[n + 1])]
             v0 == [i \in 1 .. 2 * BatchSize |-> ExtensionHash(i, m.q[i])]
             v1 == [i \in 1 .. 2 * BatchSize |-> ExtensionHash(i, Xor(m.q[i], OtDelta(j)))]
             c(second) == FlattenSeq(MtaMessage(Half(v0, second), Half(v1, second),
                                                IF second THEN j.b[j.sender] ELSE j.a[j.sender],
                                                MtaMask(j, second)))
         IN IF Len(in[r].x) # SecurityParameter + 1 THEN Fail("rejected")
            ELSE IF ~ExtensionCheck(m.q, OtDelta(j), CheckSeed(j), x, t) THEN Fail("rejected")
            ELSE AwaitAt(<<>>, 6, ToOne(r, Payload(c(FALSE) \o c(TRUE))), 7, {r})
    [] k = 4 ->
         Return([share |-> Add(MtaSenderShare(MtaMask(j, FALSE), in[r].x[1], in[r].x[2]),
                               MtaSenderShare(MtaMask(j, TRUE), in[r].x[3], in[r].x[4]))], 0, Nobody)

(***************************************************************************)
(* multiplication_receiver.                                                *)
(***************************************************************************)
MultiplyReceiver(j, k, m, in) ==
  LET s == j.sender b == OtChoices(j) IN
  CASE k = 0 -> AwaitAt(<<>>, 1, ToOne(s, Payload(<<OtY(j)>>)), 2, {s})
    [] k = 1 ->
         LET k0 == OtSenderKeys(OtY(j), in[s].x, FALSE)
             k1 == OtSenderKeys(OtY(j), in[s].x, TRUE)
         IN AwaitAt([t |-> ExpandTranspose(k0, AdjustedSize)], 3,
                    ToOne(s, Payload(PackAll(CorrelatedMessage(k0, k1, b)))), 4, {s})
    [] k = 2 ->
         LET seed == in[s].x[1]
             t == [n \in 1 .. SecurityParameter |-> Checksum(seed, Column(m.t, n - 1))]
         IN AwaitAt(m, 5, ToOne(s, Payload(PackAll(<<Checksum(seed, b)>> \o t))), 6, {s})
    [] k = 3 ->
         LET v == [i \in 1 .. 2 * BatchSize |-> ExtensionHash(i, m.t[i])]
             c == [i \in 1 .. 2 * BatchSize |-> <<in[s].x[2 * i - 1], in[s].x[2 * i]>>]
             mine(second) == IF second THEN j.a[j.receiver] ELSE j.b[j.receiver]
             share(second) == MtaReceiverShare(Half(b, second), Half(v, second), Half(c, second),
                                               mine(second), MtaSeed(j, second))
             weight(second) == MtaFirstWeight(Half(b, second), mine(second), MtaSeed(j, second))
         IN IF Len(in[s].x) # 4 * BatchSize THEN Fail("rejected")
            ELSE Return([share |-> Add(share(FALSE), share(TRUE))], 7,
                        ToOne(s, Payload(<<weight(FALSE), MtaSeed(j, FALSE), weight(TRUE), MtaSeed(j, TRUE)>>)))

MultiplyRound(j, p, k, m, in) ==
  IF p = j.sender THEN MultiplySender(j, k, m, in) ELSE MultiplyReceiver(j, k, m, in)

\* What the two shares add up to.
CrossProduct(j) ==
  Add(Mul(j.a[j.sender], j.b[j.receiver]), Mul(j.b[j.sender], j.a[j.receiver]))
=============================================================================
