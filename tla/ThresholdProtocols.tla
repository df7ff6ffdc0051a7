------------------------- MODULE ThresholdProtocols -------------------------
(***************************************************************************)
(* The threshold protocols run by their participants (threshold-signatures *)
(* /src/protocol.rs, protocol/internal.rs, protocol/helpers.rs): each is a *)
(* future that is polled; it runs until it waits for messages, which are   *)
(* kept by channel and waitpoint in a buffer of bounded capacity until the *)
(* future asks for them.  One participant may be faulty: one of the        *)
(* payloads it sends is not the one its code computes, towards some of its *)
(* receivers.  What this does to a payload that is echo-broadcast depends  *)
(* on the size of the group (module EchoBroadcast).  Nothing else is lost  *)
(* or altered.                                                             *)
(***************************************************************************)
EXTENDS Keyshare, Ecdsa, Frost, Ckd, TripleGeneration, ObliviousTransfer

CONSTANTS
  Jobs,       \* the jobs that are run, one in each behaviour
  Faults(_)   \* the altered payloads of a job, or NoFault: who is faulty,
              \* whose payload it alters (its own, or one it echoes), at
              \* which waitpoint, towards whom and in which place

NoFault == [who |-> -1, owner |-> -1, wp |-> 0, to |-> {}, at |-> 1]

VARIABLES
  job, fault,
  step,     \* step[p]: the segments p has run
  local,    \* local[p]: what p keeps for its next segment, or its output
  waits,    \* waits[p]: the waitpoint p waits at, and for whom
  sent,     \* sent[p][wp][q]: what p has sent to q at waitpoint wp
  verdict   \* verdict[p]: "waiting", "returned", "zero" or "rejected"

vars == <<job, fault, step, local, waits, sent, verdict>>

LastWaitpoint == 8

-----------------------------------------------------------------------------
Accepts(j) ==
  CASE j.kind \in {"keygen", "reshare"} -> KeyshareAccepts(j)
    [] j.kind = "otPresign" -> OtPresignAccepts(j)
    [] j.kind = "otSign" -> SignAccepts(j)
    [] j.kind = "robustPresign" -> RobustPresignAccepts(j)
    [] j.kind = "robustSign" -> RobustSignAccepts(j)
    [] j.kind \in {"frostPresign", "eddsaV1", "eddsaV2", "redjubjub"} -> FrostAccepts(j)
    [] j.kind = "ckd" -> CkdAccepts(j)
    [] j.kind = "ckdPv" -> CkdPvAccepts(j)
    [] j.kind = "triple" -> TripleAccepts(j)
    [] j.kind = "multiply" -> TRUE

Segment(j, p, k, m, in) ==
  CASE j.kind \in {"keygen", "reshare"} -> KeyshareRound(j, p, k, m, in)
    [] j.kind = "otPresign" -> OtPresignRound(j, p, k, m, in)
    [] j.kind \in {"otSign", "robustSign"} -> SignRound(j, p, k, in)
    [] j.kind = "robustPresign" -> RobustPresignRound(j, p, k, m, in)
    [] j.kind = "frostPresign" -> FrostPresignRound(j, p, k, in)
    [] j.kind = "eddsaV1" -> EddsaV1Round(j, p, k, m, in)
    [] j.kind = "eddsaV2" -> EddsaV2Round(j, p, k, in)
    [] j.kind = "redjubjub" -> RedjubjubRound(j, p, k, in)
    [] j.kind = "ckd" -> CkdRound(j, p, k, in)
    [] j.kind = "ckdPv" -> CkdPvRound(j, p, k, in)
    [] j.kind = "triple" -> TripleRound(j, p, k, m, in)
    [] j.kind = "multiply" -> MultiplyRound(j, p, k, m, in)

\* Comms::with_buffer_capacity of each protocol.
BufferCapacityDkg == 5

\* triple_generation_max_incoming_buffer_entries, for one triple: a receiver
\* has SecurityParameter transfers and three more entries from each peer.
TripleBufferEntries(n) == (SecurityParameter + 3) * (n - 1) + 7

BufferCapacity(j) ==
  CASE j.kind \in {"keygen", "reshare"} -> BufferCapacityDkg
    [] j.kind = "robustPresign" -> 3
    [] j.kind \in {"otPresign", "eddsaV1"} -> 2
    [] j.kind = "triple" -> TripleBufferEntries(Cardinality(j.group))
    [] j.kind = "multiply" -> TripleBufferEntries(2)
    [] OTHER -> 1

\* The faulty payload: another value in one place, never the identity, which
\* the encoding of a point refuses.
Alter(payload, i) ==
  IF i \notin DOMAIN payload.x THEN payload
  ELSE [payload EXCEPT !.x[i] = IF Add(@, 1) = 0 THEN 1 ELSE Add(@, 1)]

\* What p's receivers get of what it sends at the end of a segment.  With more
\* than three participants a broadcast has one value, p's own, for all that
\* take one (EchoBroadcast!Consistency), but some may blame p instead.  With
\* up to three the thresholds are zero: each receiver takes what it hears
\* first, from p or from a faulty participant that echoes p.
Echoed(n) == n > 3

Outgoing(p, post) ==
  LET echoed == post.broadcast /\ Echoed(Cardinality(job.group))
      altered == /\ fault.owner = p /\ fault.wp = post.wp
                 /\ fault.who = p \/ (post.broadcast /\ ~echoed)
  IN [q \in DOMAIN post.send |->
        IF ~altered THEN post.send[q]
        ELSE IF echoed /\ q \in fault.to THEN Blamed
        ELSE IF echoed \/ q \in fault.to THEN Alter(post.send[q], fault.at)
        ELSE post.send[q]]

-----------------------------------------------------------------------------
Init ==
  /\ job \in {j \in Jobs : Accepts(j)}
  /\ fault \in {f \in Faults(job) : f = NoFault \/ {f.who, f.owner} \subseteq job.group}
  /\ step = [p \in job.group |-> 0]
  /\ local = [p \in job.group |-> <<>>]
  /\ waits = [p \in job.group |-> [at |-> 0, from |-> {}]]
  /\ sent = [p \in job.group |-> [wp \in 1 .. LastWaitpoint |-> Nobody]]
  /\ verdict = [p \in job.group |-> "waiting"]

Arrived(p) == \A q \in waits[p].from : p \in DOMAIN sent[q][waits[p].at]

\* poke: p's future runs from the messages it waited for to its next wait, or
\* ends with the error of do_broadcast.
Poke(p) ==
  /\ verdict[p] = "waiting"
  /\ Arrived(p)
  /\ LET in == [q \in waits[p].from |-> sent[q][waits[p].at][p]]
         r == IF \E q \in waits[p].from : in[q] = Blamed THEN Fail("rejected")
              ELSE Segment(job, p, step[p], local[p], in)
     IN /\ step' = [step EXCEPT ![p] = @ + 1]
        /\ local' = [local EXCEPT ![p] = r.local]
        /\ waits' = [waits EXCEPT ![p] = [at |-> r.at, from |-> r.from]]
        /\ sent' = [sent EXCEPT ![p] = [wp \in 1 .. LastWaitpoint |->
                      IF \E i \in DOMAIN r.posts : r.posts[i].wp = wp
                      THEN Outgoing(p, r.posts[CHOOSE i \in DOMAIN r.posts : r.posts[i].wp = wp])
                      ELSE @[wp]]]
        /\ verdict' = [verdict EXCEPT ![p] = r.verdict]
  /\ UNCHANGED <<job, fault>>

Next == \E p \in job.group : Poke(p)

Spec == Init /\ [][Next]_vars

-----------------------------------------------------------------------------
Honest == job.group \ {fault.who}
Returned == {p \in job.group : verdict[p] = "returned"}
Failed == {p \in job.group : verdict[p] \in {"zero", "rejected"}}
HonestQuorums(n) == {s \in SUBSET (Honest \intersect Returned) : Cardinality(s) = n}

Payloads == [x : Seq(Scalars), n : Nat]

\* The futures stop where they wait or end, and send well-formed scalars.
TypeOK ==
  /\ step \in [job.group -> 0 .. LastWaitpoint + 1]
  /\ verdict \in [job.group -> {"waiting", "returned", "zero", "rejected"}]
  /\ \A p \in job.group :
       /\ waits[p].from \subseteq Peers(job, p)
       /\ waits[p].at \in 0 .. LastWaitpoint
       /\ \A wp \in 1 .. LastWaitpoint : \A q \in DOMAIN sent[p][wp] :
            q # p /\ sent[p][wp][q] \in Payloads

\* Interpolation (batch_compute_lagrange_coefficients, eval_interpolation)
\* recovers a polynomial's values, at zero, at a participant's point and
\* elsewhere, from the shares of any group that is large enough, and agrees
\* with the coefficient computed one by one (compute_lagrange_coefficient).
InterpolationExact ==
  (fault = NoFault /\ "key" \in DOMAIN job /\ \A p \in job.group : step[p] = 0) =>
    \A s \in {s \in SUBSET job.group : Cardinality(s) >= Len(job.key) /\ Cardinality(s) >= 2} :
      LET ids == Identifiers(s)
          shares == [i \in DOMAIN ids |-> EvalAtPoint(job.key, ids[i])]
      IN \A x \in 0 .. Max(job.group) + 2 :
           /\ EvalInterpolation(ids, shares, x) = EvalAtPoint(job.key, x)
           /\ \A i \in DOMAIN ids : BatchLagrange(ids, x)[i] = LagrangeAt(ids, i, x)

\* do_keyshare: whatever one participant sends, the participants that return
\* from key generation or resharing return the same public key, any threshold
\* of them hold shares of its private key, and resharing keeps the key.
KeyAgreement ==
  job.kind \in {"keygen", "reshare"} =>
    /\ \A p, q \in Honest \intersect Returned : local[p].key = local[q].key
    /\ \A s \in HonestQuorums(job.threshold), p \in Honest \intersect Returned :
         Reconstruct(s, [q \in s |-> local[q].share]) = local[p].key
    /\ job.kind = "reshare" => \A p \in Honest \intersect Returned : local[p].key = OldKey(job)

\* broadcast_success: once a participant has returned a key share, every other
\* one has a share that passed its checks, and none gives up except in that
\* last broadcast, to which a faulty participant sent something else: with up
\* to three participants to one of them only, with more it may be blamed by one
\* and believed by the others.  (The contract's vote, which needs everybody,
\* decides whether the key is used.)
AllOrNothing ==
  (job.kind \in {"keygen", "reshare"} /\ Honest \intersect Returned # {}) =>
    \A p \in Honest :
      /\ step[p] >= SuccessSegment
      /\ p \in Failed => fault.wp = SuccessWaitpoint /\ step[p] = SuccessSegment + 1

\* The presigning protocols: whatever one participant sends, those who return
\* a presignature hold shares of one nonce k whose R is k * G or G / k, and
\* of the product with the private key.
OtPresignatureSound(s) ==
  LET k == Reconstruct(s, [q \in s |-> local[q].k])
      sigma == Reconstruct(s, [q \in s |-> local[q].sigma])
  IN /\ \A q \in s : Mul(local[q].bigR, k) = 1
     /\ sigma = Mul(k, PublicKey(job))
RobustPresignatureSound(s) ==
  LET c == Reconstruct(s, [q \in s |-> local[q].c])
  IN \A q \in s : Mul(local[q].bigR, c) = 1 /\ local[q].beta = Mul(local[q].c, KeyShare(job, q))
PresignaturesSound ==
  /\ job.kind = "otPresign" => \A s \in HonestQuorums(job.threshold) : OtPresignatureSound(s)
  /\ job.kind = "robustPresign" =>
       \A s \in HonestQuorums(job.malicious + 1) : RobustPresignatureSound(s)

\* A participant whose highest coefficients vanish is taken for one that sends
\* too few of them.
ShortPolynomial ==
  \/ /\ job.kind \in {"keygen", "reshare"}
     /\ \E p \in job.group : Len(KeysharePolynomial(job, p)) # job.threshold
  \/ /\ job.kind = "triple"
     /\ \E p \in job.group : \/ Len(TripleE(job, p)) # job.threshold
                             \/ Len(TripleF(job, p)) # job.threshold
                             \/ Len(TripleL(job, p)) # job.threshold - 1

\* Without a fault no check of any protocol fails: proofs of knowledge and
\* shares verify, presignatures are consistent, signatures (after
\* rerandomization, tweak and normalization) verify under the derived key,
\* and so does a publicly verifiable derived key.
NoFalseAlarm ==
  (fault = NoFault /\ "rejected" \in {verdict[p] : p \in job.group}) => ShortPolynomial

\* The application's key is the private key times the hash of its id when the
\* coordinator has returned: without a fault, and for ckd_pv with one too.
DerivedKeyCorrect ==
  (job.kind = "ckdPv" \/ (job.kind = "ckd" /\ fault = NoFault)) =>
    (job.coordinator \in Returned =>
       Unmask(job, local[job.coordinator]) = Mul(PublicKey(job), job.hashPoint))

\* MessageBuffer: the waitpoints at which a participant has ever waited or
\* been sent something stay in the buffer's map; they fit its capacity, so no
\* message of a correct execution is refused.  This says little for triples and
\* the multiplication: the waitpoints of their private channels, one channel
\* per pair, are merged into one of the model each.
Headers(p) ==
  {wp \in 1 .. LastWaitpoint : \E q \in Peers(job, p) : p \in DOMAIN sent[q][wp]}
BuffersSuffice == \A p \in job.group : Cardinality(Headers(p)) <= BufferCapacity(job)

\* No protocol hangs: without a fault, and unless some value of a participant
\* vanished, some future has all the messages it waits for until all have
\* returned (each of them runs a bounded number of segments).
NeverHangs ==
  (fault = NoFault /\ Failed = {} /\ Returned # job.group) =>
    \E p \in job.group : verdict[p] = "waiting" /\ Arrived(p)

\* Key generation and resharing agree on one key, and a key share is returned
\* only when everybody has one.
KeyshareSound == TypeOK /\ KeyAgreement /\ AllOrNothing

\* Whatever one participant sends, those who return a triple hold shares of
\* the logarithms of its public points, and c is the product of a and b.
TripleSound ==
  job.kind = "triple" =>
    \A s \in HonestQuorums(job.threshold), p \in Honest \intersect Returned :
      LET a == Reconstruct(s, [q \in s |-> local[q].a])
          b == Reconstruct(s, [q \in s |-> local[q].b])
          c == Reconstruct(s, [q \in s |-> local[q].c])
      IN c = Mul(a, b) /\ <<a, b, c>> = <<local[p].bigA, local[p].bigB, local[p].bigC>>

\* The shares that two participants get from oblivious transfer add up to the
\* cross products of their values.
MultiplicationCorrect ==
  (job.kind = "multiply" /\ fault = NoFault /\ Returned = job.group) =>
    Add(local[job.sender].share, local[job.receiver].share) = CrossProduct(job)

\* What the other protocols return is what it claims to be.
OutputsSound ==
  /\ InterpolationExact
  /\ PresignaturesSound /\ DerivedKeyCorrect /\ TripleSound /\ MultiplicationCorrect

\* Every protocol can run to its end.
ProtocolsEnd == NeverHangs /\ BuffersSuffice
=============================================================================
