------------------------ MODULE MCThresholdProtocols ------------------------
(***************************************************************************)
(* Two kinds of behaviours: a protocol run as a whole, in which a broadcast*)
(* is one message to each receiver, and one session of the reliable        *)
(* broadcast that justifies this.                                          *)
(***************************************************************************)
EXTENDS ThresholdProtocols, EchoBroadcast, TLC

CONSTANTS Seeds, ValueA, ValueB

\* The scalars that are drawn are a sample that depends on the seed.
MCCoin(j, p, i) == ((j.seed + 3) * (p * p + 2) * (i * i + 5) + i * i * i + 7 * j.seed + p) % Q

\* Dealt polynomials, with n coefficients.
Dealt(seed, c, n) == [i \in 1 .. n |-> 1 + ((seed * (c + i) + 3 * c * i + i) % (Q - 1))]
\* One with a given value at zero.
DealtWith(seed, c, n, v) == [Dealt(seed, c, n) EXCEPT ![1] = v]

Trio == {1, 2, 3}

KeygenJobs == {[kind |-> "keygen", seed |-> s, group |-> g, threshold |-> t] :
                 s \in Seeds, g \in {{1, 2}, Trio}, t \in {2, 3}}
ReshareJobs == {[kind |-> "reshare", seed |-> s, oldGroup |-> Trio, group |-> g, threshold |-> t,
                 key |-> Dealt(s, 1, 2)] : s \in Seeds, g \in {Trio, {1, 2, 4}, {1, 2, 3, 4}}, t \in {2, 3}}

OtPresignJobs ==
  {LET k == Dealt(s, 1, 2) d == Dealt(s, 2, 2) a == Dealt(s, 3, 2) b == Dealt(s, 4, 2)
   IN [kind |-> "otPresign", seed |-> s, group |-> Trio, threshold |-> 2, key |-> Dealt(s, 7, 2),
       k |-> k, d |-> d, e |-> DealtWith(s, 5, 2, Mul(k[1], d[1])),
       a |-> a, b |-> b, c |-> DealtWith(s, 6, 2, Mul(a[1], b[1]))] : s \in Seeds}

SignFields(s, g) == [seed |-> s, group |-> g, threshold |-> 2, coordinator |-> IF s % 2 = 0 THEN 1 ELSE Max(g),
                  key |-> Dealt(s, 7, 2), tweak |-> s % Q, delta |-> 1 + (s % (Q - 1)),
                  msgHash |-> 1 + ((3 * s) % (Q - 1))]
OtSignJobs ==
  {LET k == Dealt(s, 1, 2)
   IN [kind |-> "otSign", k |-> k, bigR |-> Invert(k[1]),
       sigma |-> DealtWith(s, 2, 2, Mul(k[1], Dealt(s, 7, 2)[1]))] @@ SignFields(s, g) :
     s \in Seeds, g \in {{1, 2}, Trio}}
RobustPresignJobs == {[kind |-> "robustPresign", seed |-> s, group |-> Trio, malicious |-> 1,
                       key |-> Dealt(s, 7, 2)] : s \in Seeds}
RobustSignJobs ==
  {LET c == Dealt(s, 1, 2)
   IN [kind |-> "robustSign", malicious |-> 1, c |-> c, bigR |-> Invert(c[1]),
       alpha |-> DealtWith(s, 2, 3, c[1]), e |-> DealtWith(s, 3, 3, 0)] @@ SignFields(s, Trio) :
     s \in Seeds}
FrostJobs == {[kind |-> k, message |-> s % Q, randomizer |-> (5 * s) % Q] @@ SignFields(s, g) :
                k \in {"frostPresign", "eddsaV1", "eddsaV2", "redjubjub"}, s \in Seeds,
                g \in {{1, 3}, Trio}}
CkdJobs == {[kind |-> k, seed |-> s, group |-> Trio, coordinator |-> 2, key |-> Dealt(s, 7, 2),
             appSk |-> 1 + (s % (Q - 1)), pk1 |-> 1 + (s % (Q - 1)), pk2 |-> 1 + (s % (Q - 1)),
             hashPoint |-> 1 + ((s * s) % (Q - 1))] : k \in {"ckd", "ckdPv"}, s \in Seeds}

TripleJobs == {[kind |-> "triple", seed |-> s, group |-> g, threshold |-> t] :
                 s \in Seeds, g \in {{1, 2}, Trio}, t \in {2, 3}}
MultiplyJobs == {[kind |-> "multiply", seed |-> s, group |-> {1, 2}, sender |-> 1, receiver |-> 2,
                  a |-> Dealt(s, 1, 2), b |-> Dealt(s, 2, 2)] : s \in Seeds \union {11, 12}}

MCJobs == TripleJobs \union MultiplyJobs \union KeygenJobs \union ReshareJobs \union OtPresignJobs \union OtSignJobs
          \union RobustPresignJobs \union RobustSignJobs \union FrostJobs \union CkdJobs

\* The faults that a job can meet: one participant alters one scalar, of its
\* own or, in a broadcast that is not echoed, of another's.
Alters(senders, wps, targets, places) ==
  {[who |-> p, owner |-> p, wp |-> w, to |-> {q}, at |-> i] :
     p \in senders, w \in wps, q \in targets, i \in places}

\* To everybody or one; with four participants also blamed by one that others
\* believe, whether or not they got what the code computes (place 99).
BroadcastFaults(j) ==
  {[who |-> p, owner |-> p, wp |-> w, to |-> to, at |-> i] :
     p \in {1, 3}, w \in {1, 3, 5}, to \in {{}, {2}, j.group}, i \in {1, 2, 3, 99}}
  \union [who : {3}, owner : {1}, wp : {1, 3, 5}, to : {{2}}, at : 1 .. 3]

MCFaults(j) ==
  {NoFault} \union
  CASE j.kind \in {"keygen", "reshare"} -> Alters({1, 3}, {2, 4}, {2}, 1 .. 3) \union BroadcastFaults(j)
    [] j.kind = "triple" -> Alters({3}, 1 .. 8, {2}, 1 .. 2)
                            \union Alters({1}, {3}, {2}, {1, 3, 5, 6, 7, 9})
    [] j.kind = "multiply" -> Alters({1, 2}, 1 .. 7, {1, 2}, {1})
    [] OTHER -> Alters({1, 3}, 1 .. 3, {2}, 1 .. 3)

(***************************************************************************)
(* Sessions of the broadcast.                                              *)
(***************************************************************************)
MCValues == {ValueA, ValueB}

Quartet == {1, 2, 3, 4}

\* Three honest participants, and four with a faulty one that owns the
\* session or does not.  Up to the names of participants and values, a faulty
\* owner that lies tells one participant something else than the others; a
\* message it holds back is one that is never received.
MCSetups ==
  {[group |-> Trio, faulty |-> {}, owner |-> 1, sends |-> [p \in Trio |-> ValueA]],
   [group |-> Quartet, faulty |-> {4}, owner |-> 1, sends |-> [p \in Quartet |-> ValueA]],
   [group |-> Quartet, faulty |-> {4}, owner |-> 4,
    sends |-> [p \in Quartet |-> IF p = 3 THEN ValueB ELSE ValueA]]}

VARIABLE broadcasting   \* which of the two kinds of behaviours this is

\* What does not move: a key generation that has not begun, and a session
\* whose owner is silent.
IdleRun == CHOOSE j \in KeygenJobs : j.threshold = 2 /\ j.group = {1, 2}
IdleSession == CHOOSE s \in MCSetups : s.owner \in s.faulty

MCInit ==
  /\ \/ broadcasting = TRUE /\ job = IdleRun /\ fault = NoFault
     \/ broadcasting = FALSE /\ setup = IdleSession
  /\ Init
  /\ EchoInit

MCNext ==
  /\ UNCHANGED broadcasting
  /\ \/ ~broadcasting /\ Next /\ UNCHANGED echoVars
     \/ broadcasting /\ EchoNext /\ UNCHANGED vars

MCSpec == MCInit /\ [][MCNext]_<<vars, echoVars, broadcasting>>
=============================================================================
