------------------------------- MODULE Rounds -------------------------------
(***************************************************************************)
(* What the threshold protocols have in common: one participant's part is  *)
(* an asynchronous function that runs from one wait for messages to the    *)
(* next.  A round of the model is such a segment: an operator of the job,  *)
(* the participant, its local variables and the messages it waited for.    *)
(*                                                                         *)
(* A job is the input all participants agree on: kind, group, threshold,   *)
(* coordinator and what the protocol needs besides.  A payload carries     *)
(* scalars and points in x; n tells where the first of its parts ends.     *)
(***************************************************************************)
EXTENDS Polynomials

CONSTANT Coin(_, _, _)   \* Coin(j, p, i): the i-th scalar p draws in job j

NonZeroCoin(j, p, i) == 1 + (Coin(j, p, i) % (Q - 1))

Payload(x) == [x |-> x, n |-> Len(x)]
Peers(j, p) == j.group \ {p}
ToAll(j, p, payload) == [q \in Peers(j, p) |-> payload]

ToOne(q, payload) == [r \in {q} |-> payload]
Nobody == [r \in {} |-> Payload(<<>>)]

(***************************************************************************)
(* The ends of a segment: send on a waitpoint, or on several, and wait,    *)
(* there or at another waitpoint, for the messages of from                 *)
(* (recv_from_others, or a loop that skips what does not come from the     *)
(* coordinator); return after                                              *)
(* a last message; give up.  A value that happens to vanish ("zero") has   *)
(* negligible probability in the real field and is told from a check that  *)
(* fails ("rejected").                                                     *)
(***************************************************************************)
Post(wp, send) == [wp |-> wp, send |-> send, broadcast |-> FALSE]
Posting(local, posts, at, from) ==
  [verdict |-> "waiting", local |-> local, posts |-> posts, at |-> at, from |-> from]
AwaitAt(local, wp, send, at, from) == Posting(local, <<Post(wp, send)>>, at, from)
Await(local, wp, send, from) == AwaitAt(local, wp, send, wp, from)

\* do_broadcast.  What the receivers get from a faulty owner is up to
\* ThresholdProtocols!Outgoing; Blamed is the error that ends a receiver which
\* cannot collect enough echoes.
Blamed == [x |-> <<>>, n |-> 1]
Broadcast(j, p, local, wp, payload) ==
  [Await(local, wp, ToAll(j, p, payload), Peers(j, p)) EXCEPT !.posts[1].broadcast = TRUE]

Return(output, wp, send) ==
  [Posting(output, IF wp = 0 THEN <<>> ELSE <<Post(wp, send)>>, 0, {}) EXCEPT !.verdict = "returned"]

Fail(why) == [Posting(<<>>, <<>>, 0, {}) EXCEPT !.verdict = why]

\* KeygenOutput: the share of the job's key, and its public key.
KeyShare(j, p) == EvalAtParticipant(j.key, p)
PublicKey(j) == EvalAtZero(j.key)

\* The shares of the participants in the order of the list, where in holds
\* what came from the others.
Collected(j, p, mine, in) == [q \in j.group |-> IF q = p THEN mine ELSE in[q]]
InOrder(j, values) == ListOf(j.group, LAMBDA q : values[q])
SumOver(j, values) == SumAll(InOrder(j, values))

\* The scalar a hash of scalars is mapped to: a fixed function of them, in
\* which every argument counts.  Over a small field it has collisions.
HashToScalar(s) == SumAll([i \in DOMAIN s |-> Mul(i + 1, s[i])])
=============================================================================
