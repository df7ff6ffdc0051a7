----------------------- MODULE ContractRequestsProofs -----------------------
(***************************************************************************)
(* Proofs about ContractRequests, for any set of requests, keys, accounts  *)
(* and any number of submissions.  The inductive invariant adds to the     *)
(* properties that two unanswered yields of one request are both marked as *)
(* resubmitted (Twins) and that a domain still has the key it had when a   *)
(* request for it was submitted (ServedBySame).                            *)
(***************************************************************************)
EXTENDS ContractRequests, SequenceTheorems, TLAPS

Twins ==
  \A i, j \in 1 .. Len(yields) :
    /\ i # j
    /\ yields[i].request = yields[j].request
    /\ Unanswered(yields[i])
    /\ Unanswered(yields[j])
    => yields[i].resubmitted

ServedBySame ==
  \A i \in 1 .. Len(yields) :
    /\ yields[i].served_by = KeysOf(yields[i].request.domain_id)
    /\ \E k \in keys : k.domain_id = yields[i].request.domain_id

ReqInv ==
  /\ TypeOK
  /\ Twins
  /\ ServedBySame
  /\ PendingIsYoungest
  /\ AnswerableUnlessResubmitted
  /\ AnswersAreOwn

(***************************************************************************)
(* Sequences given as functions.                                           *)
(***************************************************************************)

\* A function on 1 .. n is a sequence of length n.
LEMMA FunctionIsSeq ==
  ASSUME NEW S, NEW n \in Nat, NEW f \in [1 .. n -> S]
  PROVE  f \in Seq(S) /\ Len(f) = n
<1>1. f \in Seq(S)
  BY SeqDef
<1>2. DOMAIN f = 1 .. Len(f) /\ Len(f) \in Nat /\ DOMAIN f = 1 .. n
  BY <1>1, LenProperties
<1> QED
  BY <1>1, <1>2

\* The yields are a function on 1 .. Len(yields).
LEMMA YieldsFunction ==
  ASSUME TypeOK
  PROVE  /\ Len(yields) \in Nat
         /\ yields \in [1 .. Len(yields) -> Yields]
         /\ pending \in [DOMAIN pending -> 1 .. Len(yields)]
         /\ DOMAIN pending \subseteq Requests
<1>1. yields \in Seq(Yields)
  BY DEF TypeOK
<1>2. Len(yields) \in Nat /\ yields \in [1 .. Len(yields) -> Yields]
  BY <1>1, LenProperties, ElementOfSeq
<1> QED
  BY <1>2 DEF TypeOK

(***************************************************************************)
(* What the steps do to the yields.                                        *)
(***************************************************************************)

\* A request r is submitted: its yield comes last, and the unanswered ones
\* of the same request are marked.
Submitted(r) ==
  /\ r \in Requests
  /\ \E k \in keys : k.domain_id = r.domain_id
  /\ UNCHANGED serviceVars
  /\ Len(yields') = Len(yields) + 1
  /\ LET n == Len(yields) + 1
         twins == {i \in 1 .. Len(yields) : yields[i].request = r /\ Unanswered(yields[i])}
     IN /\ yields'[n].request = r
        /\ yields'[n].state = "waiting"
        /\ yields'[n].served_by = KeysOf(r.domain_id)
        /\ yields'[n].resubmitted = (twins # {})
  /\ \A i \in 1 .. Len(yields) :
       /\ yields'[i].request = yields[i].request
       /\ yields'[i].state = yields[i].state
       /\ yields'[i].answer = yields[i].answer
       /\ yields'[i].served_by = yields[i].served_by
       /\ yields'[i].resubmitted = (yields[i].resubmitted \/ (yields[i].request = r /\ Unanswered(yields[i])))
  /\ pending' = [x \in DOMAIN pending \union {r} |-> IF x = r THEN Len(yields) + 1 ELSE pending[x]]

\* The answer of a yield is one that its caller may get.
AnswerIsOwn(y) ==
  /\ y.request.kind = "Sign" => y.answer.payload = y.request.payload
  /\ y.request.kind # "CKD" => y.answer.key \in y.served_by

\* Yield i goes on to a later state, and the requests R leave the map.
Moved(i, R) ==
  /\ i \in 1 .. Len(yields)
  /\ yields' \in Seq(Yields)
  /\ Len(yields') = Len(yields)
  /\ \A j \in 1 .. Len(yields) :
       /\ yields'[j].request = yields[j].request
       /\ yields'[j].served_by = yields[j].served_by
       /\ yields'[j].resubmitted = yields[j].resubmitted
       /\ j # i => yields'[j].state = yields[j].state /\ yields'[j].answer = yields[j].answer
  /\ yields'[i].state # "waiting"
  /\ Unanswered(yields'[i]) => Unanswered(yields[i])
  /\ \/ R = {yields[i].request} /\ Unanswered(yields[i])
     \/ R = {} /\ (Unanswered(yields'[i]) \/ ~Unanswered(yields[i]))
  /\ yields'[i].state \in {"resumed", "answered"} => AnswerIsOwn(yields'[i])
  /\ pending' = Without(pending, R)
  /\ UNCHANGED <<serviceVars, foreign_chain_policy>>

\* AddRequest has that shape.
LEMMA YieldShape ==
  ASSUME TypeOK, NEW r \in Requests, NEW k \in keys, k.domain_id = r.domain_id,
         AddRequest(r), UNCHANGED serviceVars
  PROVE  Submitted(r) /\ yields' \in Seq(Yields)
<1> DEFINE n == Len(yields) + 1
           twins == {i \in 1 .. Len(yields) : yields[i].request = r /\ Unanswered(yields[i])}
           new == [request |-> r, state |-> "waiting", answer |-> NoAnswer,
                   served_by |-> KeysOf(r.domain_id), resubmitted |-> twins # {}]
<1>1. n \in Nat /\ Len(yields) \in Nat /\ yields \in [1 .. Len(yields) -> Yields]
  BY YieldsFunction
<1>2. yields' = [i \in 1 .. n |-> IF i = n THEN new
                                  ELSE [yields[i] EXCEPT !.resubmitted = @ \/ i \in twins]]
  BY DEF AddRequest, Yield
<1>3. new \in Yields
  <2>1. KeysOf(r.domain_id) \in SUBSET PublicKeys
    BY KeysAssumption DEF TypeOK, KeysOf
  <2>2. (twins # {}) \in BOOLEAN
    OBVIOUS
  <2> HIDE DEF twins
  <2> QED
    BY <2>1, <2>2 DEF Yields, YieldStates
<1>4. \A i \in twins : i \in 1 .. Len(yields) /\ i # n
  BY <1>1
<1>5. ASSUME NEW i \in 1 .. Len(yields)
      PROVE  /\ yields'[i] \in Yields
             /\ yields'[i].request = yields[i].request
             /\ yields'[i].state = yields[i].state
             /\ yields'[i].answer = yields[i].answer
             /\ yields'[i].served_by = yields[i].served_by
             /\ yields'[i].resubmitted = (yields[i].resubmitted \/ i \in twins)
  <2>1. yields[i] \in Yields /\ i # n /\ i \in 1 .. n
    BY <1>1
  <2>2. yields'[i] = [yields[i] EXCEPT !.resubmitted = @ \/ i \in twins]
    BY <1>2, <2>1
  <2>3. (yields[i].resubmitted \/ i \in twins) \in BOOLEAN
    OBVIOUS
  <2> HIDE DEF twins
  <2> QED
    BY <2>1, <2>2, <2>3 DEF Yields
<1>6. yields'[n] = new
  BY <1>1, <1>2, <1>4
<1>7. yields' \in [1 .. n -> Yields]
  <2>1. \A i \in 1 .. n : yields'[i] \in Yields
    BY <1>1, <1>3, <1>5, <1>6
  <2>2. yields' = [i \in 1 .. n |-> yields'[i]]
    BY <1>2
  <2> QED
    BY <2>1, <2>2
<1>8. yields' \in Seq(Yields) /\ Len(yields') = n
  BY <1>1, <1>7, FunctionIsSeq
<1>9. pending' = [x \in DOMAIN pending \union {r} |-> IF x = r THEN Len(yields) + 1 ELSE pending[x]]
  BY DEF AddRequest
<1>10. \A i \in 1 .. Len(yields) : i \in twins <=> (yields[i].request = r /\ Unanswered(yields[i]))
  OBVIOUS
<1> QED
  BY <1>5, <1>6, <1>8, <1>9, <1>10 DEF Submitted

(***************************************************************************)
(* One yield changes.                                                      *)
(***************************************************************************)

\* The yield y in state s with answer a.
WithAnswer(y, s, a) == [request |-> y.request, state |-> s, answer |-> a,
                        served_by |-> y.served_by, resubmitted |-> y.resubmitted]

\* Replacing the state of a record.
LEMMA RecordState ==
  ASSUME NEW A, NEW B, NEW C, NEW D, NEW E, NEW s,
         NEW y \in [request : A, state : B, answer : C, served_by : D, resubmitted : E]
  PROVE  [y EXCEPT !.state = s] = WithAnswer(y, s, y.answer)
BY DEF WithAnswer

\* Replacing the answer of a record.
LEMMA RecordAnswer ==
  ASSUME NEW A, NEW B, NEW C, NEW D, NEW E, NEW a,
         NEW y \in [request : A, state : B, answer : C, served_by : D, resubmitted : E]
  PROVE  [y EXCEPT !.answer = a] = WithAnswer(y, y.state, a)
BY DEF WithAnswer

\* The fields of WithAnswer.
LEMMA WithAnswerFields ==
  ASSUME NEW y \in Yields, NEW s \in YieldStates, NEW a \in Answers \union {NoAnswer}
  PROVE  /\ WithAnswer(y, s, a) \in Yields
         /\ WithAnswer(y, s, a).state = s
         /\ WithAnswer(y, s, a).answer = a
         /\ WithAnswer(y, s, a).request = y.request
         /\ WithAnswer(y, s, a).served_by = y.served_by
         /\ WithAnswer(y, s, a).resubmitted = y.resubmitted
BY DEF Yields, WithAnswer

\* Writing two fields of f[i] amounts to replacing it.
AnswerReplacesYield(f, i, s, a) ==
  [f EXCEPT ![i].state = s, ![i].answer = a] = [f EXCEPT ![i] = WithAnswer(f[i], s, a)]

\* A new state and an answer for yield i.
LEMMA NewStateAndAnswer ==
  ASSUME NEW n, NEW f \in [1 .. n -> Yields], NEW i \in 1 .. n, NEW s \in YieldStates,
         NEW a \in Answers \union {NoAnswer}
  PROVE  AnswerReplacesYield(f, i, s, a)
<1> DEFINE y == WithAnswer(f[i], s, f[i].answer)
<1>1. f[i] \in Yields
  OBVIOUS
<1>2. [f[i] EXCEPT !.state = s] = y
  BY <1>1, RecordState DEF Yields, WithAnswer
<1>3. /\ y \in Yields
      /\ y.state = s
      /\ y.request = f[i].request
      /\ y.served_by = f[i].served_by
      /\ y.resubmitted = f[i].resubmitted
  <2>1. f[i].answer \in Answers \union {NoAnswer}
    BY <1>1 DEF Yields
  <2> QED
    BY <1>1, <2>1, WithAnswerFields
<1> HIDE DEF y
<1>4. [y EXCEPT !.answer = a] = WithAnswer(y, s, a)
  BY <1>3, RecordAnswer DEF Yields, WithAnswer
<1>5. WithAnswer(y, s, a) = WithAnswer(f[i], s, a)
  BY <1>3 DEF WithAnswer
<1>6. [f EXCEPT ![i].state = s, ![i].answer = a]
        = [f EXCEPT ![i] = [[f[i] EXCEPT !.state = s] EXCEPT !.answer = a]]
  OBVIOUS
<1> QED
  BY <1>2, <1>4, <1>5, <1>6 DEF AnswerReplacesYield

\* The step gives yield i the state s and the answer a and leaves the rest.
OneChanged(i, s, a) ==
  /\ yields' \in Seq(Yields)
  /\ Len(yields') = Len(yields)
  /\ \A j \in 1 .. Len(yields) :
       /\ yields'[j].request = yields[j].request
       /\ yields'[j].served_by = yields[j].served_by
       /\ yields'[j].resubmitted = yields[j].resubmitted
       /\ j # i => yields'[j].state = yields[j].state /\ yields'[j].answer = yields[j].answer
  /\ yields'[i].state = s
  /\ yields'[i].answer = a

\* Such is a step that replaces one yield.
LEMMA OneYieldChanges ==
  ASSUME TypeOK, NEW i \in 1 .. Len(yields), NEW s \in YieldStates,
         NEW a \in Answers \union {NoAnswer},
         yields' = [yields EXCEPT ![i] = WithAnswer(yields[i], s, a)]
  PROVE  OneChanged(i, s, a)
<1> DEFINE y == WithAnswer(yields[i], s, a)
<1>1. Len(yields) \in Nat /\ yields \in [1 .. Len(yields) -> Yields]
  BY YieldsFunction
<1>2. /\ y \in Yields
      /\ y.request = yields[i].request
      /\ y.served_by = yields[i].served_by
      /\ y.resubmitted = yields[i].resubmitted
      /\ y.state = s
      /\ y.answer = a
  BY <1>1, WithAnswerFields
<1>3. yields' = [yields EXCEPT ![i] = y]
  OBVIOUS
<1> HIDE DEF y
<1>4. yields' \in [1 .. Len(yields) -> Yields]
  BY <1>1, <1>2, <1>3
<1>5. yields'[i] = y /\ \A j \in 1 .. Len(yields) : j # i => yields'[j] = yields[j]
  BY <1>1, <1>3
<1>6. yields' \in Seq(Yields) /\ Len(yields') = Len(yields)
  BY <1>1, <1>4, FunctionIsSeq
<1> QED
  BY <1>2, <1>5, <1>6 DEF OneChanged

\* A new state alone: the answer stays.
LEMMA StateChanges ==
  ASSUME TypeOK, NEW i \in 1 .. Len(yields), NEW s \in YieldStates,
         yields' = [yields EXCEPT ![i].state = s]
  PROVE  OneChanged(i, s, yields[i].answer) /\ yields[i].answer \in Answers \union {NoAnswer}
<1> DEFINE a == yields[i].answer
<1>1. yields \in [1 .. Len(yields) -> Yields]
  BY YieldsFunction
<1>2. yields[i] \in Yields
  BY <1>1
<1>3. a \in Answers \union {NoAnswer}
  BY <1>2 DEF Yields
<1>4. yields' = [yields EXCEPT ![i] = WithAnswer(yields[i], s, a)]
  <2>1. [yields[i] EXCEPT !.state = s] = WithAnswer(yields[i], s, a)
    BY <1>2, RecordState DEF Yields, WithAnswer
  <2>2. yields' = [yields EXCEPT ![i] = [yields[i] EXCEPT !.state = s]]
    BY <1>1
  <2> QED
    BY <2>1, <2>2
<1> HIDE DEF a
<1>5. OneChanged(i, s, a)
  BY <1>3, <1>4, OneYieldChanges
<1> QED
  BY <1>3, <1>5 DEF a

\* Nothing is removed from a map that stays as it is.
LEMMA WithoutNothing ==
  ASSUME TypeOK
  PROVE  pending = Without(pending, {})
<1>1. pending \in [DOMAIN pending -> 1 .. Len(yields)]
  BY DEF TypeOK
<1> QED
  BY <1>1 DEF Without

\* A step that gives yield i the state s and the answer a is a move.
LEMMA MoveShape ==
  ASSUME TypeOK, NEW i \in 1 .. Len(yields), NEW s \in YieldStates \ {"waiting"},
         NEW a \in Answers \union {NoAnswer}, NEW R,
         OneChanged(i, s, a),
         s = "timed_out" => Unanswered(yields[i]),
         \/ R = {yields[i].request} /\ Unanswered(yields[i])
         \/ R = {} /\ (s = "timed_out" \/ ~Unanswered(yields[i])),
         s \in {"resumed", "answered"} =>
           /\ yields[i].request.kind = "Sign" => a.payload = yields[i].request.payload
           /\ yields[i].request.kind # "CKD" => a.key \in yields[i].served_by,
         pending' = Without(pending, R),
         UNCHANGED <<serviceVars, foreign_chain_policy>>
  PROVE  Moved(i, R)
<1>1. Unanswered(yields'[i]) <=> s = "timed_out"
  BY DEF OneChanged, Unanswered, YieldStates
<1>2. s \in {"resumed", "answered"} => AnswerIsOwn(yields'[i])
  BY DEF OneChanged, AnswerIsOwn
<1> QED
  BY <1>1, <1>2 DEF Moved, OneChanged

\* The runtime drops a yield.
LEMMA TimesOutShape ==
  ASSUME TypeOK, NEW i \in 1 .. Len(yields), YieldTimesOut(i)
  PROVE  Moved(i, {})
<1>1. OneChanged(i, "timed_out", yields[i].answer) /\ yields[i].answer \in Answers \union {NoAnswer}
  <2>1. yields' = [yields EXCEPT ![i].state = "timed_out"] /\ "timed_out" \in YieldStates
    BY DEF YieldTimesOut, YieldStates
  <2> QED
    BY <2>1, StateChanges
<1>2. pending' = Without(pending, {})
  BY WithoutNothing DEF YieldTimesOut
<1>3. Unanswered(yields[i])
  BY DEF YieldTimesOut, Unanswered
<1> QED
  BY <1>1, <1>2, <1>3, MoveShape DEF YieldTimesOut, YieldStates

\* The callback of a dropped yield.
LEMMA CallbackTimeoutShape ==
  ASSUME TypeOK, NEW i \in 1 .. Len(yields), CallbackTimeout(i)
  PROVE  Moved(i, {yields[i].request})
<1>1. OneChanged(i, "failed", yields[i].answer) /\ yields[i].answer \in Answers \union {NoAnswer}
  <2>1. yields' = [yields EXCEPT ![i].state = "failed"] /\ "failed" \in YieldStates
    BY DEF CallbackTimeout, YieldStates
  <2> QED
    BY <2>1, StateChanges
<1>2. Unanswered(yields[i])
  BY DEF CallbackTimeout, Unanswered
<1> QED
  BY <1>1, <1>2, MoveShape DEF CallbackTimeout, YieldStates

\* The callback of a resumed yield.
LEMMA CallbackSuccessShape ==
  ASSUME TypeOK, AnswersAreOwn, NEW i \in 1 .. Len(yields), CallbackSuccess(i)
  PROVE  Moved(i, {})
<1>1. OneChanged(i, "answered", yields[i].answer) /\ yields[i].answer \in Answers \union {NoAnswer}
  <2>1. yields' = [yields EXCEPT ![i].state = "answered"] /\ "answered" \in YieldStates
    BY DEF CallbackSuccess, YieldStates
  <2> QED
    BY <2>1, StateChanges
<1>2. pending' = Without(pending, {})
  BY WithoutNothing DEF CallbackSuccess
<1>3. ~Unanswered(yields[i])
  BY DEF CallbackSuccess, Unanswered
<1>4. /\ yields[i].request.kind = "Sign" => yields[i].answer.payload = yields[i].request.payload
      /\ yields[i].request.kind # "CKD" => yields[i].answer.key \in yields[i].served_by
  BY DEF CallbackSuccess, AnswersAreOwn
<1>5. "answered" \in YieldStates \ {"waiting"} /\ UNCHANGED <<serviceVars, foreign_chain_policy>>
  BY DEF CallbackSuccess, YieldStates
<1> QED
  BY <1>1, <1>2, <1>3, <1>4, <1>5, MoveShape

\* A response: the yield of the entry is resumed or, when the runtime has
\* dropped it already, stays as it is.
LEMMA ResponseShape ==
  ASSUME TypeOK, ServedBySame, PendingIsYoungest,
         NEW r \in Requests, NEW a \in Answers,
         r.kind = "Sign" => a.payload = r.payload,
         r.kind # "CKD" => a.key \in KeysOf(r.domain_id),
         ResolvePending(r, a)
  PROVE  \E i \in 1 .. Len(yields) : Moved(i, {yields[i].request})
<1> DEFINE i == pending[r]
<1>1. /\ i \in 1 .. Len(yields)
      /\ yields[i].request = r
      /\ Unanswered(yields[i])
      /\ yields[i].served_by = KeysOf(r.domain_id)
  <2>1. i \in 1 .. Len(yields)
    BY DEF ResolvePending, TypeOK
  <2>2. yields[i].request = r /\ Unanswered(yields[i])
    BY DEF ResolvePending, PendingIsYoungest
  <2> QED
    BY <2>1, <2>2 DEF ServedBySame
<1>2. pending' = Without(pending, {yields[i].request}) /\ yields' = Resume(i, a)
      /\ UNCHANGED <<serviceVars, foreign_chain_policy>>
  BY <1>1 DEF ResolvePending
<1> HIDE DEF i
<1>3. CASE yields[i].state = "waiting"
  <2>1. OneChanged(i, "resumed", a)
    <3>1. yields' = [yields EXCEPT ![i] = WithAnswer(yields[i], "resumed", a)]
      <4>1. yields' = [yields EXCEPT ![i].state = "resumed", ![i].answer = a]
        BY <1>2, <1>3 DEF Resume
      <4>2. yields \in [1 .. Len(yields) -> Yields]
        BY YieldsFunction
      <4>3. "resumed" \in YieldStates /\ a \in Answers \union {NoAnswer}
        BY DEF YieldStates
      <4>4. [yields EXCEPT ![i].state = "resumed", ![i].answer = a]
              = [yields EXCEPT ![i] = WithAnswer(yields[i], "resumed", a)]
        <5>1. AnswerReplacesYield(yields, i, "resumed", a)
          BY <1>1, <4>2, <4>3, NewStateAndAnswer
        <5> QED
          BY <5>1 DEF AnswerReplacesYield
      <4> QED
        BY <4>1, <4>4
    <3> QED
      BY <1>1, <3>1, OneYieldChanges DEF YieldStates
  <2>2. /\ yields[i].request.kind = "Sign" => a.payload = yields[i].request.payload
        /\ yields[i].request.kind # "CKD" => a.key \in yields[i].served_by
    BY <1>1
  <2> QED
    BY <1>1, <1>2, <2>1, <2>2, MoveShape DEF YieldStates
<1>4. CASE yields[i].state # "waiting"
  <2>1. yields' = yields /\ yields[i].state = "timed_out"
    BY <1>1, <1>2, <1>4 DEF Resume, Unanswered
  <2>2. yields \in Seq(Yields)
    BY DEF TypeOK
  <2> QED
    BY <1>1, <1>2, <2>1, <2>2 DEF Moved
<1> QED
  BY <1>3, <1>4

\* The three node calls are responses whose answers are checked as far as
\* AnswersAreOwn says.
LEMMA NodeCallShape ==
  ASSUME TypeOK, ServedBySame, PendingIsYoungest,
         NEW c \in Accounts, NEW r \in Requests, NEW a \in Answers, NodeCall(c, r, a)
  PROVE  \E i \in 1 .. Len(yields) : Moved(i, {yields[i].request})
<1>1. /\ r.kind = "Sign" => a.payload = r.payload
      /\ r.kind # "CKD" => a.key \in KeysOf(r.domain_id)
      /\ ResolvePending(r, a)
  BY DEF NodeCall, Respond, RespondCkd, RespondVerifyForeignTx, SignatureVerifies
<1> QED
  BY <1>1, ResponseShape

(***************************************************************************)
(* A submission keeps the invariant.                                       *)
(***************************************************************************)
LEMMA SubmittedKeepsInv ==
  ASSUME ReqInv, NEW r, Submitted(r), yields' \in Seq(Yields), UNCHANGED foreign_chain_policy
  PROVE  ReqInv'
<1> DEFINE n == Len(yields) + 1
           Twin(i) == yields[i].request = r /\ Unanswered(yields[i])
<1>1. /\ Len(yields) \in Nat
      /\ Len(yields') = n
      /\ n \in 1 .. Len(yields')
      /\ \A i \in 1 .. Len(yields') : i = n \/ i \in 1 .. Len(yields)
      /\ \A i \in 1 .. Len(yields) : i \in 1 .. Len(yields') /\ i # n
  BY YieldsFunction DEF ReqInv, Submitted
<1>2. \A i \in 1 .. Len(yields) :
        /\ yields'[i].request = yields[i].request
        /\ yields'[i].state = yields[i].state
        /\ yields'[i].answer = yields[i].answer
        /\ yields'[i].served_by = yields[i].served_by
  BY DEF Submitted
<1>3. \A i \in 1 .. Len(yields) : Unanswered(yields'[i]) <=> Unanswered(yields[i])
  BY <1>2 DEF Unanswered
<1>4. \A i \in 1 .. Len(yields) : yields'[i].resubmitted <=> yields[i].resubmitted \/ Twin(i)
  BY DEF Submitted
<1>5. /\ yields'[n].request = r
      /\ yields'[n].state = "waiting"
      /\ yields'[n].served_by = KeysOf(r.domain_id)
      /\ yields'[n].resubmitted <=> \E i \in 1 .. Len(yields) : Twin(i)
  BY DEF Submitted
<1>6. /\ DOMAIN pending' = DOMAIN pending \union {r}
      /\ pending'[r] = n
      /\ \A x \in DOMAIN pending : x # r => pending'[x] = pending[x]
      /\ \A x \in DOMAIN pending : x \in Requests /\ pending[x] \in 1 .. Len(yields)
      /\ r \in Requests
  BY DEF Submitted, ReqInv, TypeOK
<1>7. TypeOK'
  <2>1. pending' \in [DOMAIN pending' -> 1 .. Len(yields')]
    <3>1. pending' = [x \in DOMAIN pending' |-> pending'[x]]
      BY DEF Submitted
    <3>2. \A x \in DOMAIN pending' : pending'[x] \in 1 .. Len(yields')
      BY <1>1, <1>6
    <3> QED
      BY <3>1, <3>2
  <2>2. DOMAIN pending' \subseteq Requests
    BY <1>6
  <2> QED
    BY <2>1, <2>2 DEF TypeOK, ReqInv, Submitted, serviceVars
<1> HIDE DEF Twin
<1>8. Twins'
  <2> SUFFICES ASSUME NEW i \in 1 .. Len(yields'), NEW j \in 1 .. Len(yields'), i # j,
                      yields'[i].request = yields'[j].request,
                      Unanswered(yields'[i]), Unanswered(yields'[j])
               PROVE  yields'[i].resubmitted
    BY DEF Twins
  <2>1. CASE i = n
    <3>1. j \in 1 .. Len(yields) /\ Twin(j)
      BY <1>1, <1>2, <1>3, <1>5, <2>1 DEF Twin
    <3> QED
      BY <1>5, <2>1, <3>1
  <2>2. CASE j = n
    <3>1. i \in 1 .. Len(yields) /\ Twin(i)
      BY <1>1, <1>2, <1>3, <1>5, <2>2 DEF Twin
    <3> QED
      BY <1>4, <3>1
  <2>3. CASE i # n /\ j # n
    <3>1. i \in 1 .. Len(yields) /\ j \in 1 .. Len(yields)
      BY <1>1, <2>3
    <3>2. yields[i].resubmitted
      BY <1>2, <1>3, <3>1 DEF ReqInv, Twins
    <3> QED
      BY <1>4, <3>1, <3>2
  <2> QED
    BY <2>1, <2>2, <2>3
<1>9. ServedBySame'
  <2>1. keys' = keys /\ \E k \in keys : k.domain_id = r.domain_id
    BY DEF Submitted, serviceVars
  <2> SUFFICES ASSUME NEW i \in 1 .. Len(yields')
               PROVE  /\ yields'[i].served_by = KeysOf(yields'[i].request.domain_id)
                      /\ \E k \in keys : k.domain_id = yields'[i].request.domain_id
    BY <2>1 DEF ServedBySame, KeysOf
  <2>2. CASE i = n
    BY <1>5, <2>1, <2>2
  <2>3. CASE i \in 1 .. Len(yields)
    BY <1>2, <2>3 DEF ReqInv, ServedBySame
  <2> QED
    BY <1>1, <2>2, <2>3
<1>10. PendingIsYoungest'
  <2> SUFFICES ASSUME NEW x \in DOMAIN pending'
               PROVE  /\ yields'[pending'[x]].request = x
                      /\ Unanswered(yields'[pending'[x]])
                      /\ \A j \in (pending'[x] + 1) .. Len(yields') : yields'[j].request # x
    BY DEF PendingIsYoungest
  <2>1. CASE x = r
    BY <1>1, <1>5, <1>6, <2>1 DEF Unanswered
  <2>2. CASE x # r
    <3>1. x \in DOMAIN pending /\ pending'[x] = pending[x] /\ pending[x] \in 1 .. Len(yields)
      BY <1>6, <2>2
    <3>2. /\ yields[pending[x]].request = x
          /\ Unanswered(yields[pending[x]])
          /\ \A j \in (pending[x] + 1) .. Len(yields) : yields[j].request # x
      BY <3>1 DEF ReqInv, PendingIsYoungest
    <3>3. ASSUME NEW j \in (pending[x] + 1) .. Len(yields')
          PROVE  yields'[j].request # x
      <4>1. CASE j = n
        BY <1>5, <2>2, <4>1
      <4>2. CASE j # n
        <5>1. j \in 1 .. Len(yields) /\ j \in (pending[x] + 1) .. Len(yields)
          BY <1>1, <3>1, <4>2
        <5> QED
          BY <1>2, <3>2, <5>1
      <4> QED
        BY <4>1, <4>2
    <3> QED
      BY <1>2, <1>3, <3>1, <3>2, <3>3
  <2> QED
    BY <2>1, <2>2
<1>11. AnswerableUnlessResubmitted'
  <2> SUFFICES ASSUME NEW i \in 1 .. Len(yields'), yields'[i].state = "waiting",
                      ~yields'[i].resubmitted
               PROVE  yields'[i].request \in DOMAIN pending' /\ pending'[yields'[i].request] = i
    BY DEF AnswerableUnlessResubmitted
  <2>1. CASE i = n
    BY <1>5, <1>6, <2>1
  <2>2. CASE i # n
    <3>1. i \in 1 .. Len(yields) /\ yields[i].state = "waiting" /\ ~yields[i].resubmitted /\ ~Twin(i)
      BY <1>1, <1>2, <1>4, <2>2
    <3>2. yields[i].request # r
      BY <3>1 DEF Twin, Unanswered
    <3>3. yields[i].request \in DOMAIN pending /\ pending[yields[i].request] = i
      BY <3>1 DEF ReqInv, AnswerableUnlessResubmitted
    <3> QED
      BY <1>2, <1>6, <3>1, <3>2, <3>3
  <2> QED
    BY <2>1, <2>2
<1>12. AnswersAreOwn'
  <2> SUFFICES ASSUME NEW i \in 1 .. Len(yields'), yields'[i].state \in {"resumed", "answered"}
               PROVE  AnswerIsOwn(yields'[i])
    BY DEF AnswersAreOwn, AnswerIsOwn
  <2>1. i \in 1 .. Len(yields)
    BY <1>1, <1>5
  <2>2. AnswerIsOwn(yields[i])
    BY <1>2, <2>1 DEF ReqInv, AnswersAreOwn, AnswerIsOwn
  <2> QED
    BY <1>2, <2>1, <2>2 DEF AnswerIsOwn
<1> QED
  BY <1>7, <1>8, <1>9, <1>10, <1>11, <1>12 DEF ReqInv

(***************************************************************************)
(* A move keeps the invariant.                                             *)
(***************************************************************************)
LEMMA MovedKeepsInv ==
  ASSUME ReqInv, NEW i, NEW R, Moved(i, R)
  PROVE  ReqInv'
<1>1. /\ i \in 1 .. Len(yields)
      /\ Len(yields') = Len(yields)
      /\ keys' = keys
  BY DEF Moved, serviceVars
<1>2. \A j \in 1 .. Len(yields) :
        /\ yields'[j].request = yields[j].request
        /\ yields'[j].served_by = yields[j].served_by
        /\ yields'[j].resubmitted = yields[j].resubmitted
  BY DEF Moved
<1>3. \A j \in 1 .. Len(yields) :
        j # i => yields'[j].state = yields[j].state /\ yields'[j].answer = yields[j].answer
  BY DEF Moved
<1>4. \A j \in 1 .. Len(yields) : Unanswered(yields'[j]) => Unanswered(yields[j])
  BY <1>3 DEF Moved, Unanswered
<1>5. /\ DOMAIN pending' = DOMAIN pending \ R
      /\ \A x \in DOMAIN pending \ R : pending'[x] = pending[x]
  BY DEF Moved, Without
<1>6. TypeOK'
  <2>1. pending' \in [DOMAIN pending' -> 1 .. Len(yields')]
    BY <1>1 DEF Moved, Without, ReqInv, TypeOK
  <2>2. DOMAIN pending' \subseteq Requests
    BY <1>5 DEF ReqInv, TypeOK
  <2> QED
    BY <2>1, <2>2 DEF Moved, ReqInv, TypeOK, serviceVars
<1>7. Twins'
  <2> SUFFICES ASSUME NEW k \in 1 .. Len(yields), NEW j \in 1 .. Len(yields), k # j,
                      yields'[k].request = yields'[j].request,
                      Unanswered(yields'[k]), Unanswered(yields'[j])
               PROVE  yields'[k].resubmitted
    BY <1>1 DEF Twins
  <2>1. yields[k].request = yields[j].request /\ Unanswered(yields[k]) /\ Unanswered(yields[j])
    BY <1>2, <1>4
  <2>2. yields[k].resubmitted
    BY <2>1 DEF ReqInv, Twins
  <2> QED
    BY <1>2, <2>2
<1>8. ServedBySame'
  <2> SUFFICES ASSUME NEW j \in 1 .. Len(yields)
               PROVE  /\ yields'[j].served_by = KeysOf(yields'[j].request.domain_id)
                      /\ \E k \in keys : k.domain_id = yields'[j].request.domain_id
    BY <1>1 DEF ServedBySame, KeysOf
  <2> QED
    BY <1>2 DEF ReqInv, ServedBySame
<1>9. PendingIsYoungest'
  <2> SUFFICES ASSUME NEW x \in DOMAIN pending'
               PROVE  /\ yields'[pending'[x]].request = x
                      /\ Unanswered(yields'[pending'[x]])
                      /\ \A j \in (pending'[x] + 1) .. Len(yields') : yields'[j].request # x
    BY DEF PendingIsYoungest
  <2> DEFINE p == pending[x]
  <2>1. /\ p \in 1 .. Len(yields)
        /\ pending'[x] = p
        /\ x \notin R
        /\ yields[p].request = x
        /\ Unanswered(yields[p])
        /\ \A j \in (p + 1) .. Len(yields) : yields[j].request # x
    BY <1>5 DEF ReqInv, TypeOK, PendingIsYoungest
  <2> HIDE DEF p
  <2>2. Unanswered(yields'[p])
    <3>1. CASE p = i
      BY <2>1, <3>1 DEF Moved
    <3>2. CASE p # i
      BY <1>3, <2>1, <3>2 DEF Unanswered
    <3> QED
      BY <3>1, <3>2
  <2>3. \A j \in (p + 1) .. Len(yields) : j \in 1 .. Len(yields)
    BY <2>1, YieldsFunction DEF ReqInv
  <2> QED
    BY <1>1, <1>2, <2>1, <2>2, <2>3
<1>10. AnswerableUnlessResubmitted'
  <2> SUFFICES ASSUME NEW j \in 1 .. Len(yields), yields'[j].state = "waiting",
                      ~yields'[j].resubmitted
               PROVE  yields'[j].request \in DOMAIN pending' /\ pending'[yields'[j].request] = j
    BY <1>1 DEF AnswerableUnlessResubmitted
  <2>1. j # i /\ yields[j].state = "waiting" /\ ~yields[j].resubmitted
    BY <1>2, <1>3 DEF Moved
  <2>2. yields[j].request \in DOMAIN pending /\ pending[yields[j].request] = j
    BY <2>1 DEF ReqInv, AnswerableUnlessResubmitted
  <2>3. yields[j].request \notin R
    <3> SUFFICES ASSUME yields[j].request \in R
                 PROVE  FALSE
      OBVIOUS
    <3>1. yields[j].request = yields[i].request /\ Unanswered(yields[i])
      BY DEF Moved
    <3>2. Unanswered(yields[j])
      BY <2>1 DEF Unanswered
    <3> QED
      BY <1>1, <2>1, <3>1, <3>2 DEF ReqInv, Twins
  <2> QED
    BY <1>2, <1>5, <2>2, <2>3
<1>11. AnswersAreOwn'
  <2> SUFFICES ASSUME NEW j \in 1 .. Len(yields), yields'[j].state \in {"resumed", "answered"}
               PROVE  AnswerIsOwn(yields'[j])
    BY <1>1 DEF AnswersAreOwn, AnswerIsOwn
  <2>1. CASE j = i
    BY <2>1 DEF Moved
  <2>2. CASE j # i
    <3>1. AnswerIsOwn(yields[j])
      BY <1>3, <2>2 DEF ReqInv, AnswersAreOwn, AnswerIsOwn
    <3> QED
      BY <1>2, <1>3, <2>2, <3>1 DEF AnswerIsOwn
  <2> QED
    BY <2>1, <2>2
<1> QED
  BY <1>6, <1>7, <1>8, <1>9, <1>10, <1>11 DEF ReqInv

(***************************************************************************)
(* The key service: a new key belongs to a domain that had none, so none   *)
(* that a request was submitted for.                                       *)
(***************************************************************************)
LEMMA ServiceKeepsInv ==
  ASSUME ReqInv, ProtocolStep
  PROVE  ReqInv'
<1>1. yields' = yields /\ pending' = pending /\ foreign_chain_policy' = foreign_chain_policy
  BY DEF ProtocolStep, requestVars
<1>2. \/ keys' = keys
      \/ \E k \in keys' : keys' = keys \union {k} /\ \A l \in keys : l.domain_id # k.domain_id
  BY DEF ProtocolStep, ServiceNext, BeginKeygen, GenerateKey, CancelKeygen, BeginResharing,
         EndResharing, SwitchRequests, RespondersChange
<1>3. ASSUME NEW d, NEW l \in keys, l.domain_id = d
      PROVE  KeysOf(d)' = KeysOf(d) /\ l \in keys'
  BY <1>2, <1>3 DEF KeysOf
<1>4. TypeOK'
  <2>1. keys' \subseteq Keys
    BY DEF ProtocolStep, ReqInv, TypeOK
  <2> QED
    BY <1>1, <2>1 DEF ProtocolStep, ReqInv, TypeOK
<1>5. ServedBySame'
  <2> SUFFICES ASSUME NEW i \in 1 .. Len(yields), NEW d, d = yields[i].request.domain_id
               PROVE  /\ yields[i].served_by = KeysOf(d)'
                      /\ \E k \in keys' : k.domain_id = d
    BY <1>1 DEF ServedBySame, KeysOf
  <2>1. /\ yields[i].served_by = KeysOf(d)
        /\ \E k \in keys : k.domain_id = d
    BY DEF ReqInv, ServedBySame
  <2> QED
    BY <1>3, <2>1
<1>6. Twins' /\ PendingIsYoungest' /\ AnswerableUnlessResubmitted' /\ AnswersAreOwn'
  BY <1>1 DEF ReqInv, Twins, PendingIsYoungest, AnswerableUnlessResubmitted, AnswersAreOwn
<1> QED
  BY <1>4, <1>5, <1>6 DEF ReqInv

\* The contract starts without requests.
LEMMA InitInv ==
  ASSUME Init
  PROVE  ReqInv
<1>1. yields = <<>> /\ Len(yields) = 0 /\ DOMAIN pending = {}
  BY DEF Init
<1>2. TypeOK
  <2>1. yields \in Seq(Yields)
    BY <1>1
  <2>2. pending \in [DOMAIN pending -> 1 .. Len(yields)]
    BY DEF Init
  <2>3. accept_requests \in BOOLEAN
    BY DEF Init, ServiceInit
  <2> QED
    BY <1>1, <2>1, <2>2, <2>3, KeysAssumption DEF Init, ServiceInit, TypeOK
<1> QED
  BY <1>1, <1>2 DEF ReqInv, Twins, ServedBySame, PendingIsYoungest, AnswerableUnlessResubmitted,
                    AnswersAreOwn

\* Every step keeps the invariant.
LEMMA NextInv ==
  ASSUME ReqInv, [Next]_vars
  PROVE  ReqInv'
<1> USE DEF ReqInv
<1>1. ASSUME NEW r \in Requests, UserCall(r)
      PROVE  ReqInv'
  <2>1. AddRequest(r) /\ UNCHANGED <<serviceVars, foreign_chain_policy>>
    BY <1>1 DEF UserCall, Sign, RequestAppPrivateKey, VerifyForeignTransaction
  <2>2. \E k \in keys : k.domain_id = r.domain_id
    BY <1>1 DEF UserCall, Sign, RequestAppPrivateKey, VerifyForeignTransaction, MaySubmit, HasDomain
  <2>3. Submitted(r) /\ yields' \in Seq(Yields)
    BY <2>1, <2>2, YieldShape
  <2> QED
    BY <2>1, <2>3, SubmittedKeepsInv
<1>2. ASSUME NEW a \in Accounts, NEW r \in Requests, NEW answer \in Answers, NodeCall(a, r, answer)
      PROVE  ReqInv'
  BY <1>2, NodeCallShape, MovedKeepsInv
<1>3. ASSUME NEW i \in 1 .. Len(yields), YieldTimesOut(i) \/ Callback(i)
      PROVE  ReqInv'
  BY <1>3, TimesOutShape, CallbackSuccessShape, CallbackTimeoutShape, MovedKeepsInv DEF Callback
<1>4. ASSUME NEW chains \in SUBSET Chains, PolicyChange(chains)
      PROVE  ReqInv'
  BY <1>4 DEF PolicyChange, serviceVars, requestVars, TypeOK, Twins, ServedBySame, KeysOf,
              PendingIsYoungest, AnswerableUnlessResubmitted, AnswersAreOwn
<1>5. CASE ProtocolStep
  BY <1>5, ServiceKeepsInv
<1>6. CASE UNCHANGED vars
  BY <1>6 DEF vars, serviceVars, requestVars, TypeOK, Twins, ServedBySame, KeysOf,
              PendingIsYoungest, AnswerableUnlessResubmitted, AnswersAreOwn
<1> QED
  BY <1>1, <1>2, <1>3, <1>4, <1>5, <1>6 DEF Next

\* The invariant holds of every state of the contract.
THEOREM ReqInvAlways == Spec => []ReqInv
<1>1. Init => ReqInv
  BY InitInv
<1>2. ReqInv /\ [Next]_vars => ReqInv'
  BY NextInv
<1> QED
  BY <1>1, <1>2, PTL DEF Spec

\* For any requests, keys and accounts and any number of submissions: the
\* entry that respond finds for a request belongs to the youngest caller of
\* that request, whose callback is still to come.
THEOREM PendingIsYoungestAlways == Spec => []PendingIsYoungest
<1>1. ReqInv => PendingIsYoungest
  BY DEF ReqInv
<1> QED
  BY <1>1, ReqInvAlways, PTL

\* Nothing but a resubmission of the same request takes the entry of a
\* waiting caller away.
THEOREM AnswerableUnlessResubmittedAlways == Spec => []AnswerableUnlessResubmitted
<1>1. ReqInv => AnswerableUnlessResubmitted
  BY DEF ReqInv
<1> QED
  BY <1>1, ReqInvAlways, PTL

\* A caller of sign gets a signature of its own payload under the key that
\* its domain had when it called.
THEOREM AnswersAreOwnAlways == Spec => []AnswersAreOwn
<1>1. ReqInv => AnswersAreOwn
  BY DEF ReqInv
<1> QED
  BY <1>1, ReqInvAlways, PTL

\* For any requests, keys, accounts and number of submissions the pending maps
\* lead every answer to the youngest caller, and lose no caller whose request
\* was not resubmitted.
THEOREM PendingSoundAlways == Spec => []PendingSound
<1>1. ReqInv => PendingSound
  BY DEF ReqInv, PendingSound
<1> QED
  BY <1>1, ReqInvAlways, PTL
=============================================================================
