-------------------------- MODULE ContractRequests --------------------------
(***************************************************************************)
(* The requests that the MPC contract serves: sign, request_app_private_key*)
(* and verify_foreign_transaction park the caller in a yielded promise;    *)
(* respond, respond_ckd and respond_verify_foreign_tx resume it; the       *)
(* callback returns the answer or fails after the timeout.                 *)
(*                                                                         *)
(* The three pending_..._requests maps are one function, since the kind is *)
(* part of the request.  What happens to keys, phases and participants in  *)
(* the meantime is any behaviour of KeyService.                            *)
(***************************************************************************)
EXTENDS KeyService, Integers, Sequences

CONSTANTS
  PublicKeys,
  Keys,        \* the keys that key generations may add
  InitKeys,    \* the keys the contract starts with
  Requests,    \* records [kind, domain_id, payload] and, for ForeignTx, chain
  Payloads,    \* what a signature can be about
  Chains,      \* foreign chains that a policy may allow
  MaxYields    \* bound: how many requests are submitted

VARIABLES
  foreign_chain_policy,   \* the chains that the policy names
  pending,                \* request -> index of the yield to resume
  yields                  \* the yielded promises, in the order of creation

requestVars == <<pending, yields>>
vars == <<serviceVars, foreign_chain_policy, requestVars>>

Kinds == {"Sign", "CKD", "ForeignTx"}

NoAnswer == [key |-> "none", payload |-> "none"]

Answers == [key : PublicKeys, payload : Payloads]

YieldStates == {"waiting", "resumed", "timed_out", "answered", "failed"}

Yields == [request : Requests, state : YieldStates, answer : Answers \union {NoAnswer},
           served_by : SUBSET PublicKeys, resubmitted : BOOLEAN]

ASSUME KeysAssumption ==
  /\ InitKeys \subseteq Keys
  /\ \A k \in Keys : k.key \in PublicKeys
  /\ \A k, l \in InitKeys : k.domain_id = l.domain_id => k = l
  /\ \A r \in Requests : r.kind \in Kinds
  /\ MaxYields \in Nat

\* The keys of the domain: one at most.
KeysOf(domain_id) == {k.key : k \in {l \in keys : l.domain_id = domain_id}}

HasDomain(domain_id, purpose) ==
  \E k \in keys : k.domain_id = domain_id /\ k.purpose = purpose

Init ==
  /\ keys = InitKeys
  /\ responders \in SUBSET Accounts
  /\ ServiceInit
  /\ foreign_chain_policy = {}
  /\ pending = [r \in {} |-> 0]
  /\ yields = <<>>

(***************************************************************************)
(* The runtime.  A resumed or timed out yield runs its callback later; a   *)
(* second resume, or one after the timeout, has no effect.                 *)
(***************************************************************************)
Unanswered(y) == y.state \in {"waiting", "timed_out"}

\* promise_yield_create.  served_by and resubmitted are history: the key of
\* the domain at this time, and whether the same request was submitted while
\* another one waited for its answer or for the callback of its timeout.
Yield(r) ==
  LET twins == {i \in 1 .. Len(yields) : yields[i].request = r /\ Unanswered(yields[i])}
      new   == [request |-> r, state |-> "waiting", answer |-> NoAnswer,
                served_by |-> KeysOf(r.domain_id), resubmitted |-> twins # {}]
  IN [i \in 1 .. (Len(yields) + 1) |->
        IF i = Len(yields) + 1 THEN new
                               ELSE [yields[i] EXCEPT !.resubmitted = @ \/ i \in twins]]

\* promise_yield_resume.
Resume(i, answer) ==
  IF yields[i].state = "waiting"
  THEN [yields EXCEPT ![i].state = "resumed", ![i].answer = answer]
  ELSE yields

YieldTimesOut(i) ==
  /\ yields[i].state = "waiting"
  /\ yields' = [yields EXCEPT ![i].state = "timed_out"]
  /\ UNCHANGED <<serviceVars, foreign_chain_policy, pending>>

(***************************************************************************)
(* User calls.  Deposit, gas and payload format are checked before any     *)
(* state changes; a call that fails them is not a step.                    *)
(***************************************************************************)
Without(f, S) == [x \in DOMAIN f \ S |-> f[x]]

\* add_..._request: an entry of the same request is overridden.
AddRequest(r) ==
  /\ yields' = Yield(r)
  /\ pending' = [x \in DOMAIN pending \union {r} |-> IF x = r THEN Len(yields) + 1 ELSE pending[x]]

\* What the three user calls check.
MaySubmit(r, kind) ==
  /\ Len(yields) < MaxYields
  /\ r.kind = kind
  /\ phase \in {"Running", "Resharing"}
  /\ HasDomain(r.domain_id, kind)
  /\ accept_requests

Sign(r) ==
  /\ MaySubmit(r, "Sign")
  /\ AddRequest(r)
  /\ UNCHANGED <<serviceVars, foreign_chain_policy>>

RequestAppPrivateKey(r) ==
  /\ MaySubmit(r, "CKD")
  /\ AddRequest(r)
  /\ UNCHANGED <<serviceVars, foreign_chain_policy>>

VerifyForeignTransaction(r) ==
  /\ MaySubmit(r, "ForeignTx")
  /\ r.chain \in foreign_chain_policy
  /\ AddRequest(r)
  /\ UNCHANGED <<serviceVars, foreign_chain_policy>>

(***************************************************************************)
(* Node calls.                                                             *)
(***************************************************************************)

\* What the three respond calls check of the caller and the contract.
MayRespond(a) ==
  /\ a \in responders
  /\ phase \in {"Running", "Resharing"}
  /\ accept_requests

\* The entry is removed and its yield resumed.
ResolvePending(r, answer) ==
  /\ r \in DOMAIN pending
  /\ pending' = Without(pending, {r})
  /\ yields' = Resume(pending[r], answer)
  /\ UNCHANGED <<serviceVars, foreign_chain_policy>>

\* Mutant of SignatureVerifies: the payload is taken from the answer.
SomeSignatureVerifies(r, answer) == answer.key \in KeysOf(r.domain_id)

\* The signature is about the payload of the request, under the domain's key.
SignatureVerifies(r, answer) ==
  answer.key \in KeysOf(r.domain_id) /\ answer.payload = r.payload

Respond(a, r, answer) ==
  /\ r.kind = "Sign"
  /\ MayRespond(a)
  /\ SignatureVerifies(r, answer)
  /\ ResolvePending(r, answer)

\* The contract does not verify a derived key.
RespondCkd(a, r, answer) ==
  /\ r.kind = "CKD"
  /\ MayRespond(a)
  /\ ResolvePending(r, answer)

\* The answer names what was signed: the contract checks the signature
\* under the root key of the domain, and leaves the payload to the caller.
RespondVerifyForeignTx(a, r, answer) ==
  /\ r.kind = "ForeignTx"
  /\ MayRespond(a)
  /\ answer.key \in KeysOf(r.domain_id)
  /\ ResolvePending(r, answer)

(***************************************************************************)
(* The callbacks return_..._and_clean_state_on_success.                    *)
(***************************************************************************)
\* Mutant of CallbackSuccess: it removes the entry of the request, as after
\* a timeout.
CallbackSuccessWithCleanup(i) ==
  /\ yields[i].state = "resumed"
  /\ pending' = Without(pending, {yields[i].request})
  /\ yields' = [yields EXCEPT ![i].state = "answered"]
  /\ UNCHANGED <<serviceVars, foreign_chain_policy>>

\* The entry was removed by the response already.
CallbackSuccess(i) ==
  /\ yields[i].state = "resumed"
  /\ yields' = [yields EXCEPT ![i].state = "answered"]
  /\ UNCHANGED <<serviceVars, foreign_chain_policy, pending>>

\* Mutant of CallbackTimeout: the pending entry is left behind.
CallbackTimeoutWithoutCleanup(i) ==
  /\ yields[i].state = "timed_out"
  /\ yields' = [yields EXCEPT ![i].state = "failed"]
  /\ UNCHANGED <<serviceVars, foreign_chain_policy, pending>>

\* Removes the entry of the request, whichever yield it points to by now.
CallbackTimeout(i) ==
  /\ yields[i].state = "timed_out"
  /\ pending' = Without(pending, {yields[i].request})
  /\ yields' = [yields EXCEPT ![i].state = "failed"]
  /\ UNCHANGED <<serviceVars, foreign_chain_policy>>

(***************************************************************************)
(* The rest of the contract.                                               *)
(***************************************************************************)
ProtocolStep ==
  /\ phase' \in {"Running", "Initializing", "Resharing"}
  /\ keys' \in {keys \union K : K \in {{k} : k \in Keys} \union {{}}}
  /\ accept_requests' \in BOOLEAN
  /\ responders' \in SUBSET Accounts
  /\ ServiceNext
  /\ UNCHANGED <<foreign_chain_policy, requestVars>>

\* The last vote of vote_foreign_chain_policy.
PolicyChange(chains) ==
  /\ phase = "Running"
  /\ foreign_chain_policy' = chains
  /\ UNCHANGED <<serviceVars, requestVars>>

UserCall(r) == Sign(r) \/ RequestAppPrivateKey(r) \/ VerifyForeignTransaction(r)

NodeCall(a, r, answer) ==
  Respond(a, r, answer) \/ RespondCkd(a, r, answer) \/ RespondVerifyForeignTx(a, r, answer)

Callback(i) == CallbackSuccess(i) \/ CallbackTimeout(i)

Next ==
  \/ \E r \in Requests : UserCall(r)
  \/ \E a \in Accounts, r \in Requests, answer \in Answers : NodeCall(a, r, answer)
  \/ \E i \in 1 .. Len(yields) : YieldTimesOut(i) \/ Callback(i)
  \/ \E chains \in SUBSET Chains : PolicyChange(chains)
  \/ ProtocolStep

Spec == Init /\ [][Next]_vars

\* The chain times out a yield that is not resumed and runs every callback.
Runtime(i) == i <= Len(yields) /\ (YieldTimesOut(i) \/ Callback(i))

FairSpec == Spec /\ \A i \in 1 .. MaxYields : WF_vars(Runtime(i))

(***************************************************************************)
(* Properties.                                                             *)
(***************************************************************************)

\* Every variable has the type of its field.
TypeOK ==
  /\ phase \in {"Running", "Initializing", "Resharing"}
  /\ keys \subseteq Keys
  /\ accept_requests \in BOOLEAN
  /\ responders \in SUBSET Accounts
  /\ foreign_chain_policy \subseteq Chains
  /\ yields \in Seq(Yields)
  /\ DOMAIN pending \subseteq Requests
  /\ pending \in [DOMAIN pending -> 1 .. Len(yields)]

\* An entry of a pending map always belongs to a yield of the same request
\* whose callback is still to come and that was not resumed, and that yield
\* is the youngest one of the request: entries do not outlive their callers,
\* and none leads an answer to an older caller.
PendingIsYoungest ==
  \A r \in DOMAIN pending :
    LET i == pending[r] IN
    /\ yields[i].request = r
    /\ Unanswered(yields[i])
    /\ \A j \in (i + 1) .. Len(yields) : yields[j].request # r

\* While a caller waits, its entry is there, unless the same request was
\* submitted again in the meantime (the README warns that both may then
\* fail): no answer, timeout, resharing or key generation loses it.
AnswerableUnlessResubmitted ==
  \A i \in 1 .. Len(yields) :
    yields[i].state = "waiting" /\ ~yields[i].resubmitted =>
      yields[i].request \in DOMAIN pending /\ pending[yields[i].request] = i

\* A signature that a caller of sign gets back is about its own payload and
\* verifies under the key the domain had when it called, however many
\* resharings, key generations and resubmissions lie in between.
AnswersAreOwn ==
  \A i \in 1 .. Len(yields) :
    yields[i].state \in {"resumed", "answered"} =>
      /\ yields[i].request.kind = "Sign" => yields[i].answer.payload = yields[i].request.payload
      /\ yields[i].request.kind # "CKD" => yields[i].answer.key \in yields[i].served_by

\* Entries of the pending maps are removed in the end, by an answer or by
\* the callback of a timeout: storage is not leaked.
PendingCleared == \A r \in Requests : r \in DOMAIN pending ~> r \notin DOMAIN pending

\* The entries of the pending maps are sound: each leads to the youngest
\* caller of its request, and a caller loses its entry only to a younger one.
PendingSound == TypeOK /\ PendingIsYoungest /\ AnswerableUnlessResubmitted
=============================================================================
