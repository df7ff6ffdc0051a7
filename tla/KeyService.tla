------------------------------ MODULE KeyService -----------------------------
(***************************************************************************)
(* What the protocol state machine promises to the part of the contract    *)
(* that serves requests: which domains have which public key, whether      *)
(* requests are served, and who may answer them.  ContractProtocol         *)
(* implements it (ContractHistory); ContractRequests builds on it.         *)
(*                                                                         *)
(* The actions are predicates on a step: the module that uses them says    *)
(* where the primed values come from.                                      *)
(***************************************************************************)

CONSTANT Accounts

VARIABLES
  phase,             \* Running, Initializing or Resharing
  keys,              \* a record [domain_id, purpose, key] per key in the keyset
  accept_requests,   \* whether requests and responses are served
  responders         \* the attested participants of this phase

serviceVars == <<phase, keys, accept_requests, responders>>

ServiceInit ==
  /\ phase = "Running"
  /\ \A k, l \in keys : k.domain_id = l.domain_id => k = l
  /\ accept_requests = TRUE
  /\ responders \in (SUBSET Accounts) \ {{}}

BeginKeygen ==
  /\ phase = "Running"
  /\ phase' = "Initializing"
  /\ keys' = keys
  /\ accept_requests' = accept_requests

\* The new key belongs to a domain that had none; with the last domain the
\* contract is Running again.
GenerateKey ==
  /\ phase = "Initializing"
  /\ phase' \in {"Initializing", "Running"}
  /\ \E k \in keys' : /\ \A l \in keys : l.domain_id # k.domain_id
                      /\ keys' = keys \union {k}
  /\ accept_requests' = accept_requests

CancelKeygen ==
  /\ phase = "Initializing"
  /\ phase' = "Running"
  /\ keys' = keys
  /\ accept_requests' = accept_requests

BeginResharing ==
  /\ phase = "Running"
  /\ phase' = "Resharing"
  /\ accept_requests' \in {accept_requests, TRUE}
  /\ keys' = keys

EndResharing ==
  /\ phase = "Resharing"
  /\ phase' = "Running"
  /\ keys' = keys
  /\ accept_requests' = accept_requests

\* verify_tee closes or opens the service.
SwitchRequests ==
  /\ phase = "Running"
  /\ accept_requests' \in BOOLEAN
  /\ phase' = phase
  /\ keys' = keys

RespondersChange ==
  /\ phase' = phase
  /\ keys' = keys
  /\ accept_requests' = accept_requests

ServiceNext ==
  /\ responders' \in (SUBSET Accounts) \ {{}}
  /\ \/ BeginKeygen
     \/ GenerateKey
     \/ CancelKeygen
     \/ BeginResharing
     \/ EndResharing
     \/ SwitchRequests
     \/ RespondersChange

ServiceSpec == ServiceInit /\ [][ServiceNext]_serviceVars
=============================================================================
