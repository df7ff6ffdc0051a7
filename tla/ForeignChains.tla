--------------------------- MODULE ForeignChains ---------------------------
(***************************************************************************)
(* One foreign transaction and what the nodes sign about it: the nodes'    *)
(* configured providers and the policy they vote for                       *)
(* (crates/node/src/config/foreign_chains.rs, coordinator.rs), and the     *)
(* inspection of the transaction by every signer on its own                *)
(* (crates/node/src/providers/verify_foreign_tx/sign.rs, crates/           *)
(* foreign-chain-inspector), while the foreign chain grows and             *)
(* reorganises.  Presignatures and channels are in Assets, the contract's  *)
(* queue in ContractRequests.                                              *)
(***************************************************************************)
EXTENDS Integers, Sequences, FiniteSets

CONSTANTS
  Signers,        \* the participants of the request's channel, in order
  Trim,           \* from rpc_urls to what is left of them once trimmed
  Faulty,         \* trimmed urls of providers that may answer anything
  Configs,        \* foreign_chains configs: from chains to urls by provider name
  MaxProviders,   \* providers a config names for a chain
  Policies,       \* policies the contract may start with
  Requests,       \* [chain, finality, extractor]
  Depth,          \* confirmations that a final Bitcoin request asks for
  Successes,      \* variants of the transaction that succeed
  Logging,        \* variants that emit the log a request may ask for
  Variants,       \* what the transaction does, depending on its block
  MaxHeight,      \* blocks of the foreign chain
  MaxPlaces,      \* blocks the transaction is in, one after another
  MaxConfigs,     \* restarts of a node with another config
  MaxAttempts     \* attempts of the leader

Inspectors == {Signers[i] : i \in 1..Len(Signers)}
Urls == DOMAIN Trim
Nowhere == [block |-> 0, variant |-> "none"]
Places == [block : 1..MaxHeight, variant : Variants]

ASSUME ForeignChainsAssumption ==
  /\ Signers \in Seq(Inspectors)
  /\ \A i, j \in 1..Len(Signers) : Signers[i] = Signers[j] => i = j
  /\ Faulty \subseteq {Trim[u] : u \in Urls}
  /\ \A c \in Configs : \A chain \in DOMAIN c :
        /\ c[chain] \in Seq(Urls) /\ Len(c[chain]) \in 1..MaxProviders
        /\ \A i, j \in 1..Len(c[chain]) : c[chain][i] = c[chain][j] => i = j
  /\ Successes \subseteq Variants /\ Logging \subseteq Variants
  /\ Depth \in Nat \ {0} /\ MaxHeight \in Nat /\ MaxPlaces \in Nat
  /\ MaxConfigs \in Nat /\ MaxAttempts \in Nat /\ MaxProviders \in Nat

VARIABLES
  policy,      \* foreign_chain_policy of the contract
  proposals,   \* foreign_chain_policy_votes
  configs,     \* the config each node runs with
  unvoted,     \* nodes whose running job has not come to its vote yet
  changes,     \* restarts so far
  world,       \* the foreign chain: head, final height, the transaction's place
  places,      \* history: where the transaction has been
  request,     \* the request under way
  shuffle,     \* its permutation of n provider indices, for every n
  attempts,    \* attempts so far
  inspections, \* each signer's execute_foreign_chain_request
  signed       \* history: payloads signed, and with which providers by name

foreignVars == <<policy, proposals, configs, unvoted, changes, world, places, request, shuffle,
                 attempts, inspections, signed>>

-----------------------------------------------------------------------------
(***************************************************************************)
(* The configs and the policy.                                             *)
(***************************************************************************)

\* validate_chain_config looks for equal urls before they are trimmed, and
\* to_policy trims them.
ProvidersToSet(urls) == {Trim[urls[i]] : i \in 1..Len(urls)}

ToPolicy(config) == [c \in DOMAIN config |-> ProvidersToSet(config[c])]

IsEmpty(config) == DOMAIN config = {}

IsSupportedForeignChain(c) == c \in {"Abstract", "Solana", "Bitcoin", "Ethereum", "Starknet"}

\* Why maybe_vote_foreign_chain_policy does not return early, past proposals aside.
WantsVote(config, onChain) ==
  /\ ~IsEmpty(config) /\ onChain # ToPolicy(config)
  /\ \A c \in DOMAIN onChain : IsSupportedForeignChain(c)

-----------------------------------------------------------------------------
Shuffles(n) == {s \in [1..n -> 1..n] : \A i, j \in 1..n : s[i] = s[j] => i = j}

NoInspection == [step |-> "idle", provider |-> "none", names |-> << >>, height |-> 0,
                 value |-> Nowhere]

\* The nodes have voted and not all for the same.
ForeignInit ==
  /\ policy \in Policies /\ configs \in [Inspectors -> Configs] /\ unvoted = {} /\ changes = 0
  /\ proposals = [n \in {m \in Inspectors : WantsVote(configs[m], policy)} |-> ToPolicy(configs[n])]
  /\ \E n, m \in Inspectors :
        WantsVote(configs[n], policy) => ToPolicy(configs[m]) # ToPolicy(configs[n])
  /\ world = [head |-> 0, final |-> 0, place |-> Nowhere] /\ places = {}
  /\ request \in {r \in Requests : r.chain \in DOMAIN policy}
  /\ shuffle \in [1..MaxProviders -> UNION {Shuffles(n) : n \in 1..MaxProviders}]
  /\ \A n \in 1..MaxProviders : shuffle[n] \in Shuffles(n)
  /\ attempts = 0 /\ inspections = [n \in Inspectors |-> NoInspection] /\ signed = {}

-----------------------------------------------------------------------------
VotesWith(n, p) == [m \in DOMAIN proposals \union {n} |-> IF m = n THEN p ELSE proposals[m]]

\* The contract's vote_foreign_chain_policy, every participant a signer here.
VoteForeignChainPolicyOf(n, p) ==
  LET cast == VotesWith(n, p)
      carried == \A m \in Inspectors : m \in DOMAIN cast /\ cast[m] = p
  IN  /\ policy' = IF carried THEN p ELSE policy
      /\ proposals' = IF carried THEN << >> ELSE cast

\* maybe_vote_foreign_chain_policy, once as the running job starts.  Its reads
\* of the policy and of the votes, and the transaction, are one step.
MaybeVoteForeignChainPolicy(n) ==
  LET local == ToPolicy(configs[n])
  IN  /\ n \in unvoted /\ unvoted' = unvoted \ {n}
      /\ IF WantsVote(configs[n], policy) /\ (n \in DOMAIN proposals => proposals[n] # local)
         THEN VoteForeignChainPolicyOf(n, local)
         ELSE UNCHANGED <<policy, proposals>>
      /\ UNCHANGED <<configs, changes, world, places, request, shuffle, attempts, inspections,
                     signed>>

\* A call to the contract fails, or the vote is not sent: a warning only.
VoteFails(n) ==
  /\ n \in unvoted /\ ~IsEmpty(configs[n]) /\ unvoted' = unvoted \ {n}
  /\ UNCHANGED <<policy, proposals, configs, changes, world, places, request, shuffle, attempts,
                 inspections, signed>>

\* The node restarts with another config, and the attempt it takes part in fails.
Reconfigure(n) ==
  /\ changes < MaxConfigs /\ changes' = changes + 1
  /\ \E c \in Configs : configs' = [configs EXCEPT ![n] = c]
  /\ unvoted' = unvoted \union {n}
  /\ inspections' = [m \in Inspectors |-> NoInspection]
  /\ UNCHANGED <<policy, proposals, world, places, request, shuffle, attempts, signed>>

-----------------------------------------------------------------------------
(***************************************************************************)
(* The foreign chain (external).  Blocks up to the final height stay.  A   *)
(* Bitcoin block is final once it has Depth confirmations.                 *)
(***************************************************************************)

Mine ==
  /\ world.head < MaxHeight
  /\ request.chain = "Bitcoin" => world.head + 1 - Depth < world.final
  /\ world' = [world EXCEPT !.head = @ + 1]
  /\ UNCHANGED <<policy, proposals, configs, unvoted, changes, places, request, shuffle, attempts,
                 inspections, signed>>

\* The transaction enters a block, or a reorganisation moves it.
Include ==
  /\ Cardinality(places) < MaxPlaces
  /\ \E p \in Places \ places :
       /\ p.block \in world.final + 1 .. world.head
       /\ world' = [world EXCEPT !.place = p] /\ places' = places \union {p}
  /\ world.place.block = 0 \/ world.place.block > world.final
  /\ UNCHANGED <<policy, proposals, configs, unvoted, changes, request, shuffle, attempts,
                 inspections, signed>>

Finalize ==
  /\ world.final < world.head /\ world' = [world EXCEPT !.final = @ + 1]
  /\ UNCHANGED <<policy, proposals, configs, unvoted, changes, places, request, shuffle, attempts,
                 inspections, signed>>

-----------------------------------------------------------------------------
(***************************************************************************)
(* An attempt.                                                             *)
(***************************************************************************)

InspectionStep(n, inspection) ==
  /\ inspections' = [inspections EXCEPT ![n] = inspection]
  /\ UNCHANGED <<policy, proposals, configs, unvoted, changes, world, places, request, shuffle,
                 attempts, signed>>

\* make_verify_foreign_tx_leader, and the followers as its channel reaches them,
\* all past the start of their running jobs.
BeginAttempt ==
  /\ unvoted = {} /\ attempts < MaxAttempts /\ attempts' = attempts + 1
  /\ \A n \in Inspectors : inspections[n].step = "idle"
  /\ inspections' = [n \in Inspectors |-> [NoInspection EXCEPT !.step = "checking"]]
  /\ UNCHANGED <<policy, proposals, configs, unvoted, changes, world, places, request, shuffle,
                 signed>>

ValidateForeignChainPolicy(n) ==
  /\ ~IsEmpty(configs[n]) /\ policy = ToPolicy(configs[n]) /\ request.chain \in DOMAIN policy

\* Mutant of SelectProvider: the place among the participants does not count.
SelectProviderUnbalanced(num, index) == shuffle[num][1]

\* An index into the provider names in order, 1-based.
SelectProvider(num, index) == shuffle[num][((index - 1) % num) + 1]

IndexOf(n) == CHOOSE i \in 1..Len(Signers) : Signers[i] = n

\* execute_foreign_chain_request up to its first call of the provider.
\* Ethereum and Solana are not supported.
StartInspection(n) ==
  LET names == configs[n][request.chain]
  IN  /\ inspections[n].step = "checking" /\ ValidateForeignChainPolicy(n)
      /\ request.chain \in {"Bitcoin", "Abstract", "Starknet"}
      /\ InspectionStep(n, [inspections[n] EXCEPT
            !.step = IF request.chain = "Abstract" THEN "block" ELSE "receipt", !.names = names,
            !.provider = Trim[names[SelectProvider(Len(names), IndexOf(n))]]])

\* AbstractInspector::extract: the latest block of the requested finality (from
\* a faulty provider it does not count).
GetBlockByNumber(n) ==
  LET latest == IF request.finality = "final" THEN world.final ELSE world.head
  IN  /\ inspections[n].step = "block"
      /\ InspectionStep(n, [inspections[n] EXCEPT !.step = "receipt", !.height = latest])

\* BitcoinInspector::extract.
EnoughConfirmations(place) ==
  (IF request.finality = "final" THEN Depth ELSE 1) <= world.head - place.block + 1

\* StarknetInspector::extract: acceptance on L2 is being in a block.
FinalityOk(n, place) ==
  IF request.chain = "Abstract" THEN inspections[n].height >= place.block
  ELSE IF request.chain = "Bitcoin" THEN EnoughConfirmations(place)
  ELSE request.finality = "final" => place.block <= world.final

\* The status of a Bitcoin transaction is not asked for.
TransactionSuccess(place) == request.chain # "Bitcoin" => place.variant \in Successes

\* The log index is out of bounds of the receipt's logs.
ExtractValue(place) == request.extractor = "log" => place.variant \in Logging

\* The receipt, the inspector's checks of it and the extracted value; a
\* transaction in no block has no receipt.
GetReceipt(n) ==
  /\ inspections[n].step = "receipt"
  /\ \E place \in IF inspections[n].provider \in Faulty THEN Places ELSE {world.place} :
       /\ place # Nowhere
       /\ inspections[n].provider \in Faulty \/ FinalityOk(n, place)
       /\ TransactionSuccess(place) /\ ExtractValue(place)
       /\ InspectionStep(n, [inspections[n] EXCEPT !.step = "done", !.value = place])

\* A check fails, a call fails, or FOREIGN_CHAIN_INSPECTION_TIMEOUT passes: the
\* attempt has failed, whatever the other signers still compute.
InspectionFails(n) ==
  /\ inspections[n].step \in {"checking", "block", "receipt"}
  /\ inspections' = [m \in Inspectors |-> NoInspection]
  /\ UNCHANGED <<policy, proposals, configs, unvoted, changes, world, places, request, shuffle,
                 attempts, signed>>

\* build_signature_request and the signing protocol: a signer whose payload is
\* another one spoils the signature.
SignPayload ==
  LET values == {inspections[n].value : n \in Inspectors}
  IN  /\ \A n \in Inspectors : inspections[n].step = "done"
      /\ signed' = signed \union
           (IF Cardinality(values) = 1
            THEN {[value |-> CHOOSE v \in values : TRUE,
                   names |-> {inspections[n].names : n \in Inspectors}]}
            ELSE {})
      /\ inspections' = [n \in Inspectors |-> NoInspection]
      /\ UNCHANGED <<policy, proposals, configs, unvoted, changes, world, places, request,
                     shuffle, attempts>>

ForeignNext ==
  \/ Mine \/ Include \/ Finalize \/ BeginAttempt \/ SignPayload
  \/ \E n \in Inspectors :
        \/ MaybeVoteForeignChainPolicy(n) \/ VoteFails(n) \/ Reconfigure(n)
        \/ StartInspection(n) \/ GetBlockByNumber(n) \/ GetReceipt(n)
        \/ InspectionFails(n)

ForeignSpec == ForeignInit /\ [][ForeignNext]_foreignVars

-----------------------------------------------------------------------------
\* The signers name their providers alike, each url differs once trimmed, and
\* fewer of them are faulty than are asked.
Trustworthy(s) ==
  \E names \in s.names :
    LET named == ProvidersToSet(names)
    IN  /\ s.names = {names} /\ Cardinality(named) = Len(names)
        /\ Cardinality(named \intersect Faulty) < Len(names)
        /\ Cardinality(named \intersect Faulty) < Cardinality(Inspectors)

\* What is signed about a foreign transaction is true: as long as the signers
\* name their providers alike and fewer providers are faulty than there are
\* signers to ask different ones, a signed block and log are ones the
\* transaction has had, it succeeded there, and if finality was asked for, it
\* is still there, whatever the chain and the policy did in the meantime.
ForeignTxSound ==
  \A s \in signed : Trustworthy(s) =>
    /\ s.value \in places
    /\ TransactionSuccess(s.value) /\ ExtractValue(s.value)
    /\ request.finality = "final" => s.value = world.place

=============================================================================
