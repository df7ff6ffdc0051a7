--------------------------- MODULE MCNodeSupport ---------------------------
(***************************************************************************)
(* Four parts of the system that share no state with one another, one of   *)
(* which runs: the attestations on the contract, the tasks that keep a     *)
(* node's attestation, a backup of key shares, and the inspection of       *)
(* foreign transactions.  Attestations: acct1 and acct2 are participants,  *)
(* acct3 joins; n1 and n3 are outside a TEE and use mocks, and n3 stores   *)
(* one for the TLS key of n2 too; n4 is the next node of acct2 and runs    *)
(* the other image, n5 is a node of acct3 with a launcher that is not      *)
(* allowed.  acct2 may name the TLS key of n1 for its migration.  Foreign  *)
(* transactions: two signers, two providers one of which is faulty, and a  *)
(* url that only trimming shows to be another one's.                       *)
(***************************************************************************)
EXTENDS Attestations, AttestationTasks, BackupService, ForeignChains

CONSTANTS acct1, acct2, acct3, n1, n2, n3, n4, n5, i1, i2, l1, l2

OwnerMC == [n \in Nodes |-> IF n = n1 THEN acct1 ELSE IF n \in {n2, n4} THEN acct2 ELSE acct3]
RunsImageMC == [n \in Nodes |-> IF n = n4 THEN i2 ELSE i1]
RunsLauncherMC == [n \in Nodes |-> IF n = n5 THEN l2 ELSE l1]

\* Evidence in order; or of a platform that is not up to date, with an info
\* that is not the one of the quote, or with the quote of another node.
Disordered(n, image, launcher) ==
  LET e       == Generate(n)
      log     == e.tcb.event_log
      compose == [config |-> "locked", docker_compose_file |-> launcher]
      event   == EventLog(RTMR3, DstackEvent, "mpc-image-digest", image)
  IN {e,
      [e EXCEPT !.quote.signed = FALSE],
      [e EXCEPT !.quote.status = "OutOfDate"],
      [e EXCEPT !.quote.advisory_ids = {"advisory"}],
      [e EXCEPT !.quote.rtmrs = "other"],
      [e EXCEPT !.tcb.rtmrs = "dev"],
      [e EXCEPT !.tcb.event_log = [log EXCEPT ![4] = event]],
      [e EXCEPT !.tcb.event_log = [log EXCEPT ![4] = [event EXCEPT !.digest = log[4].digest]]],
      [e EXCEPT !.tcb.event_log = Append(log, event)],
      [e EXCEPT !.tcb.event_log = Append([log EXCEPT ![4].event = "renamed"], event)],
      [e EXCEPT !.tcb.event_log = Append([log EXCEPT ![4].event = "renamed"], [event EXCEPT !.imr = 0])],
      [e EXCEPT !.tcb.event_log = SubSeq(log, 1, 3)],
      [e EXCEPT !.tcb.app_compose = compose],
      [e EXCEPT !.tcb.app_compose = compose, !.tcb.compose_hash = compose],
      [e EXCEPT !.tcb.app_compose.config = "open"]}
     \union {[e EXCEPT !.quote = Generate(m).quote] : m \in Nodes}

\* TLC evaluates a definition once, but the replacement of a constant every time.
Submissions ==
  [n \in Nodes |-> LET all == UNION {Disordered(n, i, l) : i \in Images, l \in AllowedLaunchers}
                   IN  IF n \in {n1, n3} THEN {e \in all : e.quote.report_data # ReportData(n, n)}
                                         ELSE all]
EvidenceMC == Submissions

Mock(signer, tls, kind, image, days) ==
  [signer |-> signer, tls |-> tls, kind |-> kind, image |-> image, launcher |-> Unconstrained,
   days |-> days]
MocksMC == {Mock(n3, n3, "timed", i1, 1), Mock(n3, n2, "mock", Unconstrained, 0)}
CandidatesMC == {<<acct1, n1>>, <<acct2, n2>>, <<acct2, n4>>, <<acct3, n3>>, <<acct3, n5>>}
DestinationsMC == {<<n4, n4>>, <<n4, n1>>}

FirstNodeMC == [x \in {acct1, acct2} |-> IF x = acct1 THEN n1 ELSE n2]

SignersMC == <<"s1", "s2">>
TrimMC == [u \in {"u1", "u2", " u1"} |-> IF u = "u2" THEN "u2" ELSE "u1"]
ChainsMC == {"Abstract", "Bitcoin", "Starknet", "Ethereum"}
OneConfig(names) == [x \in ChainsMC |-> names]
ConfigsMC == {OneConfig(<<"u1", "u2">>), OneConfig(<<"u2", "u1">>), OneConfig(<<"u1", " u1">>)}
PoliciesMC == {[x \in ChainsMC |-> {"u1", "u2"}]}
RequestsMC ==
  {[chain |-> "Abstract", finality |-> "final", extractor |-> "log"],
   [chain |-> "Starknet", finality |-> "latest", extractor |-> "block_hash"],
   [chain |-> "Starknet", finality |-> "final", extractor |-> "log"],
   [chain |-> "Bitcoin", finality |-> "final", extractor |-> "block_hash"],
   [chain |-> "Ethereum", finality |-> "final", extractor |-> "block_hash"]}

VARIABLE part

Parts == {"attestations", "tasks", "backup", "foreign"}

\* A part that does not run stays in one of its initial states.
Init ==
  /\ part \in Parts
  /\ AttestationsInit /\ (part # "attestations" => images = <<i1>>)
  /\ TasksInit
  /\ BackupInit /\ (part # "backup" => registered = 0)
  /\ ForeignInit
  /\ part # "foreign" =>
       /\ request = [chain |-> "Ethereum", finality |-> "final", extractor |-> "block_hash"]
       /\ configs = [n \in Inspectors |-> OneConfig(<<"u1", "u2">>)]
       /\ shuffle = [n \in 1..2 |-> [i \in 1..n |-> i]]

Next ==
  \/ /\ part = "attestations" /\ AttestationsNext
     /\ UNCHANGED <<part, taskVars, backupVars, foreignVars>>
  \/ /\ part = "tasks" /\ TasksNext
     /\ UNCHANGED <<part, contractVars, backupVars, foreignVars>>
  \/ /\ part = "backup" /\ BackupNext
     /\ UNCHANGED <<part, contractVars, taskVars, foreignVars>>
  \/ /\ part = "foreign" /\ ForeignNext
     /\ UNCHANGED <<part, contractVars, taskVars, backupVars>>

Spec ==
  Init /\ [][Next]_<<part, contractVars, taskVars, backupVars, foreignVars>> /\ TasksFairness

=============================================================================
