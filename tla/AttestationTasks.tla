-------------------------- MODULE AttestationTasks --------------------------
(***************************************************************************)
(* How one node in a TEE keeps its attestation on the contract.  The       *)
(* launcher (tee_launcher/launcher.py) picks the image to run from a file  *)
(* that the node writes from the contract's list.  Two tasks of the node   *)
(* (tee/remote_attestation.rs) submit attestations, one every hour, one    *)
(* when the entry was removed; both send transactions that may be lost,    *)
(* late or overtaken (indexer/tx_sender.rs, indexer/tx_signer.rs), and     *)
(* tell success only by what they then find on the contract.               *)
(***************************************************************************)
EXTENDS Integers, Sequences, FiniteSets, SequencesExt

CONSTANTS
  NodeImages,
  DefaultImage,  \* DEFAULT_IMAGE_DIGEST of the launcher's compose file
  EntryLife,     \* steps of time in the life of an entry, the first of which
                 \* is MAX_ATTESTATION_AGE
  MaxInTransit,  \* transactions on their way at a time
  MaxCrashes

ASSUME AttestationTasksAssumption ==
  /\ DefaultImage \in NodeImages
  /\ EntryLife \in Nat \ {0} /\ MaxInTransit \in Nat \ {0} /\ MaxCrashes \in Nat

VARIABLES
  runs,       \* the image that runs, or Down
  tasks,      \* where each of the two tasks is
  was,        \* was_available of monitor_attestation_removal
  watched,    \* tee_accounts_receiver: is this node among the accounts
  unseen,     \* that channel has a value the monitor has not seen
  imageFile,  \* allowed images on disk, newest first; empty when missing
  transit,    \* images in transactions on their way, by increasing nonce
  kept,       \* the contract's entry: its image and the time it has left
  permitted,  \* the contract's allowed images, newest first
  crashes

taskVars == <<runs, tasks, was, watched, unseen, imageFile, transit, kept, permitted, crashes>>

Down == "down"
NoEntry == [image |-> "none", left |-> -1]
TaskNames == {"periodic", "monitor"}

\* spawn_real_indexer, create_root_future: the watch channels begin empty,
\* and the two tasks at their first await.
FreshProcess ==
  /\ tasks' = [t \in TaskNames |-> "idle"]
  /\ was' = FALSE /\ watched' = FALSE /\ unseen' = FALSE

TasksInit ==
  /\ runs = Down /\ tasks = [t \in TaskNames |-> "idle"]
  /\ was = FALSE /\ watched = FALSE /\ unseen = FALSE
  /\ imageFile = <<>> /\ transit = <<>> /\ kept = NoEntry
  /\ permitted = <<>> /\ crashes = 0

-----------------------------------------------------------------------------
(***************************************************************************)
(* The launcher and the file it reads.                                     *)
(***************************************************************************)

\* load_and_select_hash: the newest hash of the file, or an override that
\* must be among them; without a file, the default.
Approved == IF imageFile = <<>> THEN <<DefaultImage>> ELSE imageFile
SelectHash(override) == IF override \in ToSet(Approved) THEN override ELSE Head(Approved)
Selectable(override) == override = Down \/ override \in ToSet(Approved)

\* The launcher's main, when it succeeds.  An override that is not approved,
\* or an image that cannot be validated, leaves the node down.
Launch(override) ==
  /\ runs = Down /\ Selectable(override)
  /\ runs' = SelectHash(override)
  /\ FreshProcess
  /\ UNCHANGED <<imageFile, transit, kept, permitted, crashes>>

\* The node exits: by a crash, or because the watcher's storage failed and it
\* sent the shutdown signal.
Crash ==
  /\ runs # Down /\ crashes < MaxCrashes
  /\ runs' = Down /\ crashes' = crashes + 1
  /\ FreshProcess
  /\ UNCHANGED <<imageFile, transit, kept, permitted>>

\* monitor_allowed_docker_images and handle_allowed_image_hashes_update: a
\* list that is not empty is written beside the file and renamed into place.
WatchImages ==
  /\ runs # Down /\ permitted # <<>> /\ permitted # imageFile
  /\ imageFile' = permitted
  /\ UNCHANGED <<runs, tasks, was, watched, unseen, transit, kept, permitted, crashes>>

\* monitor_tee_accounts: send_if_modified.
WatchAccounts ==
  /\ runs # Down /\ watched # (kept # NoEntry)
  /\ watched' = (kept # NoEntry) /\ unseen' = TRUE
  /\ UNCHANGED <<runs, tasks, was, imageFile, transit, kept, permitted, crashes>>

-----------------------------------------------------------------------------
(***************************************************************************)
(* The tasks.  generate_attestation asks dstack without end, but for the   *)
(* collateral only twice: then the task is over.                           *)
(***************************************************************************)

Generating(t) ==
  \E outcome \in {"send", "ended"} : tasks' = [tasks EXCEPT ![t] = outcome]

\* Mutant of Tick: an entry that is there is left alone.
TickWhenMissing ==
  /\ runs # Down /\ tasks["periodic"] = "idle" /\ kept = NoEntry
  /\ Generating("periodic")
  /\ UNCHANGED <<runs, was, watched, unseen, imageFile, transit, kept, permitted, crashes>>

\* periodic_attestation_submission: the interval ticks.
Tick ==
  /\ runs # Down /\ tasks["periodic"] = "idle"
  /\ Generating("periodic")
  /\ UNCHANGED <<runs, was, watched, unseen, imageFile, transit, kept, permitted, crashes>>

\* monitor_attestation_removal: the channel changed.  What was seen is kept
\* as was_available, also while the task resubmits.
Monitor ==
  /\ runs # Down /\ tasks["monitor"] = "idle" /\ unseen
  /\ unseen' = FALSE /\ was' = watched
  /\ IF was /\ ~watched THEN Generating("monitor") ELSE UNCHANGED tasks
  /\ UNCHANGED <<runs, watched, imageFile, transit, kept, permitted, crashes>>

\* submit_tx: a transaction with the next nonce.  Whether the attestation is
\* valid is only logged (validate_and_submit_remote_attestation).  If it
\* cannot be forwarded, the retry follows.
Send(t) ==
  /\ runs # Down /\ tasks[t] = "send" /\ Len(transit) < MaxInTransit
  /\ transit' = Append(transit, runs)
  /\ tasks' = [tasks EXCEPT ![t] = "observe"]
  /\ UNCHANGED <<runs, was, watched, unseen, imageFile, kept, permitted, crashes>>

\* observe_tx_result, ten seconds later: an entry that is fresh counts as
\* this one; otherwise, or if the contract cannot be read, it is sent again.
Observe(t) ==
  /\ runs # Down /\ tasks[t] = "observe"
  /\ \/ kept.left = EntryLife /\ tasks' = [tasks EXCEPT ![t] = "idle"]
     \/ tasks' = [tasks EXCEPT ![t] = "send"]
  /\ UNCHANGED <<runs, was, watched, unseen, imageFile, transit, kept, permitted, crashes>>

\* MAX_RETRY_DURATION: after twelve hours of retries the task is over.
GiveUp(t) ==
  /\ runs # Down /\ tasks[t] \in {"send", "observe"}
  /\ tasks' = [tasks EXCEPT ![t] = "ended"]
  /\ UNCHANGED <<runs, was, watched, unseen, imageFile, transit, kept, permitted, crashes>>

-----------------------------------------------------------------------------
(***************************************************************************)
(* The chain, and the contract as Attestations models it.                  *)
(***************************************************************************)

\* make_nonce gives every transaction of the owner's key a larger nonce than
\* the ones before: the k-th on its way overtakes those ahead of it for good.
Execute(k) ==
  /\ k \in 1 .. Len(transit)
  /\ transit' = SubSeq(transit, k + 1, Len(transit))
  /\ kept' = IF transit[k] \in ToSet(permitted)
             THEN [image |-> transit[k], left |-> EntryLife] ELSE kept
  /\ UNCHANGED <<runs, tasks, was, watched, unseen, imageFile, permitted, crashes>>

Lose(k) ==
  /\ k \in 1 .. Len(transit)
  /\ transit' = RemoveAt(transit, k)
  /\ UNCHANGED <<runs, tasks, was, watched, unseen, imageFile, kept, permitted, crashes>>

TimePasses ==
  /\ kept # NoEntry /\ kept.left > 0
  /\ kept' = [kept EXCEPT !.left = @ - 1]
  /\ UNCHANGED <<runs, tasks, was, watched, unseen, imageFile, transit, permitted, crashes>>

\* clean_tee_status, when the account is not a participant.
Cleaned ==
  /\ kept # NoEntry /\ kept' = NoEntry
  /\ UNCHANGED <<runs, tasks, was, watched, unseen, imageFile, transit, permitted, crashes>>

Permit(i) ==
  /\ permitted' = <<i>> \o SelectSeq(permitted, LAMBDA j : j # i)
  /\ UNCHANGED <<runs, tasks, was, watched, unseen, imageFile, transit, kept, crashes>>

Retire ==
  /\ Len(permitted) > 1 /\ permitted' = Front(permitted)
  /\ UNCHANGED <<runs, tasks, was, watched, unseen, imageFile, transit, kept, crashes>>

TasksNext ==
  \/ \E o \in NodeImages \union {Down} : Launch(o)
  \/ Crash \/ WatchImages \/ WatchAccounts
  \/ Tick \/ Monitor
  \/ \E t \in TaskNames : Send(t) \/ Observe(t) \/ GiveUp(t)
  \/ \E k \in 1 .. MaxInTransit : Execute(k) \/ Lose(k)
  \/ TimePasses \/ Cleaned
  \/ \E i \in NodeImages : Permit(i)
  \/ Retire

\* The node's tasks run, and the chain does not lose every transaction.
TasksFairness ==
  /\ WF_taskVars(Tick)
  /\ \A t \in TaskNames : WF_taskVars(Send(t)) /\ WF_taskVars(Observe(t))
  /\ SF_taskVars(Execute(Len(transit)))

TasksSpec == TasksInit /\ [][TasksNext]_taskVars /\ TasksFairness

-----------------------------------------------------------------------------
(***************************************************************************)
(* What is promised.                                                       *)
(***************************************************************************)

EntryGood == kept.left > 0 /\ kept.image \in ToSet(permitted)

\* A node that runs an allowed image, and whose hourly task has not given up,
\* has a good entry again and again, whatever is lost, removed, expired,
\* overtaken or sent by the other task (periodic_attestation_submission,
\* ensure_send_transaction): the participant stays able to act.
AttestationKept ==
  <>[](runs \in ToSet(permitted) /\ tasks["periodic"] # "ended") => []<>EntryGood
=============================================================================
