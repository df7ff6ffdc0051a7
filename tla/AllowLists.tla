----------------------------- MODULE AllowLists -----------------------------
(***************************************************************************)
(* The allow lists of TeeState: MPC node images, which age out once a newer*)
(* one has been in force for the upgrade deadline, and launcher images with*)
(* the compose hashes derived from them.  The hash of the compose file for *)
(* a launcher and an image is the pair of the two.                         *)
(***************************************************************************)
EXTENDS Integers, Sequences, FiniteSets, SequencesExt

CONSTANTS
  Images,                       \* hashes of MPC node images
  Launchers,                    \* hashes of launcher images
  TeeUpgradeDeadlineDuration    \* grace period for the older images

ASSUME DeadlineAssumption == TeeUpgradeDeadlineDuration \in Nat

\* An entry is enforced once its grace period lies in the past.  The end of the
\* period is a timestamp of 64 bits; its overflow is not modelled.
Enforced(entry, now) == entry.added + TeeUpgradeDeadlineDuration < now

\* The last enforced entry, or the first of all when none is enforced.
Cutoff(list, now) ==
  LET enforced == {i \in 1 .. Len(list) : Enforced(list[i], now)}
  IN IF enforced = {} THEN 1 ELSE CHOOSE i \in enforced : \A j \in enforced : j <= i

\* AllowedDockerImageHashes::valid_entries.
ValidEntries(list, now) == SubSeq(list, Cutoff(list, now), Len(list))

ImagesOf(list) == {list[i].image_hash : i \in 1 .. Len(list)}

\* The images that an attestation may be about.
AllowedImages(list, now) == ImagesOf(ValidEntries(list, now))

\* Where the sorted order wants an entry added now: the code looks for the
\* last entry that is younger, of which there is none.
InsertSorted(list, entry) ==
  LET younger == {i \in 1 .. Len(list) : entry.added < list[i].added}
      index   == IF younger = {} THEN Len(list) + 1
                 ELSE CHOOSE i \in younger : \A j \in younger : j <= i
  IN InsertAt(list, index, entry)

\* Without the first entry of the image, if there is one.
WithoutImage(list, image) ==
  LET at == {i \in 1 .. Len(list) : list[i].image_hash = image}
  IN IF at = {} THEN list ELSE RemoveAt(list, CHOOSE i \in at : \A j \in at : i <= j)

\* Mutant of InsertImage: expired entries are not cleaned up first.
InsertWithoutCleanup(list, image, now) ==
  InsertSorted(WithoutImage(list, image), [image_hash |-> image, added |-> now])

\* AllowedDockerImageHashes::insert: cleans up, drops an old entry of the
\* same image and adds the new one.
InsertImage(list, image, now) ==
  InsertSorted(WithoutImage(ValidEntries(list, now), image), [image_hash |-> image, added |-> now])

(***************************************************************************)
(* Launchers: a function from each allowed launcher to its compose hashes. *)
(***************************************************************************)
ComposeHash(launcher, image) == <<launcher, image>>

\* AllowedLauncherImages::add; a launcher that is there is left alone.
AddLauncher(allowed, launcher, images) ==
  IF launcher \in DOMAIN allowed THEN allowed
  ELSE [l \in DOMAIN allowed \union {launcher} |->
          IF l = launcher THEN {ComposeHash(l, image) : image \in images} ELSE allowed[l]]

\* AllowedLauncherImages::remove; the last launcher is not removed.
RemoveLauncher(allowed, launcher) ==
  IF DOMAIN allowed \subseteq {launcher} THEN allowed
  ELSE [l \in DOMAIN allowed \ {launcher} |-> allowed[l]]

\* Mutant of AddMpcImageComposeHashes: launchers learn nothing of the image.
KeepComposeHashes(allowed, image) == allowed

AddMpcImageComposeHashes(allowed, image) ==
  [l \in DOMAIN allowed |-> allowed[l] \union {ComposeHash(l, image)}]
=============================================================================
