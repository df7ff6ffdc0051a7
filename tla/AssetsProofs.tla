---------------------------- MODULE AssetsProofs ----------------------------
(***************************************************************************)
(* Proofs about the life of triples and presignatures for any nodes,      *)
(* owners, mix of tasks and number of crashes: what an owner keeps is      *)
(* backed by its participants, ids are never given out twice, and an       *)
(* asset is used in one computation only.                                  *)
(***************************************************************************)
EXTENDS Assets, SequenceTheorems, TLAPS

-----------------------------------------------------------------------------
(* Types. *)

IdT == [owner : Node \cup {0}, timestamp : Nat, counter : Nat]
ShareT == [asset : AssetKinds, id : IdT, participants : SUBSET Node, task : Nat]
KindNames == {"triples", "presign", "robust_presign", "sign", "robust_sign",
              "verify_foreign_tx", "eddsa", "ckd"}
States == {"starting", "inspecting", "computing", "done", "failed"}
TaskT ==
  {u \in [kind : KindNames, leader : Node, participants : SUBSET Node, id : IdT,
          input : ShareT \cup {None}, contributed : SUBSET Node,
          state : UNION {[ps -> States] : ps \in SUBSET Node}] :
     /\ u.leader \in u.participants
     /\ u.contributed \subseteq u.participants
     /\ u.state \in [u.participants -> States]}

TypeInv ==
  /\ store \in [Node -> SUBSET ShareT]
  /\ last_id \in [Node -> [AssetKinds -> IdT]]
  /\ clock \in Nat \ {0}
  /\ tasks \in Seq(TaskT)
  /\ up \subseteq Node

(* What is known of the fields of a task. *)
IsTask(u) ==
  /\ u.kind \in KindNames /\ u.leader \in Node /\ u.leader \in u.participants
  /\ u.participants \subseteq Node /\ u.id \in IdT /\ u.input \in ShareT \cup {None}
  /\ u.contributed \subseteq u.participants /\ u.state \in [u.participants -> States]

(* A task is the record of its fields. *)
LEMMA TaskFields ==
  ASSUME NEW u \in TaskT
  PROVE  /\ IsTask(u)
         /\ u = [kind |-> u.kind, leader |-> u.leader, participants |-> u.participants,
                 id |-> u.id, input |-> u.input, contributed |-> u.contributed,
                 state |-> u.state]
<1>1. IsTask(u)
  BY DEF TaskT, IsTask
<1>2. u = [kind |-> u.kind, leader |-> u.leader, participants |-> u.participants,
                 id |-> u.id, input |-> u.input, contributed |-> u.contributed,
                 state |-> u.state]
  BY DEF TaskT
<1> QED BY <1>1, <1>2

(* A record with fields in range is a task. *)
LEMMA TaskType ==
  ASSUME NEW k \in KindNames, NEW ps \in SUBSET Node, NEW n \in ps, NEW i \in IdT,
         NEW inp \in ShareT \cup {None}, NEW c \in SUBSET ps, NEW st \in [ps -> States]
  PROVE  [kind |-> k, leader |-> n, participants |-> ps, id |-> i, input |-> inp,
          contributed |-> c, state |-> st] \in TaskT
<1>1. st \in UNION {[qs -> States] : qs \in SUBSET Node}
  OBVIOUS
<1> QED BY <1>1 DEF TaskT

(* None is the id that no asset has and the input that no share is. *)
LEMMA ShareNotNone ==
  ASSUME NEW s \in ShareT
  PROVE  s # None
<1>1. "asset" \in DOMAIN s
  BY DEF ShareT
<1>2. "asset" \notin DOMAIN None
  BY DEF None
<1> QED BY <1>1, <1>2

(* None is taken for the id of what produces nothing; its timestamp is 0. *)
LEMMA NoneIsId == None \in IdT /\ None.timestamp = 0
BY DEF None, IdT

(* A participant of a task moves on. *)
Moved(u, p, s, c) ==
  [kind |-> u.kind, leader |-> u.leader, participants |-> u.participants, id |-> u.id,
   input |-> u.input, contributed |-> c, state |-> [u.state EXCEPT ![p] = s]]

(* Moving a participant gives a task. *)
LEMMA MovedType ==
  ASSUME NEW u \in TaskT, NEW p \in u.participants, NEW s \in States,
         NEW c \in SUBSET u.participants
  PROVE  Moved(u, p, s, c) \in TaskT
<1>1. IsTask(u)
  BY TaskFields
<1>2. [u.state EXCEPT ![p] = s] \in [u.participants -> States]
  BY <1>1 DEF IsTask
<1> QED BY <1>1, <1>2, TaskType DEF IsTask, Moved

(* A change of state moves one participant. *)
LEMMA WithStateMoves ==
  ASSUME TypeInv, NEW t \in DOMAIN tasks, NEW p \in tasks[t].participants, NEW s
  PROVE  WithState(t, p, s)
           = [tasks EXCEPT ![t] = Moved(tasks[t], p, s, tasks[t].contributed)]
<1>1. tasks[t] \in TaskT
  BY DEF TypeInv
<1>2. [tasks[t] EXCEPT !.state[p] = s] = Moved(tasks[t], p, s, tasks[t].contributed)
  BY <1>1, TaskFields DEF Moved
<1> QED BY <1>2 DEF WithState

(* To begin to compute moves one participant, which has contributed. *)
LEMMA ComputesMoves ==
  ASSUME TypeInv, NEW t \in DOMAIN tasks, NEW p \in tasks[t].participants, Computes(t, p)
  PROVE  tasks' = [tasks EXCEPT ![t] =
                     Moved(tasks[t], p, "computing", tasks[t].contributed \cup {p})]
<1> DEFINE u == Moved(tasks[t], p, "computing", tasks[t].contributed)
<1>1. WithState(t, p, "computing") = [tasks EXCEPT ![t] = u]
  BY WithStateMoves
<1>2. tasks \in Seq(TaskT) /\ DOMAIN tasks = 1..Len(tasks)
  BY DEF TypeInv
<1>3. [u EXCEPT !.contributed = @ \cup {p}]
        = Moved(tasks[t], p, "computing", tasks[t].contributed \cup {p})
  BY DEF Moved
<1> HIDE DEF u
<1>4. [[tasks EXCEPT ![t] = u] EXCEPT ![t].contributed = @ \cup {p}]
        = [tasks EXCEPT ![t] = [u EXCEPT !.contributed = @ \cup {p}]]
  BY <1>2
<1> QED BY <1>1, <1>3, <1>4 DEF Computes

-----------------------------------------------------------------------------
(* The shares that a task makes. *)

Made(u, t) ==
  {Share(Produces(u.kind), id, u.participants, t) : id \in Outputs(u.kind, u.id)}

(* MadeBy, as an operator of the task. *)
LEMMA MadeByMade ==
  ASSUME NEW t
  PROVE  MadeBy(t) = Made(tasks[t], t)
BY DEF MadeBy, Made

(* Outputs lie in the range of ids that was reserved for them. *)
LEMMA OutputsFacts ==
  ASSUME NEW k, NEW i \in IdT, NEW j \in Outputs(k, i)
  PROVE  /\ j \in IdT /\ j.owner = i.owner /\ j.timestamp = i.timestamp
         /\ i.counter <= j.counter /\ j.counter <= i.counter + Reserved(k) - 1
         /\ Produces(k) \in AssetKinds
<1>0. Reserved(k) \in Nat \ {0}
  BY AssetsAssumption DEF Reserved
<1>1. Produces(k) # "nothing" /\ Produces(k) \in AssetKinds
  BY DEF Outputs, Produces, AssetKinds
<1>2. CASE k = "triples"
  <2>1. PICK d \in 0..(BatchSize \div 2 - 1) : j = AddToCounter(i, d)
    BY <1>1, <1>2 DEF Outputs, ManyTriples
  <2>2. d \in Nat /\ d <= BatchSize - 1 /\ Reserved(k) = BatchSize
    BY <1>2, <2>1, AssetsAssumption DEF Reserved
  <2>3. j \in IdT /\ j.owner = i.owner /\ j.timestamp = i.timestamp /\ j.counter = i.counter + d
    BY <2>1, <2>2 DEF AddToCounter, IdT
  <2>4. i.counter \in Nat /\ BatchSize \in Nat
    BY AssetsAssumption DEF IdT
  <2> QED BY <1>1, <2>2, <2>3, <2>4
<1>3. CASE k # "triples"
  <2>1. j = i /\ Reserved(k) = 1 /\ i.counter \in Nat
    BY <1>1, <1>3 DEF Outputs, Reserved, IdT
  <2> QED BY <1>1, <2>1
<1> QED BY <1>2, <1>3

(* What a share carries of the task that made it. *)
LEMMA MadeFacts ==
  ASSUME NEW u \in TaskT, NEW t \in Nat, NEW s \in Made(u, t)
  PROVE  /\ s \in ShareT /\ s.asset = Produces(u.kind) /\ s.asset # "nothing"
         /\ s.participants = u.participants /\ s.task = t
         /\ s.id \in Outputs(u.kind, u.id)
         /\ s.id.owner = u.id.owner /\ s.id.timestamp = u.id.timestamp
<1>1. PICK i \in Outputs(u.kind, u.id) : s = Share(Produces(u.kind), i, u.participants, t)
  BY DEF Made
<1>2. u.id \in IdT /\ u.participants \in SUBSET Node
  BY TaskFields DEF IsTask
<1>3. i \in IdT /\ i.owner = u.id.owner /\ i.timestamp = u.id.timestamp
      /\ Produces(u.kind) \in AssetKinds
  BY <1>2, OutputsFacts
<1>4. /\ s.asset = Produces(u.kind) /\ s.id = i /\ s.participants = u.participants
      /\ s.task = t /\ s \in ShareT
  BY <1>1, <1>2, <1>3 DEF Share, ShareT
<1>5. Produces(u.kind) # "nothing"
  BY <1>3 DEF AssetKinds
<1> QED BY <1>1, <1>3, <1>4, <1>5

(* A task makes one share for each id. *)
LEMMA MadeUnique ==
  ASSUME NEW u, NEW t, NEW s \in Made(u, t), NEW r \in Made(u, t), s.id = r.id
  PROVE  s = r
BY DEF Made, Share

(* A task keeps what it makes and what it uses. *)
SameTask(u, v) ==
  /\ v.kind = u.kind /\ v.leader = u.leader /\ v.participants = u.participants
  /\ v.id = u.id /\ v.input = u.input

(* What a task makes does not depend on how far it is. *)
LEMMA SameMade ==
  ASSUME NEW u, NEW v, NEW t, SameTask(u, v)
  PROVE  Made(v, t) = Made(u, t)
BY DEF SameTask, Made

-----------------------------------------------------------------------------
(* The inductive invariant.  Its parts speak of one task, or of one share at one node. *)

(* The last reserved id is the node's own and not ahead of its clock. *)
LastInv ==
  \A n \in Node, a \in AssetKinds :
    \/ last_id[n][a] = None
    \/ last_id[n][a].owner = n /\ last_id[n][a].timestamp \in 1..clock

(* The ids of a task that makes assets are its leader's; those of the present second are
   below what the leader remembers, if it is up. *)
IdOf(u) ==
  Produces(u.kind) # "nothing" =>
    /\ u.id.owner = u.leader /\ u.id.timestamp \in 1..clock
    /\ (u.leader \in up /\ u.id.timestamp = clock) =>
         /\ last_id[u.leader][Produces(u.kind)].timestamp = clock
         /\ u.id.counter + Reserved(u.kind) - 1 <= last_id[u.leader][Produces(u.kind)].counter
IdInv == \A t \in DOMAIN tasks : IdOf(tasks[t])

(* A share is one that its computation made, at a participant that finished it. *)
ShareAt(n, s) ==
  /\ s.task \in DOMAIN tasks /\ s \in Made(tasks[s.task], s.task)
  /\ n \in tasks[s.task].participants /\ tasks[s.task].state[n] = "done"
ShareInv == \A n \in Node : \A s \in store[n] : ShareAt(n, s)

(* The leader of a generation is the last to finish it, and until then its followers keep
   what they made. *)
AllDone(u) == \A p \in u.participants : u.state[p] = "done"
LeaderLast ==
  \A t \in DOMAIN tasks :
    (Produces(tasks[t].kind) # "nothing" /\ tasks[t].state[tasks[t].leader] = "done")
      => AllDone(tasks[t])
FollowersKeep ==
  \A t \in DOMAIN tasks : \A p \in tasks[t].participants :
    (tasks[t].state[p] = "done" /\ tasks[t].state[tasks[t].leader] # "done")
      => Made(tasks[t], t) \subseteq store[p]

(* The input of a task was made by a finished computation of the same participants, led by
   the same node, and those who contribute to the task have it no more. *)
InputFrom(u, s) ==
  /\ s.asset = Consumes(u.kind) /\ s.participants = u.participants
  /\ s.task \in DOMAIN tasks /\ s \in Made(tasks[s.task], s.task)
  /\ tasks[s.task].leader = u.leader /\ AllDone(tasks[s.task])
InputGone(u, s) == s \notin store[u.leader] /\ \A p \in u.contributed : s \notin store[p]
InputOf(u) ==
  IF Consumes(u.kind) = "nothing" THEN u.input = None
  ELSE u.input \in ShareT /\ InputFrom(u, u.input) /\ InputGone(u, u.input)
InputInv == \A t \in DOMAIN tasks : InputOf(tasks[t])
InputsDiffer ==
  \A t, u \in DOMAIN tasks : (tasks[t].input = tasks[u].input /\ tasks[t].input # None) => t = u

Inv ==
  /\ TypeInv /\ LastInv /\ IdInv /\ IdsFresh
  /\ ShareInv /\ LeaderLast /\ FollowersKeep /\ OwnedBacked
  /\ InputInv /\ InputsDiffer

(* Two shares with the same name are the same share. *)
LEMMA NameIsUnique ==
  ASSUME TypeInv, IdsFresh,
         NEW s, s.task \in DOMAIN tasks, s \in Made(tasks[s.task], s.task),
         NEW r, r.task \in DOMAIN tasks, r \in Made(tasks[r.task], r.task),
         s.asset = r.asset, s.id = r.id
  PROVE  s = r
<1>1. /\ tasks[s.task] \in TaskT /\ s.task \in Nat
      /\ tasks[r.task] \in TaskT /\ r.task \in Nat
  BY DEF TypeInv
<1>2. /\ s.asset = Produces(tasks[s.task].kind) /\ r.asset = Produces(tasks[r.task].kind)
      /\ s.id \in Outputs(tasks[s.task].kind, tasks[s.task].id)
      /\ r.id \in Outputs(tasks[r.task].kind, tasks[r.task].id)
  BY <1>1, MadeFacts
<1>3. s.task = r.task
  BY <1>2 DEF IdsFresh
<1> QED BY <1>3, MadeUnique

(* The owner of a share leads the computation that made it. *)
LEMMA OwnerLeads ==
  ASSUME TypeInv, IdInv, NEW s, s.task \in DOMAIN tasks, s \in Made(tasks[s.task], s.task)
  PROVE  /\ s.id.owner = tasks[s.task].leader /\ s.participants = tasks[s.task].participants
         /\ s.id.timestamp \in 1..clock
         /\ Produces(tasks[s.task].kind) # "nothing" /\ s.asset = Produces(tasks[s.task].kind)
         /\ tasks[s.task] \in TaskT /\ s \in ShareT
<1>1. tasks[s.task] \in TaskT /\ s.task \in Nat
  BY DEF TypeInv
<1>2. /\ s.id.owner = tasks[s.task].id.owner /\ s.participants = tasks[s.task].participants
      /\ s.id.timestamp = tasks[s.task].id.timestamp
      /\ Produces(tasks[s.task].kind) # "nothing" /\ s.asset = Produces(tasks[s.task].kind)
      /\ s \in ShareT
  BY <1>1, MadeFacts
<1>3. tasks[s.task].id.owner = tasks[s.task].leader /\ tasks[s.task].id.timestamp \in 1..clock
  BY <1>2 DEF IdInv, IdOf
<1> QED BY <1>1, <1>2, <1>3

(* The invariant gives the properties. *)
LEMMA InvGivesStores == Inv => StoresSound
<1> SUFFICES ASSUME Inv PROVE StoresSound
  OBVIOUS
<1> USE DEF Inv
<1>1. ASSUME NEW n \in Node, NEW s \in store[n]
      PROVE  s.asset \in AssetKinds /\ n \in s.participants
  <2>1. ShareAt(n, s)
    BY DEF ShareInv
  <2>2. s.participants = tasks[s.task].participants /\ s \in ShareT
    BY <2>1, OwnerLeads DEF ShareAt
  <2> QED BY <2>1, <2>2 DEF ShareAt, ShareT
<1>2. ASSUME NEW n \in Node, NEW a \in AssetKinds, NEW s \in store[n], NEW r \in store[n],
             s.asset = a, r.asset = a, s.id = r.id
      PROVE  s = r
  <2>1. ShareAt(n, s) /\ ShareAt(n, r)
    BY DEF ShareInv
  <2> QED BY <1>2, <2>1, NameIsUnique DEF ShareAt
<1>3. ASSUME NEW n \in Node, NEW a \in AssetKinds
      PROVE  last_id[n][a] = None \/ (last_id[n][a].owner = n /\ last_id[n][a].counter \in Nat)
  <2>1. last_id[n][a] \in IdT
    BY DEF TypeInv
  <2>2. last_id[n][a].counter \in Nat
    BY <2>1 DEF IdT
  <2> QED BY <2>2 DEF LastInv
<1>4. ASSUME NEW t \in DOMAIN tasks PROVE tasks[t].contributed \subseteq tasks[t].participants
  BY TaskFields DEF TypeInv, IsTask
<1>5. up \subseteq Node
  BY DEF TypeInv
<1>6. TypeOK
  BY <1>1, <1>2, <1>3, <1>4, <1>5 DEF TypeOK
<1> QED BY <1>6 DEF StoresSound

(* The invariant contains what is claimed of uses. *)
LEMMA InvGivesUses == Inv => UsedSafely
<1> SUFFICES ASSUME Inv PROVE UsedSafely
  OBVIOUS
<1> USE DEF Inv
<1>1. ASSUME NEW t \in DOMAIN tasks, tasks[t].input # None
      PROVE  /\ UsedIn(tasks[t].input) = {t}
             /\ tasks[t].input \notin store[tasks[t].leader]
             /\ \A p \in tasks[t].contributed : tasks[t].input \notin store[p]
  <2>1. InputOf(tasks[t])
    BY DEF InputInv
  <2>2. InputGone(tasks[t], tasks[t].input)
    BY <1>1, <2>1 DEF InputOf
  <2>3. UsedIn(tasks[t].input) = {t}
    BY <1>1 DEF UsedIn, InputsDiffer
  <2> QED BY <2>2, <2>3 DEF InputGone
<1> QED BY <1>1 DEF UsedSafely, UsedInOneComputation

-----------------------------------------------------------------------------
(* How steps change tasks and stores. *)

(* Tasks keep what they make and use, and who has finished has finished. *)
Evolves ==
  /\ tasks' \in Seq(TaskT) /\ DOMAIN tasks \subseteq DOMAIN tasks'
  /\ \A t \in DOMAIN tasks :
       /\ SameTask(tasks[t], tasks'[t])
       /\ \A p \in tasks[t].participants :
            tasks[t].state[p] = "done" => tasks'[t].state[p] = "done"

(* Nobody finishes in this step. *)
NoneDone ==
  \A t \in DOMAIN tasks' : \A p \in tasks'[t].participants :
    tasks'[t].state[p] = "done" => t \in DOMAIN tasks /\ tasks[t].state[p] = "done"

(* Shares are only removed, and only those that the owner has given up. *)
Shrinks ==
  /\ store' \in [Node -> SUBSET ShareT]
  /\ \A m \in Node : store'[m] \subseteq store[m]
  /\ \A m \in Node : \A s \in store[m] \ store'[m] :
       /\ s \notin store'[tasks[s.task].leader]
       /\ tasks[s.task].state[tasks[s.task].leader] = "done"

(* A share stays one that its task made, whose holder is done. *)
LEMMA ShareAtStays ==
  ASSUME TypeInv, Evolves, NEW n, NEW s, ShareAt(n, s)
  PROVE  /\ s.task \in DOMAIN tasks' /\ s \in Made(tasks'[s.task], s.task)
         /\ n \in tasks'[s.task].participants /\ tasks'[s.task].state[n] = "done"
         /\ SameTask(tasks[s.task], tasks'[s.task])
<1>1. SameTask(tasks[s.task], tasks'[s.task])
  BY DEF Evolves, ShareAt
<1>2. Made(tasks'[s.task], s.task) = Made(tasks[s.task], s.task)
  BY <1>1, SameMade
<1> QED BY <1>1, <1>2 DEF Evolves, ShareAt, SameTask

(* As long as nobody finishes and stores only lose shares, the parts about
   stores hold. *)
LEMMA ShrinkKeeps ==
  ASSUME Inv, Evolves, NoneDone, Shrinks
  PROVE  ShareInv' /\ LeaderLast' /\ FollowersKeep' /\ OwnedBacked'
<1> USE DEF Inv
<1>1. ShareInv'
  <2> SUFFICES ASSUME NEW n \in Node, NEW s \in store'[n]
               PROVE  ShareAt(n, s)'
    BY DEF ShareInv
  <2>1. ShareAt(n, s)
    BY DEF ShareInv, Shrinks
  <2> QED BY <2>1, ShareAtStays DEF ShareAt
<1>2. LeaderLast'
  <2> SUFFICES ASSUME NEW t \in DOMAIN tasks', Produces(tasks'[t].kind) # "nothing",
                      tasks'[t].state[tasks'[t].leader] = "done",
                      NEW p \in tasks'[t].participants
               PROVE  tasks'[t].state[p] = "done"
    BY DEF LeaderLast, AllDone
  <2>1. tasks'[t].leader \in tasks'[t].participants
    BY TaskFields DEF Evolves, IsTask
  <2>2. t \in DOMAIN tasks /\ tasks[t].state[tasks'[t].leader] = "done"
    BY <2>1 DEF NoneDone
  <2>3. SameTask(tasks[t], tasks'[t])
    BY <2>2 DEF Evolves
  <2>4. AllDone(tasks[t])
    BY <2>2, <2>3 DEF LeaderLast, SameTask
  <2> QED BY <2>2, <2>3, <2>4 DEF Evolves, SameTask, AllDone
<1>3. FollowersKeep'
  <2> SUFFICES ASSUME NEW t \in DOMAIN tasks', NEW p \in tasks'[t].participants,
                      tasks'[t].state[p] = "done",
                      tasks'[t].state[tasks'[t].leader] # "done",
                      NEW s \in Made(tasks'[t], t)
               PROVE  s \in store'[p]
    BY DEF FollowersKeep
  <2>1. t \in DOMAIN tasks /\ tasks[t].state[p] = "done"
    BY DEF NoneDone
  <2>2. SameTask(tasks[t], tasks'[t]) /\ tasks[t] \in TaskT /\ t \in Nat
    BY <2>1 DEF Evolves, TypeInv
  <2>3. s \in Made(tasks[t], t) /\ p \in tasks[t].participants
    BY <2>2, SameMade DEF SameTask
  <2>4. tasks[t].leader \in tasks[t].participants /\ p \in Node
    BY <2>2, <2>3, TaskFields DEF IsTask
  <2>5. tasks[t].state[tasks[t].leader] # "done"
    BY <2>1, <2>2, <2>4 DEF Evolves, SameTask
  <2>6. s \in store[p] /\ s.task = t
    BY <2>1, <2>2, <2>3, <2>5, MadeFacts DEF FollowersKeep
  <2> QED BY <2>4, <2>5, <2>6 DEF Shrinks
<1>4. OwnedBacked'
  <2> SUFFICES ASSUME NEW n \in Node, NEW a \in AssetKinds, NEW s \in store'[n],
                      s.asset = a, s.id.owner = n, NEW p \in s.participants
               PROVE  s \in store'[p]
    BY DEF OwnedBacked, Owned
  <2>1. s \in store[n] /\ ShareAt(n, s)
    BY DEF Shrinks, ShareInv
  <2>2. s.id.owner = tasks[s.task].leader /\ s \in ShareT
    BY <2>1, OwnerLeads DEF ShareAt
  <2>3. s \in store[p] /\ p \in Node
    BY <2>1, <2>2 DEF OwnedBacked, Owned, ShareT
  <2> QED BY <2>2, <2>3 DEF Shrinks
<1> QED BY <1>1, <1>2, <1>3, <1>4

(* Nobody who leads, or contributes to, a task gets its input back. *)
InputsStayGone ==
  \A t \in DOMAIN tasks : tasks[t].input # None =>
    /\ tasks[t].input \notin store'[tasks[t].leader]
    /\ \A p \in tasks'[t].contributed : tasks[t].input \notin store'[p]

(* A step may add one task, whose input nobody uses. *)
NewInput ==
  /\ \A t \in DOMAIN tasks' \ DOMAIN tasks :
       /\ InputOf(tasks[t])'
       /\ tasks'[t].input # None => \A u \in DOMAIN tasks : tasks[u].input # tasks'[t].input
  /\ \A t, u \in DOMAIN tasks' \ DOMAIN tasks : t = u

(* As long as a new input is one that nobody used, the parts about inputs hold. *)
LEMMA InputKeeps ==
  ASSUME Inv, Evolves, InputsStayGone, NewInput
  PROVE  InputInv' /\ InputsDiffer'
<1> USE DEF Inv
<1>1. ASSUME NEW t \in DOMAIN tasks, Consumes(tasks[t].kind) # "nothing"
      PROVE  tasks[t].input # None /\ tasks[t].input \in ShareT
             /\ InputFrom(tasks[t], tasks[t].input)
  <2>1. InputOf(tasks[t])
    BY DEF InputInv
  <2> QED BY <1>1, <2>1, ShareNotNone DEF InputOf
<1>2. ASSUME NEW t \in DOMAIN tasks' PROVE InputOf(tasks[t])'
  <2>1. CASE t \notin DOMAIN tasks
    BY <2>1 DEF NewInput
  <2>2. CASE t \in DOMAIN tasks
    <3>1. SameTask(tasks[t], tasks'[t])
      BY <2>2 DEF Evolves
    <3>2. CASE Consumes(tasks[t].kind) = "nothing"
      <4>1. tasks[t].input = None
        BY <2>2, <3>2 DEF InputInv, InputOf
      <4> QED BY <3>1, <3>2, <4>1 DEF InputOf, SameTask
    <3>3. CASE Consumes(tasks[t].kind) # "nothing"
      <4> DEFINE s == tasks[t].input
      <4>1. s # None /\ s \in ShareT /\ InputFrom(tasks[t], s)
        BY <1>1, <2>2, <3>3
      <4>2. tasks'[t].input = s
        BY <3>1 DEF SameTask
      <4>3. s \notin store'[tasks[t].leader] /\ \A p \in tasks'[t].contributed : s \notin store'[p]
        BY <2>2, <4>1 DEF InputsStayGone
      <4> HIDE DEF s
      <4>4. SameTask(tasks[s.task], tasks'[s.task]) /\ s.task \in DOMAIN tasks'
        BY <4>1 DEF InputFrom, Evolves
      <4>5. Made(tasks'[s.task], s.task) = Made(tasks[s.task], s.task)
        BY <4>4, SameMade
      <4>6. AllDone(tasks'[s.task])
        BY <4>1, <4>4 DEF InputFrom, Evolves, AllDone, SameTask
      <4>7. /\ s.asset = Consumes(tasks'[t].kind) /\ s.participants = tasks'[t].participants
            /\ tasks'[s.task].leader = tasks'[t].leader
            /\ s \in Made(tasks'[s.task], s.task)
        BY <3>1, <4>1, <4>4, <4>5 DEF InputFrom, SameTask
      <4>8. Consumes(tasks'[t].kind) # "nothing" /\ s \notin store'[tasks'[t].leader]
        BY <3>1, <3>3, <4>3 DEF SameTask
      <4> QED BY <4>1, <4>2, <4>3, <4>4, <4>6, <4>7, <4>8 DEF InputOf, InputFrom, InputGone, AllDone
    <3> QED BY <3>2, <3>3
  <2> QED BY <2>1, <2>2
<1>3. ASSUME NEW t \in DOMAIN tasks', NEW u \in DOMAIN tasks',
             tasks'[t].input = tasks'[u].input, tasks'[t].input # None
      PROVE  t = u
  <2>1. \A v \in DOMAIN tasks : tasks'[v].input = tasks[v].input
    BY DEF Evolves, SameTask
  <2>2. CASE t \in DOMAIN tasks /\ u \in DOMAIN tasks
    BY <1>3, <2>1, <2>2 DEF InputsDiffer
  <2>3. CASE t \notin DOMAIN tasks /\ u \in DOMAIN tasks
    BY <1>3, <2>1, <2>3 DEF NewInput
  <2>4. CASE t \in DOMAIN tasks /\ u \notin DOMAIN tasks
    BY <1>3, <2>1, <2>4 DEF NewInput
  <2>5. CASE t \notin DOMAIN tasks /\ u \notin DOMAIN tasks
    BY <2>5 DEF NewInput
  <2> QED BY <2>2, <2>3, <2>4, <2>5
<1> QED BY <1>2, <1>3 DEF InputInv, InputsDiffer

(* Ids stay what they are in a step that starts no task. *)
LEMMA IdsKeep ==
  ASSUME Inv, Evolves, DOMAIN tasks' = DOMAIN tasks, UNCHANGED <<last_id, clock, up>>
  PROVE  LastInv' /\ IdInv' /\ IdsFresh'
<1>1. LastInv'
  BY DEF Inv, LastInv
<1>2. \A t \in DOMAIN tasks : SameTask(tasks[t], tasks'[t])
  BY DEF Evolves
<1>3. IdInv'
  BY <1>2 DEF Inv, IdInv, IdOf, SameTask
<1>4. IdsFresh'
  BY <1>2 DEF Inv, IdsFresh, SameTask
<1> QED BY <1>1, <1>3, <1>4

-----------------------------------------------------------------------------
(* Steps of one participant of a task. *)

(* Participant p of task t goes to state s, and c is the set of those who contributed. *)
Moves(t, p, s, c) == tasks' = [tasks EXCEPT ![t] = Moved(tasks[t], p, s, c)]

(* What that does to the tasks. *)
LEMMA MoveEvolves ==
  ASSUME TypeInv, NEW t \in DOMAIN tasks, NEW p \in tasks[t].participants,
         tasks[t].state[p] # "done", NEW s \in States,
         NEW c \in SUBSET tasks[t].participants,
         Moves(t, p, s, c)
  PROVE  /\ Evolves /\ DOMAIN tasks' = DOMAIN tasks
         /\ tasks'[t].contributed = c /\ tasks'[t].state[p] = s
         /\ \A q \in tasks[t].participants \ {p} : tasks'[t].state[q] = tasks[t].state[q]
         /\ \A u \in DOMAIN tasks \ {t} : tasks'[u] = tasks[u]
<1>1. tasks \in Seq(TaskT) /\ tasks[t] \in TaskT /\ IsTask(tasks[t])
  BY TaskFields DEF TypeInv
<1>2. Moved(tasks[t], p, s, c) \in TaskT
  BY <1>1, MovedType
<1>3. /\ tasks' \in Seq(TaskT) /\ DOMAIN tasks' = DOMAIN tasks
      /\ tasks'[t] = Moved(tasks[t], p, s, c)
      /\ \A u \in DOMAIN tasks \ {t} : tasks'[u] = tasks[u]
  BY <1>1, <1>2 DEF Moves
<1>4. /\ SameTask(tasks[t], tasks'[t]) /\ tasks'[t].contributed = c
      /\ tasks'[t].state = [tasks[t].state EXCEPT ![p] = s]
  BY <1>3 DEF SameTask, Moved
<1>5. /\ tasks'[t].state[p] = s
      /\ \A q \in tasks[t].participants \ {p} : tasks'[t].state[q] = tasks[t].state[q]
  BY <1>1, <1>4 DEF IsTask
<1>6. Evolves
  <2>1. \A u \in DOMAIN tasks \ {t} : SameTask(tasks[u], tasks'[u])
    BY <1>3 DEF SameTask
  <2> QED BY <1>3, <1>4, <1>5, <2>1 DEF Evolves
<1> QED BY <1>3, <1>4, <1>5, <1>6

(* A move to a state other than done finishes nobody. *)
LEMMA MoveNoneDone ==
  ASSUME TypeInv, NEW t \in DOMAIN tasks, NEW p \in tasks[t].participants,
         tasks[t].state[p] # "done", NEW s \in States \ {"done"},
         NEW c \in SUBSET tasks[t].participants,
         Moves(t, p, s, c)
  PROVE  NoneDone
<1>1. /\ Evolves /\ DOMAIN tasks' = DOMAIN tasks /\ tasks'[t].state[p] = s
      /\ \A q \in tasks[t].participants \ {p} : tasks'[t].state[q] = tasks[t].state[q]
      /\ \A u \in DOMAIN tasks \ {t} : tasks'[u] = tasks[u]
  BY MoveEvolves
<1> QED BY <1>1 DEF NoneDone, Evolves, SameTask

(* A participant goes on, or fails, without touching its store. *)
LEMMA QuietMove ==
  ASSUME Inv, NEW t \in DOMAIN tasks, NEW p \in tasks[t].participants,
         tasks[t].state[p] # "done", NEW s \in States \ {"done"},
         NEW c \in SUBSET tasks[t].participants,
         \/ c = tasks[t].contributed
         \/ c = tasks[t].contributed \cup {tasks[t].leader}
         \/ Consumes(tasks[t].kind) = "nothing",
         Moves(t, p, s, c),
         UNCHANGED <<store, last_id, clock, up>>
  PROVE  Inv'
<1> USE DEF Inv
<1>1. /\ Evolves /\ DOMAIN tasks' = DOMAIN tasks /\ NoneDone
      /\ tasks'[t].contributed = c
      /\ \A u \in DOMAIN tasks \ {t} : tasks'[u] = tasks[u]
  BY MoveEvolves, MoveNoneDone
<1>2. TypeInv'
  BY <1>1 DEF TypeInv, Evolves
<1>3. Shrinks
  BY DEF Shrinks, TypeInv
<1>4. InputsStayGone
  <2> SUFFICES ASSUME NEW u \in DOMAIN tasks, tasks[u].input # None
               PROVE  /\ tasks[u].input \notin store'[tasks[u].leader]
                      /\ \A q \in tasks'[u].contributed : tasks[u].input \notin store'[q]
    BY DEF InputsStayGone
  <2>1. Consumes(tasks[u].kind) # "nothing" /\ InputGone(tasks[u], tasks[u].input)
    BY DEF InputInv, InputOf
  <2> QED BY <1>1, <2>1 DEF InputGone
<1>5. NewInput
  BY <1>1 DEF NewInput
<1> QED BY <1>1, <1>2, <1>3, <1>4, <1>5, ShrinkKeeps, InputKeeps, IdsKeep

(* A follower takes its share of the input and computes. *)
LEMMA TakeMove ==
  ASSUME Inv, NEW t \in DOMAIN tasks, NEW p \in tasks[t].participants,
         tasks[t].state[p] # "done", Consumes(tasks[t].kind) # "nothing",
         Moves(t, p, "computing", tasks[t].contributed \cup {p}),
         store' = [store EXCEPT ![p] = @ \ {s \in store[p] : s.asset = Consumes(tasks[t].kind)
                                              /\ s.id = tasks[t].input.id}],
         UNCHANGED <<last_id, clock, up>>
  PROVE  Inv'
<1> USE DEF Inv
<1> DEFINE i == tasks[t].input
           c == tasks[t].contributed \cup {p}
           k == Consumes(tasks[t].kind)
<1>0. tasks[t] \in TaskT /\ IsTask(tasks[t]) /\ p \in Node /\ c \in SUBSET tasks[t].participants
  BY TaskFields DEF TypeInv, IsTask
<1>1. /\ Evolves /\ DOMAIN tasks' = DOMAIN tasks /\ NoneDone
      /\ tasks'[t].contributed = c
      /\ \A u \in DOMAIN tasks \ {t} : tasks'[u] = tasks[u]
  <2>1. "computing" \in States \ {"done"}
    BY DEF States
  <2> QED BY <1>0, <2>1, MoveEvolves, MoveNoneDone
<1>2. i \in ShareT /\ InputFrom(tasks[t], i) /\ InputGone(tasks[t], i)
  BY DEF InputInv, InputOf
<1>3. i.asset = k
  BY <1>2 DEF InputFrom
<1> HIDE DEF i, c, k
<1>4. store' = [store EXCEPT ![p] = @ \ {s \in store[p] : s.asset = k /\ s.id = i.id}]
  BY DEF i, k
<1>5. /\ store' \in [Node -> SUBSET ShareT]
      /\ \A m \in Node \ {p} : store'[m] = store[m]
      /\ store'[p] = store[p] \ {s \in store[p] : s.asset = k /\ s.id = i.id}
  BY <1>0, <1>4 DEF TypeInv
<1>6. ASSUME NEW m \in Node, NEW s \in store[m] \ store'[m]
      PROVE  m = p /\ s = i
  <2>1. m = p /\ s.asset = k /\ s.id = i.id
    BY <1>5, <1>6
  <2>2. ShareAt(m, s)
    BY <1>6 DEF ShareInv
  <2> QED BY <1>2, <1>3, <2>1, <2>2, NameIsUnique DEF ShareAt, InputFrom
<1>7. i \notin store'[p]
  BY <1>3, <1>5
<1>8. TypeInv'
  BY <1>1, <1>5 DEF TypeInv, Evolves
<1>9. \A m \in Node : store'[m] \subseteq store[m]
  BY <1>5
<1>10. Shrinks
  <2> SUFFICES ASSUME NEW m \in Node, NEW s \in store[m] \ store'[m]
               PROVE  /\ s \notin store'[tasks[s.task].leader]
                      /\ tasks[s.task].state[tasks[s.task].leader] = "done"
    BY <1>5, <1>9 DEF Shrinks
  <2>1. s = i
    BY <1>6
  <2>2. tasks[i.task] \in TaskT
    BY <1>2 DEF InputFrom, TypeInv
  <2>3. tasks[i.task].leader \in tasks[i.task].participants /\ tasks[i.task].leader \in Node
    BY <2>2, TaskFields DEF IsTask
  <2>4. i \notin store'[tasks[i.task].leader]
    BY <1>2, <1>9, <2>3 DEF InputFrom, InputGone
  <2> QED BY <1>2, <2>1, <2>3, <2>4 DEF InputFrom, AllDone
<1>11. InputsStayGone
  <2> SUFFICES ASSUME NEW u \in DOMAIN tasks, tasks[u].input # None
               PROVE  /\ tasks[u].input \notin store'[tasks[u].leader]
                      /\ \A q \in tasks'[u].contributed : tasks[u].input \notin store'[q]
    BY DEF InputsStayGone
  <2>1. Consumes(tasks[u].kind) # "nothing" /\ InputGone(tasks[u], tasks[u].input)
    BY DEF InputInv, InputOf
  <2>2. IsTask(tasks[u])
    BY TaskFields DEF TypeInv
  <2>3. tasks[u].input \notin store'[tasks[u].leader]
    BY <1>9, <2>1, <2>2 DEF InputGone, IsTask
  <2>4. ASSUME NEW q \in tasks[u].contributed PROVE tasks[u].input \notin store'[q]
    BY <1>9, <2>1, <2>2 DEF InputGone, IsTask
  <2>5. CASE u # t
    BY <1>1, <2>3, <2>4, <2>5
  <2>6. CASE u = t
    BY <1>1, <1>7, <2>3, <2>4, <2>6 DEF c, i
  <2> QED BY <2>5, <2>6
<1>12. NewInput
  BY <1>1 DEF NewInput
<1> QED BY <1>1, <1>8, <1>10, <1>11, <1>12, ShrinkKeeps, InputKeeps, IdsKeep

(* A participant finishes: it stores what the task makes. *)
LEMMA DoneMove ==
  ASSUME Inv, NEW t \in DOMAIN tasks, NEW p \in tasks[t].participants,
         tasks[t].state[p] = "computing",
         (p = tasks[t].leader /\ Produces(tasks[t].kind) # "nothing") => FollowersSucceeded(t),
         tasks' = WithState(t, p, "done"),
         store' = [store EXCEPT ![p] = Put(@, MadeBy(t))],
         UNCHANGED <<last_id, clock, up>>
  PROVE  Inv'
<1> USE DEF Inv
<1> DEFINE M == Made(tasks[t], t)
<1>0. tasks[t] \in TaskT /\ IsTask(tasks[t]) /\ p \in Node /\ t \in Nat
  BY TaskFields DEF TypeInv, IsTask
<1>1. /\ Evolves /\ DOMAIN tasks' = DOMAIN tasks
      /\ tasks'[t].contributed = tasks[t].contributed /\ tasks'[t].state[p] = "done"
      /\ \A q \in tasks[t].participants \ {p} : tasks'[t].state[q] = tasks[t].state[q]
      /\ \A u \in DOMAIN tasks \ {t} : tasks'[u] = tasks[u]
  <2>1. "done" \in States /\ tasks[t].contributed \in SUBSET tasks[t].participants
    BY <1>0 DEF States, IsTask
  <2>2. Moves(t, p, "done", tasks[t].contributed)
    BY WithStateMoves DEF Moves
  <2> QED BY <2>1, <2>2, MoveEvolves
<1>2. ASSUME NEW s \in M
      PROVE  /\ s \in ShareT /\ s.task = t /\ s.id.owner = tasks[t].leader
             /\ s.participants = tasks[t].participants /\ Produces(tasks[t].kind) # "nothing"
  BY <1>0, <1>2, MadeFacts, OwnerLeads
<1>3. Put(store[p], M) = store[p] \cup M
  <2> SUFFICES ASSUME NEW s \in store[p], NEW r \in M, r.asset = s.asset, r.id = s.id
               PROVE  FALSE
    BY DEF Put
  <2>1. ShareAt(p, s)
    BY <1>0 DEF ShareInv
  <2>2. s = r
    BY <1>2, <2>1, NameIsUnique DEF ShareAt
  <2> QED BY <1>2, <2>1, <2>2 DEF ShareAt
<1>4. /\ store' \in [Node -> SUBSET ShareT]
      /\ \A m \in Node \ {p} : store'[m] = store[m]
      /\ store'[p] = store[p] \cup M
  <2>1. store' = [store EXCEPT ![p] = store[p] \cup M]
    BY <1>3, MadeByMade
  <2>2. M \subseteq ShareT
    BY <1>2
  <2> HIDE DEF M
  <2> QED BY <1>0, <2>1, <2>2 DEF TypeInv
<1>5. SameTask(tasks[t], tasks'[t]) /\ Made(tasks'[t], t) = M
  BY <1>1, SameMade DEF Evolves
<1> HIDE DEF M
<1>6. TypeInv'
  BY <1>1, <1>4 DEF TypeInv, Evolves
<1>7. ShareInv'
  <2> SUFFICES ASSUME NEW n \in Node, NEW s \in store'[n]
               PROVE  ShareAt(n, s)'
    BY DEF ShareInv
  <2>1. CASE s \in store[n]
    <3>1. ShareAt(n, s)
      BY <2>1 DEF ShareInv
    <3>2. /\ s.task \in DOMAIN tasks' /\ s \in Made(tasks'[s.task], s.task)
          /\ n \in tasks'[s.task].participants /\ tasks'[s.task].state[n] = "done"
      BY <1>1, <3>1, ShareAtStays
    <3> QED BY <3>2 DEF ShareAt
  <2>2. CASE n = p /\ s \in M
    BY <1>1, <1>2, <1>5, <2>2 DEF ShareAt, SameTask
  <2> QED BY <1>4, <2>1, <2>2
<1>8. LeaderLast'
  <2> SUFFICES ASSUME NEW u \in DOMAIN tasks', Produces(tasks'[u].kind) # "nothing",
                      tasks'[u].state[tasks'[u].leader] = "done",
                      NEW q \in tasks'[u].participants
               PROVE  tasks'[u].state[q] = "done"
    BY DEF LeaderLast, AllDone
  <2>1. CASE u # t
    BY <1>1, <2>1 DEF LeaderLast, AllDone
  <2>2. CASE u = t /\ p = tasks[t].leader
    BY <1>1, <1>5, <2>2 DEF SameTask, FollowersSucceeded
  <2>3. CASE u = t /\ p # tasks[t].leader
    <3>1. tasks[t].state[tasks[t].leader] = "done"
      BY <1>0, <1>1, <1>5, <2>3 DEF SameTask, IsTask
    <3>2. AllDone(tasks[t])
      BY <1>5, <2>3, <3>1 DEF LeaderLast, SameTask
    <3> QED BY <3>2 DEF AllDone
  <2> QED BY <2>1, <2>2, <2>3
<1>9. FollowersKeep'
  <2> SUFFICES ASSUME NEW u \in DOMAIN tasks', NEW q \in tasks'[u].participants,
                      tasks'[u].state[q] = "done",
                      tasks'[u].state[tasks'[u].leader] # "done"
               PROVE  Made(tasks'[u], u) \subseteq store'[q]
    BY DEF FollowersKeep
  <2>0. IsTask(tasks'[u])
    BY <1>1, TaskFields DEF Evolves
  <2>1. store[q] \subseteq store'[q]
    BY <1>4, <2>0 DEF IsTask
  <2>2. CASE u # t
    BY <1>1, <2>1, <2>2 DEF FollowersKeep
  <2>3. CASE u = t /\ q = p
    BY <1>4, <1>5, <2>3
  <2>4. CASE u = t /\ q # p
    <3>1. tasks[t].state[q] = "done" /\ q \in tasks[t].participants
      BY <1>1, <1>5, <2>4 DEF SameTask
    <3>2. tasks[t].state[tasks[t].leader] # "done"
      BY <1>0, <1>1, <1>5, <2>4 DEF SameTask, IsTask
    <3>3. Made(tasks[t], t) \subseteq store[q]
      BY <3>1, <3>2 DEF FollowersKeep
    <3> QED BY <1>5, <2>1, <2>4, <3>3 DEF M
  <2> QED BY <2>2, <2>3, <2>4
<1>10. OwnedBacked'
  <2> SUFFICES ASSUME NEW n \in Node, NEW a \in AssetKinds, NEW s \in store'[n],
                      s.asset = a, s.id.owner = n, NEW q \in s.participants
               PROVE  s \in store'[q]
    BY DEF OwnedBacked, Owned
  <2>0. q \in Node
    BY <1>4 DEF ShareT
  <2>1. store[q] \subseteq store'[q]
    BY <1>4, <2>0
  <2>2. CASE s \in store[n]
    BY <2>1, <2>2 DEF OwnedBacked, Owned
  <2>3. CASE n = p /\ s \in M
    <3>1. p = tasks[t].leader /\ q \in tasks[t].participants /\ FollowersSucceeded(t)
      BY <1>2, <2>3
    <3>2. CASE q = p
      BY <1>4, <2>3, <3>2
    <3>3. CASE q # p
      <4>1. tasks[t].state[q] = "done"
        BY <3>1, <3>3 DEF FollowersSucceeded
      <4>2. M \subseteq store[q]
        BY <3>1, <4>1 DEF FollowersKeep, M
      <4> QED BY <2>1, <2>3, <4>2
    <3> QED BY <3>2, <3>3
  <2> QED BY <1>4, <2>2, <2>3
<1>11. InputsStayGone
  <2> SUFFICES ASSUME NEW u \in DOMAIN tasks, tasks[u].input # None
               PROVE  /\ tasks[u].input \notin store'[tasks[u].leader]
                      /\ \A q \in tasks'[u].contributed : tasks[u].input \notin store'[q]
    BY DEF InputsStayGone
  <2>1. Consumes(tasks[u].kind) # "nothing" /\ InputGone(tasks[u], tasks[u].input)
        /\ InputFrom(tasks[u], tasks[u].input)
    BY DEF InputInv, InputOf
  <2>2. IsTask(tasks[u]) /\ tasks'[u].contributed = tasks[u].contributed
    BY <1>1, TaskFields DEF TypeInv
  <2>3. tasks[u].input \notin M
    BY <1>2, <2>1 DEF InputFrom, AllDone
  <2>4. \A q \in Node : tasks[u].input \in store'[q] => tasks[u].input \in store[q]
    BY <1>4, <2>3
  <2> QED BY <2>1, <2>2, <2>4 DEF InputGone, IsTask
<1>12. NewInput
  BY <1>1 DEF NewInput
<1> QED BY <1>1, <1>6, <1>7, <1>8, <1>9, <1>10, <1>11, <1>12, InputKeeps, IdsKeep

-----------------------------------------------------------------------------
(* Ids. *)

(* IdOf of a task after the step. *)
IdLater(u) ==
  Produces(u.kind) # "nothing" =>
    /\ u.id.owner = u.leader /\ u.id.timestamp \in 1..clock'
    /\ (u.leader \in up' /\ u.id.timestamp = clock') =>
         /\ last_id'[u.leader][Produces(u.kind)].timestamp = clock'
         /\ u.id.counter + Reserved(u.kind) - 1 <= last_id'[u.leader][Produces(u.kind)].counter

(* Node n reserves the ids of a task of kind k. *)
Reserves(n, k) ==
  /\ n \in up /\ Produces(k) # "nothing"
  /\ last_id' = Reserve(n, Produces(k), Start(n, Produces(k)), Reserved(k))
  /\ UNCHANGED <<clock, up>>

(* The first id that is reserved is past the last one that was. *)
LEMMA StartFacts ==
  ASSUME TypeInv, LastInv, NEW n \in Node, NEW a \in AssetKinds
  PROVE  /\ Start(n, a) \in IdT /\ Start(n, a).owner = n /\ Start(n, a).timestamp = clock
         /\ last_id[n][a].timestamp = clock => Start(n, a).counter = last_id[n][a].counter + 1
<1>1. last_id[n][a] \in IdT /\ clock \in Nat \ {0}
  BY DEF TypeInv
<1>2. CASE last_id[n][a] = None
  <2>1. Start(n, a) = [owner |-> n, timestamp |-> clock, counter |-> 0]
    BY <1>2 DEF Start
  <2>2. last_id[n][a].timestamp = 0
    BY <1>2, NoneIsId
  <2> QED BY <1>1, <2>1, <2>2 DEF IdT
<1>3. CASE last_id[n][a] # None
  <2>1. last_id[n][a].owner = n /\ last_id[n][a].timestamp \in 1..clock
    BY <1>3 DEF LastInv
  <2>2. Start(n, a) = PickNewAfter(last_id[n][a])
    BY <1>3 DEF Start
  <2>3. CASE clock > last_id[n][a].timestamp
    <3>1. Start(n, a) = [last_id[n][a] EXCEPT !.timestamp = clock, !.counter = 0]
      BY <2>2, <2>3 DEF PickNewAfter
    <3>2. Start(n, a) = [owner |-> n, timestamp |-> clock, counter |-> 0]
      BY <1>1, <2>1, <3>1 DEF IdT
    <3>3. last_id[n][a].timestamp # clock
      BY <1>1, <2>1, <2>3
    <3> QED BY <1>1, <3>2, <3>3 DEF IdT
  <2>4. CASE last_id[n][a].timestamp = clock
    <3>1. Start(n, a) = [last_id[n][a] EXCEPT !.counter = @ + 1]
      BY <1>1, <2>2, <2>4 DEF PickNewAfter
    <3> QED BY <1>1, <2>1, <2>4, <3>1 DEF IdT
  <2> QED BY <1>1, <2>1, <2>3, <2>4
<1> QED BY <1>2, <1>3

(* What is produced is an asset, unless it is nothing. *)
LEMMA ProducesAsset ==
  ASSUME NEW k, Produces(k) # "nothing"
  PROVE  Produces(k) \in AssetKinds
BY DEF Produces, AssetKinds

(* A reservation moves the last id to its end, of that asset only. *)
LEMMA ReservesFacts ==
  ASSUME TypeInv, LastInv, NEW n \in Node, NEW k, Reserves(n, k)
  PROVE  /\ last_id' \in [Node -> [AssetKinds -> IdT]] /\ LastInv'
         /\ last_id'[n][Produces(k)].timestamp = clock
         /\ last_id'[n][Produces(k)].counter
              = Start(n, Produces(k)).counter + Reserved(k) - 1
         /\ \A m \in Node, b \in AssetKinds :
              (m # n \/ b # Produces(k)) => last_id'[m][b] = last_id[m][b]
<1> DEFINE a == Produces(k)
           i == AddToCounter(Start(n, a), Reserved(k) - 1)
<1>0. clock' = clock /\ clock \in Nat \ {0} /\ last_id \in [Node -> [AssetKinds -> IdT]]
  BY DEF Reserves, TypeInv
<1>1. Reserved(k) \in Nat \ {0}
  BY AssetsAssumption DEF Reserved
<1>2. a \in AssetKinds
  BY ProducesAsset DEF Reserves
<1>3. /\ Start(n, a) \in IdT /\ Start(n, a).owner = n /\ Start(n, a).timestamp = clock
  BY <1>2, StartFacts
<1>4. /\ i \in IdT /\ i.owner = n /\ i.timestamp = clock
      /\ i.counter = Start(n, a).counter + Reserved(k) - 1
  BY <1>1, <1>3 DEF AddToCounter, IdT
<1>5. last_id' = [last_id EXCEPT ![n][a] = i]
  BY DEF Reserves, Reserve
<1> HIDE DEF a, i
<1>6. /\ last_id' \in [Node -> [AssetKinds -> IdT]] /\ last_id'[n][a] = i
      /\ \A m \in Node, b \in AssetKinds : (m # n \/ b # a) => last_id'[m][b] = last_id[m][b]
  BY <1>0, <1>2, <1>4, <1>5
<1>7. LastInv'
  BY <1>0, <1>4, <1>6 DEF LastInv
<1> QED BY <1>4, <1>6, <1>7 DEF a

(* The ids of older tasks stay below the last one, and the new ids are new. *)
LEMMA OldIds ==
  ASSUME TypeInv, LastInv, NEW n \in Node, NEW k, Reserves(n, k), NEW u \in TaskT, IdOf(u)
  PROVE  /\ IdLater(u)
         /\ Produces(u.kind) = Produces(k) =>
              Outputs(u.kind, u.id) \cap Outputs(k, Start(n, Produces(k))) = {}
<1> DEFINE a == Produces(k)
           new == Start(n, a)
           last == last_id[n][a]
<1>1. a \in AssetKinds /\ n \in up /\ clock' = clock /\ up' = up /\ clock \in Nat
  BY ProducesAsset DEF Reserves, TypeInv
<1>2. /\ new \in IdT /\ new.owner = n /\ new.timestamp = clock
      /\ last.timestamp = clock => new.counter = last.counter + 1
  BY <1>1, StartFacts
<1>3. /\ last_id'[n][a].timestamp = clock
      /\ last_id'[n][a].counter = new.counter + Reserved(k) - 1
      /\ \A m \in Node, b \in AssetKinds : (m # n \/ b # a) => last_id'[m][b] = last_id[m][b]
  BY ReservesFacts
<1>4. /\ Reserved(k) \in Nat \ {0} /\ Reserved(u.kind) \in Nat \ {0}
      /\ new.counter \in Nat /\ last.counter \in Nat
  <2>1. last \in IdT
    BY <1>1 DEF TypeInv
  <2> QED BY <1>2, <2>1, AssetsAssumption DEF Reserved, IdT
<1>5. u.leader \in Node /\ u.id \in IdT /\ u.id.counter \in Nat
  BY TaskFields DEF IsTask, IdT
<1> HIDE DEF a, new, last
<1>6. CASE Produces(u.kind) = a /\ u.leader = n /\ u.id.timestamp = clock
  <2>1. /\ last.timestamp = clock /\ u.id.counter + Reserved(u.kind) - 1 <= last.counter
        /\ u.id.owner = n
    BY <1>1, <1>6 DEF IdOf, last, AssetKinds
  <2>2. u.id.counter + Reserved(u.kind) - 1 < new.counter
    BY <1>2, <1>4, <1>5, <2>1
  <2>3. u.id.counter + Reserved(u.kind) - 1 <= last_id'[n][a].counter
    BY <1>3, <1>4, <1>5, <2>2
  <2>4. IdLater(u)
    BY <1>1, <1>3, <1>6, <2>1, <2>3 DEF IdLater, IdOf
  <2>5. ASSUME NEW j \in Outputs(u.kind, u.id), j \in Outputs(k, new) PROVE FALSE
    <3>1. j \in IdT /\ j.counter <= u.id.counter + Reserved(u.kind) - 1
      BY <1>5, OutputsFacts
    <3>2. new.counter <= j.counter
      BY <1>2, <2>5, OutputsFacts
    <3>3. j.counter \in Nat
      BY <3>1 DEF IdT
    <3> QED BY <1>4, <1>5, <2>2, <3>1, <3>2, <3>3
  <2> QED BY <2>4, <2>5 DEF a, new
<1>7. CASE Produces(u.kind) = a /\ ~(u.leader = n /\ u.id.timestamp = clock)
  <2>1. u.id.owner = u.leader
    BY <1>1, <1>7 DEF IdOf, AssetKinds
  <2>2. IdLater(u)
    BY <1>1, <1>3, <1>5, <1>7 DEF IdLater, IdOf
  <2>3. ASSUME NEW j \in Outputs(u.kind, u.id), j \in Outputs(k, new) PROVE FALSE
    <3>1. j.owner = u.id.owner /\ j.timestamp = u.id.timestamp
      BY <1>5, OutputsFacts
    <3>2. j.owner = new.owner /\ j.timestamp = new.timestamp
      BY <1>2, <2>3, OutputsFacts
    <3> QED BY <1>2, <1>7, <2>1, <3>1, <3>2
  <2> QED BY <2>2, <2>3 DEF a, new
<1>8. CASE Produces(u.kind) # a
  <2>1. IdLater(u)
    BY <1>1, <1>3, <1>5, <1>8, ProducesAsset DEF IdLater, IdOf
  <2> QED BY <1>8, <2>1 DEF a
<1> QED BY <1>6, <1>7, <1>8

-----------------------------------------------------------------------------
(* Steps that start a task. *)

(* A node takes a share of its own: everybody who made it has stored it. *)
LEMMA TakeOwnedFacts ==
  ASSUME Inv, NEW n \in Node, NEW s \in store[n], s.id.owner = n,
         store' = TakeOwned(n, s)
  PROVE  /\ Shrinks /\ s \notin store'[n] /\ s \in ShareT /\ n \in s.participants
         /\ s.task \in DOMAIN tasks /\ s \in Made(tasks[s.task], s.task)
         /\ tasks[s.task].leader = n /\ AllDone(tasks[s.task])
         /\ tasks[s.task].participants = s.participants
         /\ \A t \in DOMAIN tasks : tasks[t].input # s
<1> USE DEF Inv
<1>1. ShareAt(n, s)
  BY DEF ShareInv
<1>2. /\ s.id.owner = tasks[s.task].leader /\ s.participants = tasks[s.task].participants
      /\ Produces(tasks[s.task].kind) # "nothing" /\ s \in ShareT
  BY <1>1, OwnerLeads DEF ShareAt
<1>3. AllDone(tasks[s.task])
  BY <1>1, <1>2 DEF ShareAt, LeaderLast
<1>4. /\ store' \in [Node -> SUBSET ShareT] /\ store'[n] = store[n] \ {s}
      /\ \A m \in Node \ {n} : store'[m] = store[m]
  BY DEF TypeInv, TakeOwned
<1>5. Shrinks
  BY <1>1, <1>2, <1>4 DEF Shrinks, ShareAt
<1>6. ASSUME NEW t \in DOMAIN tasks, tasks[t].input = s PROVE FALSE
  <2>1. InputOf(tasks[t]) /\ s # None
    BY <1>2, ShareNotNone DEF InputInv
  <2>2. InputFrom(tasks[t], s) /\ InputGone(tasks[t], s)
    BY <1>6, <2>1 DEF InputOf
  <2> QED BY <1>2, <2>2 DEF InputFrom, InputGone
<1> QED BY <1>1, <1>2, <1>3, <1>4, <1>5, <1>6 DEF ShareAt

(* What is known of a task that starts. *)
StartStates == {"computing", "inspecting"}
IsNew(u, n, k, ps, i, inp) ==
  /\ u \in TaskT /\ u.kind = k /\ u.leader = n /\ u.participants = ps /\ u.id = i
  /\ u.input = inp /\ u.contributed \subseteq {n}
  /\ \A p \in ps : u.state[p] # "done"

(* The fields of a new task. *)
LEMMA NewTaskFacts ==
  ASSUME NEW k \in KindNames, NEW ps \in SUBSET Node, NEW n \in ps, NEW i \in IdT,
         NEW inp \in ShareT \cup {None}, NEW st \in StartStates
  PROVE  IsNew(NewTask(n, k, ps, i, inp, st), n, k, ps, i, inp)
<1> DEFINE c == IF st = "computing" THEN {n} ELSE {}
           f == [p \in ps |-> IF p = n THEN st ELSE "starting"]
           u == NewTask(n, k, ps, i, inp, st)
<1>1. /\ c \in SUBSET ps /\ c \subseteq {n} /\ f \in [ps -> States]
      /\ \A p \in ps : f[p] # "done"
  BY DEF States, StartStates
<1>2. u = [kind |-> k, leader |-> n, participants |-> ps, id |-> i, input |-> inp,
           contributed |-> c, state |-> f]
  BY DEF NewTask
<1> HIDE DEF c, f, u
<1>3. u \in TaskT
  BY <1>1, <1>2, TaskType
<1>4. /\ u.kind = k /\ u.leader = n /\ u.participants = ps /\ u.id = i
      /\ u.input = inp /\ u.contributed = c /\ u.state = f
  BY <1>2
<1>5. IsNew(u, n, k, ps, i, inp)
  BY <1>1, <1>3, <1>4 DEF IsNew
<1> QED BY <1>5 DEF u

(* The input of a task to start, and what taking it leaves in the store. *)
Gives(n, k, ps, inp) ==
  \/ Consumes(k) = "nothing" /\ inp = None /\ n \in ps /\ ps \subseteq Node /\ store' = store
  \/ /\ inp \in Usable(n, Consumes(k)) /\ ps = inp.participants /\ Consumes(k) # "nothing"
     /\ store' = TakeOwned(n, inp)

(* The id of a task to start. *)
Names(n, k, i) ==
  \/ Produces(k) = "nothing" /\ i = None /\ UNCHANGED <<last_id, clock, up>>
  \/ Reserves(n, k) /\ i = Start(n, Produces(k))

Appends(n, k, ps, i, inp, st) == tasks' = Append(tasks, NewTask(n, k, ps, i, inp, st))

(* A new task changes none of the others. *)
LEMMA AppendsFacts ==
  ASSUME TypeInv, NEW k \in KindNames, NEW ps \in SUBSET Node, NEW n \in ps, NEW i \in IdT,
         NEW inp \in ShareT \cup {None}, NEW st \in StartStates,
         Appends(n, k, ps, i, inp, st)
  PROVE  LET new == Len(tasks) + 1 IN
         /\ Evolves /\ NoneDone /\ DOMAIN tasks' = DOMAIN tasks \cup {new}
         /\ new \notin DOMAIN tasks /\ \A t \in DOMAIN tasks : tasks'[t] = tasks[t]
         /\ tasks'[new].kind = k /\ tasks'[new].leader = n /\ tasks'[new].participants = ps
         /\ tasks'[new].id = i /\ tasks'[new].input = inp
         /\ tasks'[new].contributed \subseteq {n}
<1> DEFINE u == NewTask(n, k, ps, i, inp, st)
           new == Len(tasks) + 1
<1>0. IsNew(u, n, k, ps, i, inp)
  BY NewTaskFacts
<1>2. tasks' = Append(tasks, u)
  BY DEF Appends
<1> HIDE DEF u
<1>1. /\ u \in TaskT /\ u.kind = k /\ u.leader = n /\ u.participants = ps /\ u.id = i
      /\ u.input = inp /\ u.contributed \subseteq {n} /\ \A p \in ps : u.state[p] # "done"
  BY <1>0 DEF IsNew
<1>3. tasks \in Seq(TaskT) /\ Len(tasks) \in Nat /\ DOMAIN tasks = 1..Len(tasks)
  BY DEF TypeInv
<1>4. /\ tasks' \in Seq(TaskT) /\ Len(tasks') = new /\ DOMAIN tasks' = 1..new
      /\ tasks'[new] = u /\ \A t \in 1..Len(tasks) : tasks'[t] = tasks[t]
  BY <1>1, <1>2, <1>3
<1>5. DOMAIN tasks' = DOMAIN tasks \cup {new} /\ new \notin DOMAIN tasks
      /\ \A t \in DOMAIN tasks : tasks'[t] = tasks[t]
  BY <1>3, <1>4
<1> HIDE DEF new
<1>6. Evolves
  BY <1>4, <1>5 DEF Evolves, SameTask
<1>7. NoneDone
  BY <1>1, <1>4, <1>5 DEF NoneDone
<1> QED BY <1>1, <1>4, <1>5, <1>6, <1>7 DEF new

(* A step adds at most one task, of kind k and with first id i, led by n. *)
OnlyAdds(n, k, i) ==
  \A t \in DOMAIN tasks' :
    \/ t \in DOMAIN tasks /\ tasks'[t] = tasks[t]
    \/ t = Len(tasks) + 1 /\ tasks'[t].kind = k /\ tasks'[t].leader = n /\ tasks'[t].id = i

(* An id that was just reserved, or none, is nobody else's. *)
LEMMA OpeningIds ==
  ASSUME Inv, NEW n \in Node, NEW k, NEW i, Names(n, k, i), OnlyAdds(n, k, i)
  PROVE  /\ last_id' \in [Node -> [AssetKinds -> IdT]] /\ i \in IdT
         /\ LastInv' /\ IdInv' /\ IdsFresh' /\ UNCHANGED <<clock, up>>
<1> USE DEF Inv
<1>1. CASE Produces(k) = "nothing" /\ i = None /\ UNCHANGED <<last_id, clock, up>>
  <2>1. LastInv' /\ i \in IdT /\ last_id' \in [Node -> [AssetKinds -> IdT]]
    BY <1>1, NoneIsId DEF LastInv, TypeInv
  <2>2. ASSUME NEW t \in DOMAIN tasks' PROVE IdLater(tasks'[t])
    BY <1>1 DEF OnlyAdds, IdInv, IdOf, IdLater
  <2>3. IdInv'
    BY <2>2 DEF IdInv, IdOf, IdLater
  <2>4. IdsFresh'
    <3> SUFFICES ASSUME NEW t \in DOMAIN tasks', NEW u \in DOMAIN tasks', t # u,
                        Produces(tasks'[t].kind) = Produces(tasks'[u].kind)
                 PROVE  Outputs(tasks'[t].kind, tasks'[t].id)
                          \cap Outputs(tasks'[u].kind, tasks'[u].id) = {}
      BY DEF IdsFresh
    <3>1. CASE Produces(tasks'[t].kind) = "nothing"
      BY <3>1 DEF Outputs
    <3>2. CASE Produces(tasks'[t].kind) # "nothing"
      <4>1. /\ t \in DOMAIN tasks /\ tasks'[t] = tasks[t]
            /\ u \in DOMAIN tasks /\ tasks'[u] = tasks[u]
        BY <1>1, <3>2 DEF OnlyAdds
      <4> QED BY <4>1 DEF IdsFresh
    <3> QED BY <3>1, <3>2
  <2> QED BY <1>1, <2>1, <2>3, <2>4
<1>2. CASE Reserves(n, k) /\ i = Start(n, Produces(k))
  <2>1. /\ last_id' \in [Node -> [AssetKinds -> IdT]] /\ LastInv'
        /\ last_id'[n][Produces(k)].timestamp = clock
        /\ last_id'[n][Produces(k)].counter = i.counter + Reserved(k) - 1
    BY <1>2, ReservesFacts
  <2>2. /\ Produces(k) # "nothing" /\ clock' = clock /\ up' = up /\ Produces(k) \in AssetKinds
        /\ clock \in Nat \ {0}
    BY <1>2, ProducesAsset DEF Reserves, TypeInv
  <2>3. i \in IdT /\ i.owner = n /\ i.timestamp = clock
    BY <1>2, <2>2, StartFacts
  <2>4. ASSUME NEW t \in DOMAIN tasks
        PROVE  /\ IdLater(tasks[t])
               /\ Produces(tasks[t].kind) = Produces(k) =>
                    Outputs(tasks[t].kind, tasks[t].id) \cap Outputs(k, i) = {}
    <3>1. tasks[t] \in TaskT /\ IdOf(tasks[t])
      BY DEF TypeInv, IdInv
    <3> QED BY <1>2, <3>1, OldIds
  <2>5. ASSUME NEW t \in DOMAIN tasks' PROVE IdLater(tasks'[t])
    <3>1. CASE t \in DOMAIN tasks /\ tasks'[t] = tasks[t]
      BY <2>4, <3>1
    <3>2. CASE tasks'[t].kind = k /\ tasks'[t].leader = n /\ tasks'[t].id = i
      <4>1. i.counter \in Nat /\ Reserved(k) \in Nat
        BY <2>3, AssetsAssumption DEF IdT, Reserved
      <4>2. clock \in 1..clock
        BY <2>2
      <4>3. i.counter + Reserved(k) - 1 <= last_id'[n][Produces(k)].counter
        BY <2>1, <4>1
      <4> QED BY <2>1, <2>2, <2>3, <3>2, <4>2, <4>3 DEF IdLater
    <3> QED BY <3>1, <3>2 DEF OnlyAdds
  <2>6. IdInv'
    BY <2>5 DEF IdInv, IdOf, IdLater
  <2>7. IdsFresh'
    <3> SUFFICES ASSUME NEW t \in DOMAIN tasks', NEW u \in DOMAIN tasks', t # u,
                        Produces(tasks'[t].kind) = Produces(tasks'[u].kind)
                 PROVE  Outputs(tasks'[t].kind, tasks'[t].id)
                          \cap Outputs(tasks'[u].kind, tasks'[u].id) = {}
      BY DEF IdsFresh
    <3>1. CASE t \in DOMAIN tasks /\ tasks'[t] = tasks[t] /\ u \in DOMAIN tasks /\ tasks'[u] = tasks[u]
      BY <3>1 DEF IdsFresh
    <3>2. CASE t \in DOMAIN tasks /\ tasks'[t] = tasks[t] /\ u = Len(tasks) + 1
               /\ tasks'[u].kind = k /\ tasks'[u].id = i
      BY <2>4, <3>2
    <3>3. CASE u \in DOMAIN tasks /\ tasks'[u] = tasks[u] /\ t = Len(tasks) + 1
               /\ tasks'[t].kind = k /\ tasks'[t].id = i
      BY <2>4, <3>3
    <3> QED BY <3>1, <3>2, <3>3 DEF OnlyAdds
  <2> QED BY <2>1, <2>2, <2>3, <2>6, <2>7
<1> QED BY <1>1, <1>2 DEF Names

(* A node takes the input, reserves the ids, and opens a channel or fails to. *)
LEMMA Opening ==
  ASSUME Inv, NEW n \in Node, NEW k \in KindNames, NEW ps, NEW i, NEW inp,
         NEW st \in StartStates,
         Names(n, k, i), Gives(n, k, ps, inp),
         Appends(n, k, ps, i, inp, st) \/ UNCHANGED tasks
  PROVE  Inv'
<1> USE DEF Inv
<1>1. /\ n \in ps /\ ps \in SUBSET Node /\ inp \in ShareT \cup {None} /\ Shrinks
      /\ Consumes(k) = "nothing" => inp = None
      /\ Consumes(k) # "nothing" =>
           /\ inp \in ShareT /\ inp # None /\ inp.asset = Consumes(k) /\ inp.participants = ps
           /\ inp.task \in DOMAIN tasks /\ inp \in Made(tasks[inp.task], inp.task)
           /\ tasks[inp.task].leader = n /\ AllDone(tasks[inp.task])
           /\ inp \notin store'[n] /\ \A t \in DOMAIN tasks : tasks[t].input # inp
  <2>1. CASE Consumes(k) = "nothing" /\ inp = None /\ n \in ps /\ ps \subseteq Node /\ store' = store
    <3>1. Shrinks
      BY <2>1 DEF Shrinks, TypeInv
    <3> QED BY <2>1, <3>1
  <2>2. CASE /\ inp \in Usable(n, Consumes(k)) /\ ps = inp.participants
             /\ Consumes(k) # "nothing" /\ store' = TakeOwned(n, inp)
    <3>1. inp \in store[n] /\ inp.id.owner = n /\ inp.asset = Consumes(k)
      BY <2>2 DEF Usable, Owned
    <3>3. /\ Shrinks /\ inp \notin store'[n] /\ inp \in ShareT /\ n \in inp.participants
          /\ inp.task \in DOMAIN tasks /\ inp \in Made(tasks[inp.task], inp.task)
          /\ tasks[inp.task].leader = n /\ AllDone(tasks[inp.task])
          /\ \A t \in DOMAIN tasks : tasks[t].input # inp
      BY <2>2, <3>1, TakeOwnedFacts
    <3>4. inp # None /\ inp.participants \in SUBSET Node
      BY <3>3, ShareNotNone DEF ShareT
    <3> QED BY <2>2, <3>1, <3>3, <3>4
  <2> QED BY <2>1, <2>2 DEF Gives
<1>2. \A m \in Node : store'[m] \subseteq store[m]
  BY <1>1 DEF Shrinks
<1>3. ASSUME NEW t \in DOMAIN tasks, tasks[t].input # None
      PROVE  /\ tasks[t].input \notin store'[tasks[t].leader]
             /\ \A p \in tasks[t].contributed : tasks[t].input \notin store'[p]
  <2>1. InputGone(tasks[t], tasks[t].input)
    BY <1>3 DEF InputInv, InputOf
  <2>2. IsTask(tasks[t])
    BY TaskFields DEF TypeInv
  <2> QED BY <1>2, <2>1, <2>2 DEF InputGone, IsTask
<1>4. CASE UNCHANGED tasks
  <2>1. Evolves /\ NoneDone /\ OnlyAdds(n, k, i)
    BY <1>4 DEF Evolves, NoneDone, OnlyAdds, SameTask, TypeInv
  <2>2. InputsStayGone /\ NewInput
    BY <1>3, <1>4 DEF InputsStayGone, NewInput
  <2>3. /\ last_id' \in [Node -> [AssetKinds -> IdT]]
        /\ LastInv' /\ IdInv' /\ IdsFresh' /\ UNCHANGED <<clock, up>>
    BY <2>1, OpeningIds
  <2>4. TypeInv'
    BY <1>1, <2>1, <2>3 DEF TypeInv, Evolves, Shrinks
  <2> QED BY <1>1, <2>1, <2>2, <2>3, <2>4, ShrinkKeeps, InputKeeps
<1>5. CASE Appends(n, k, ps, i, inp, st)
  <2>0. i \in IdT
    <3>1. CASE i = None
      BY <3>1, NoneIsId
    <3>2. CASE Reserves(n, k) /\ i = Start(n, Produces(k))
      BY <3>2, ProducesAsset, StartFacts DEF Reserves
    <3> QED BY <3>1, <3>2 DEF Names
  <2>1. PICK new :
        /\ new = Len(tasks) + 1
        /\ Evolves /\ NoneDone /\ DOMAIN tasks' = DOMAIN tasks \cup {new}
        /\ new \notin DOMAIN tasks /\ \A t \in DOMAIN tasks : tasks'[t] = tasks[t]
        /\ tasks'[new].kind = k /\ tasks'[new].leader = n /\ tasks'[new].participants = ps
        /\ tasks'[new].id = i /\ tasks'[new].input = inp
        /\ tasks'[new].contributed \subseteq {n}
    BY <1>1, <1>5, <2>0, AppendsFacts
  <2>2. OnlyAdds(n, k, i)
    BY <2>1 DEF OnlyAdds
  <2>3. /\ last_id' \in [Node -> [AssetKinds -> IdT]]
        /\ LastInv' /\ IdInv' /\ IdsFresh' /\ UNCHANGED <<clock, up>>
    BY <2>2, OpeningIds
  <2>4. TypeInv'
    BY <1>1, <2>1, <2>3 DEF TypeInv, Evolves, Shrinks
  <2>5. InputsStayGone
    BY <1>3, <2>1 DEF InputsStayGone
  <2>6. InputOf(tasks[new])'
    <3>1. CASE Consumes(k) = "nothing"
      BY <1>1, <2>1, <3>1 DEF InputOf
    <3>2. CASE Consumes(k) # "nothing"
      <4>1. tasks'[inp.task] = tasks[inp.task] /\ inp.task \in DOMAIN tasks'
        BY <1>1, <2>1, <3>2
      <4> QED BY <1>1, <2>1, <3>2, <4>1 DEF InputOf, InputFrom, InputGone, AllDone
    <3> QED BY <3>1, <3>2
  <2>7. NewInput
    BY <1>1, <2>1, <2>6 DEF NewInput
  <2> QED BY <1>1, <2>1, <2>3, <2>4, <2>5, <2>7, ShrinkKeeps, InputKeeps
<1> QED BY <1>4, <1>5

-----------------------------------------------------------------------------
(* The other steps. *)

(* The invariant holds at the start. *)
LEMMA InitInv == Init => Inv
<1> SUFFICES ASSUME Init PROVE Inv
  OBVIOUS
<1>0. None \in IdT
  BY NoneIsId
<1>1. tasks = <<>> /\ tasks \in Seq(TaskT) /\ DOMAIN tasks = {}
  BY DEF Init
<1>2. \A n \in Node : store[n] = {}
  BY DEF Init
<1>3. TypeInv /\ LastInv
  BY <1>0, <1>1 DEF TypeInv, LastInv, Init
<1>4. IdInv /\ IdsFresh /\ LeaderLast /\ FollowersKeep /\ InputInv /\ InputsDiffer
  BY <1>1 DEF IdInv, IdsFresh, LeaderLast, FollowersKeep, InputInv, InputsDiffer
<1>5. ShareInv /\ OwnedBacked
  BY <1>2 DEF ShareInv, OwnedBacked, Owned
<1> QED BY <1>3, <1>4, <1>5 DEF Inv

(* A share is discarded. *)
LEMMA DiscardKeeps ==
  ASSUME Inv, NEW n \in Node, NEW a \in AssetKinds, NEW s \in store[n], Discard(n, a, s)
  PROVE  Inv'
<1> USE DEF Inv
<1>1. store' = TakeOwned(n, s) /\ s.id.owner = n /\ UNCHANGED <<last_id, clock, tasks, up>>
  BY DEF Discard, TakeOwned, Owned
<1>2. Shrinks
  BY <1>1, TakeOwnedFacts
<1>3. Evolves /\ NoneDone /\ NewInput /\ DOMAIN tasks' = DOMAIN tasks
  BY <1>1 DEF Evolves, NoneDone, NewInput, SameTask, TypeInv
<1>4. InputsStayGone
  <2> SUFFICES ASSUME NEW t \in DOMAIN tasks, tasks[t].input # None
               PROVE  /\ tasks[t].input \notin store'[tasks[t].leader]
                      /\ \A p \in tasks'[t].contributed : tasks[t].input \notin store'[p]
    BY DEF InputsStayGone
  <2>1. InputGone(tasks[t], tasks[t].input)
    BY DEF InputInv, InputOf
  <2>2. IsTask(tasks[t])
    BY TaskFields DEF TypeInv
  <2> QED BY <1>1, <1>2, <2>1, <2>2 DEF InputGone, IsTask, Shrinks
<1>5. TypeInv'
  BY <1>1, <1>2 DEF TypeInv, Shrinks
<1> QED BY <1>1, <1>2, <1>3, <1>4, <1>5, ShrinkKeeps, InputKeeps, IdsKeep

(* Steps that leave the stores alone and start nothing keep what the stores and inputs need. *)
LEMMA StillKeeps ==
  ASSUME Inv, Evolves, NoneDone, DOMAIN tasks' = DOMAIN tasks, store' = store,
         \A t \in DOMAIN tasks : tasks'[t].contributed = tasks[t].contributed
  PROVE  ShareInv' /\ LeaderLast' /\ FollowersKeep' /\ OwnedBacked'
         /\ InputInv' /\ InputsDiffer' /\ IdsFresh'
<1> USE DEF Inv
<1>1. Shrinks
  BY DEF Shrinks, TypeInv
<1>2. InputsStayGone
  <2> SUFFICES ASSUME NEW t \in DOMAIN tasks, tasks[t].input # None
               PROVE  /\ tasks[t].input \notin store'[tasks[t].leader]
                      /\ \A p \in tasks'[t].contributed : tasks[t].input \notin store'[p]
    BY DEF InputsStayGone
  <2>1. InputGone(tasks[t], tasks[t].input)
    BY DEF InputInv, InputOf
  <2> QED BY <2>1 DEF InputGone
<1>3. NewInput
  BY DEF NewInput
<1>4. IdsFresh'
  BY DEF IdsFresh, Evolves, SameTask
<1> QED BY <1>1, <1>2, <1>3, <1>4, ShrinkKeeps, InputKeeps

(* A node stops. *)
LEMMA CrashKeeps ==
  ASSUME Inv, NEW n \in Node, Crash(n)
  PROVE  Inv'
<1> USE DEF Inv
<1>0. /\ tasks \in Seq(TaskT) /\ Len(tasks) \in Nat /\ DOMAIN tasks = 1..Len(tasks)
      /\ up' = up \ {n} /\ store' = store /\ clock' = clock
      /\ last_id' = [last_id EXCEPT ![n] = [a \in AssetKinds |-> None]]
  BY DEF TypeInv, Crash
<1> DEFINE Failing(t) ==
             IF n \in tasks[t].participants /\ tasks[t].state[n] # "done"
             THEN [tasks[t] EXCEPT !.state[n] = "failed"] ELSE tasks[t]
<1>1. ASSUME NEW t \in DOMAIN tasks
      PROVE  /\ Failing(t) \in TaskT /\ SameTask(tasks[t], Failing(t))
             /\ Failing(t).contributed = tasks[t].contributed
             /\ \A p \in tasks[t].participants :
                  (Failing(t).state[p] = "done" <=> tasks[t].state[p] = "done")
  <2>0. tasks[t] \in TaskT /\ IsTask(tasks[t])
    BY <1>0, TaskFields
  <2>1. CASE n \in tasks[t].participants /\ tasks[t].state[n] # "done"
    <3> DEFINE v == Moved(tasks[t], n, "failed", tasks[t].contributed)
    <3>1. Failing(t) = v
      BY <2>0, <2>1, TaskFields DEF Moved
    <3>2. "failed" \in States /\ tasks[t].contributed \in SUBSET tasks[t].participants
      BY <2>0 DEF States, IsTask
    <3>3. v \in TaskT
      BY <2>0, <2>1, <3>2, MovedType
    <3>4. /\ SameTask(tasks[t], v) /\ v.contributed = tasks[t].contributed
          /\ v.state = [tasks[t].state EXCEPT ![n] = "failed"]
      BY DEF Moved, SameTask
    <3> HIDE DEF v, Failing
    <3>5. \A p \in tasks[t].participants : (v.state[p] = "done" <=> tasks[t].state[p] = "done")
      BY <2>0, <2>1, <3>4 DEF IsTask
    <3> QED BY <3>1, <3>3, <3>4, <3>5
  <2>2. CASE ~(n \in tasks[t].participants /\ tasks[t].state[n] # "done")
    BY <2>0, <2>2 DEF SameTask
  <2> QED BY <2>1, <2>2
<1>2. tasks' = [t \in DOMAIN tasks |-> Failing(t)]
  BY DEF Crash
<1> HIDE DEF Failing
<1>3. tasks' \in Seq(TaskT) /\ DOMAIN tasks' = DOMAIN tasks
      /\ \A t \in DOMAIN tasks : tasks'[t] = Failing(t)
  BY <1>0, <1>1, <1>2
<1>4. Evolves /\ NoneDone
  BY <1>1, <1>3 DEF Evolves, NoneDone, SameTask
<1>5. \A t \in DOMAIN tasks : tasks'[t].contributed = tasks[t].contributed
  BY <1>1, <1>3
<1>6. TypeInv'
  BY <1>0, <1>3, NoneIsId DEF TypeInv
<1>7. LastInv'
  BY <1>0 DEF LastInv, TypeInv
<1>8. IdInv'
  <2> SUFFICES ASSUME NEW t \in DOMAIN tasks' PROVE IdLater(tasks'[t])
    BY DEF IdInv, IdOf, IdLater
  <2>1. IdOf(tasks[t]) /\ SameTask(tasks[t], tasks'[t]) /\ IsTask(tasks[t])
    BY <1>3, <1>4, TaskFields DEF IdInv, Evolves, TypeInv
  <2>2. \A m \in Node \ {n} : last_id'[m] = last_id[m]
    BY <1>0 DEF TypeInv
  <2> QED BY <1>0, <2>1, <2>2 DEF IdOf, IdLater, SameTask, IsTask
<1> QED BY <1>0, <1>3, <1>4, <1>5, <1>6, <1>7, <1>8, StillKeeps

(* A node starts again. *)
LEMMA RestartKeeps ==
  ASSUME Inv, NEW n \in Node, Restart(n)
  PROVE  Inv'
<1> USE DEF Inv
<1>0. /\ up' = up \cup {n} /\ clock' = clock + 1 /\ store' = store /\ tasks' = tasks
      /\ clock \in Nat \ {0}
  BY DEF Restart, TypeInv
<1>1. PICK ids \in [AssetKinds -> {None} \cup {s.id : s \in store[n]}] :
        /\ \A a \in AssetKinds : IsHighest(n, a, ids[a])
        /\ last_id' = [last_id EXCEPT ![n] = ids]
  BY DEF Restart
<1>2. ASSUME NEW a \in AssetKinds
      PROVE  /\ ids[a] \in IdT
             /\ ids[a] = None \/ (ids[a].owner = n /\ ids[a].timestamp \in 1..clock)
  <2>1. CASE Owned(n, a) = {}
    BY <1>1, <2>1, NoneIsId DEF IsHighest
  <2>2. CASE Owned(n, a) # {}
    <3>1. PICK s \in Owned(n, a) : ids[a] = s.id
      BY <1>1, <2>2 DEF IsHighest
    <3>2. s \in store[n] /\ s.id.owner = n /\ ShareAt(n, s)
      BY <3>1 DEF Owned, ShareInv
    <3>3. s.id.timestamp \in 1..clock /\ s \in ShareT
      BY <3>2, OwnerLeads DEF ShareAt
    <3> QED BY <3>1, <3>2, <3>3 DEF ShareT
  <2> QED BY <2>1, <2>2
<1>3. ids \in [AssetKinds -> IdT]
  BY <1>1, <1>2
<1>4. /\ last_id' \in [Node -> [AssetKinds -> IdT]] /\ last_id'[n] = ids
      /\ \A m \in Node \ {n} : last_id'[m] = last_id[m]
  BY <1>1, <1>3 DEF TypeInv
<1>5. TypeInv'
  BY <1>0, <1>4 DEF TypeInv
<1>6. LastInv'
  <2> SUFFICES ASSUME NEW m \in Node, NEW a \in AssetKinds
               PROVE  \/ last_id'[m][a] = None
                      \/ last_id'[m][a].owner = m /\ last_id'[m][a].timestamp \in 1..clock'
    BY DEF LastInv
  <2>1. 1..clock \subseteq 1..clock'
    BY <1>0
  <2>2. CASE m = n
    BY <1>2, <1>4, <2>1, <2>2
  <2>3. CASE m # n
    BY <1>4, <2>1, <2>3 DEF LastInv
  <2> QED BY <2>2, <2>3
<1>7. IdInv'
  <2> SUFFICES ASSUME NEW t \in DOMAIN tasks PROVE IdLater(tasks[t])
    BY <1>0 DEF IdInv, IdOf, IdLater
  <2>1. IdOf(tasks[t])
    BY DEF IdInv
  <2>2. \A x \in 1..clock : x \in 1..clock' /\ x # clock'
    BY <1>0
  <2> QED BY <2>1, <2>2 DEF IdOf, IdLater
<1>8. Evolves /\ NoneDone
  BY <1>0 DEF Evolves, NoneDone, SameTask, TypeInv
<1> QED BY <1>0, <1>5, <1>6, <1>7, <1>8, StillKeeps

-----------------------------------------------------------------------------
(* The actions. *)

(* A background task is started. *)
LEMMA BackgroundKeeps ==
  ASSUME Inv, NEW n \in Node, Background(n)
  PROVE  Inv'
<1> USE DEF Inv
<1>0. "computing" \in StartStates
  BY DEF StartStates
<1>1. ASSUME NEW ps \in SUBSET Node, RunBackgroundTripleGeneration(n, ps) PROVE Inv'
  <2> DEFINE i == Start(n, "triple")
  <2>1. Produces("triples") = "triple" /\ Consumes("triples") = "nothing" /\ "triples" \in KindNames
        /\ Reserved("triples") = BatchSize
    BY DEF Produces, Consumes, KindNames, Reserved
  <2>2. Names(n, "triples", i)
    BY <1>1, <2>1 DEF RunBackgroundTripleGeneration, MayStart, Names, Reserves
  <2>3. Gives(n, "triples", ps, None)
    BY <1>1, <2>1 DEF RunBackgroundTripleGeneration, Selected, Gives
  <2>4. Appends(n, "triples", ps, i, None, "computing") \/ UNCHANGED tasks
    BY <1>1 DEF RunBackgroundTripleGeneration, Opens, Unreachable, Appends
  <2> HIDE DEF i
  <2> QED BY <1>0, <2>1, <2>2, <2>3, <2>4, Opening
<1>2. ASSUME NEW s \in store[n], RunBackgroundPresignatureGeneration(n, s) PROVE Inv'
  <2> DEFINE i == Start(n, "presignature")
  <2>1. Produces("presign") = "presignature" /\ Consumes("presign") = "triple"
        /\ "presign" \in KindNames /\ Reserved("presign") = 1
    BY DEF Produces, Consumes, KindNames, Reserved
  <2>2. Names(n, "presign", i)
    BY <1>2, <2>1 DEF RunBackgroundPresignatureGeneration, MayStart, Names, Reserves
  <2>3. Gives(n, "presign", s.participants, s)
    BY <1>2, <2>1 DEF RunBackgroundPresignatureGeneration, Gives
  <2>4. Appends(n, "presign", s.participants, i, s, "computing") \/ UNCHANGED tasks
    BY <1>2 DEF RunBackgroundPresignatureGeneration, Opens, Unreachable, Appends
  <2> HIDE DEF i
  <2> QED BY <1>0, <2>1, <2>2, <2>3, <2>4, Opening
<1>3. ASSUME NEW ps \in SUBSET Node, RobustRunBackgroundPresignatureGeneration(n, ps) PROVE Inv'
  <2> DEFINE i == Start(n, "presignature")
  <2>1. Produces("robust_presign") = "presignature" /\ Consumes("robust_presign") = "nothing"
        /\ "robust_presign" \in KindNames /\ Reserved("robust_presign") = 1
    BY DEF Produces, Consumes, KindNames, Reserved
  <2>2. Names(n, "robust_presign", i)
    BY <1>3, <2>1 DEF RobustRunBackgroundPresignatureGeneration, MayStart, Names, Reserves
  <2>3. Gives(n, "robust_presign", ps, None)
    BY <1>3, <2>1 DEF RobustRunBackgroundPresignatureGeneration, Selected, Gives
  <2>4. Appends(n, "robust_presign", ps, i, None, "computing") \/ UNCHANGED tasks
    BY <1>3 DEF RobustRunBackgroundPresignatureGeneration, Opens, Unreachable, Appends
  <2> HIDE DEF i
  <2> QED BY <1>0, <2>1, <2>2, <2>3, <2>4, Opening
<1> QED BY <1>1, <1>2, <1>3 DEF Background, EcdsaSpawnBackgroundTasks, RobustSpawnBackgroundTasks

(* A request is started. *)
LEMMA RequestKeeps ==
  ASSUME Inv, NEW n \in Node, Request(n)
  PROVE  Inv'
<1> USE DEF Inv
<1>1. ASSUME NEW s \in store[n], NEW k \in {"sign", "robust_sign", "verify_foreign_tx"},
             NEW st \in StartStates, SignWith(n, k, s, st)
      PROVE  Inv'
  <2>1. Produces(k) = "nothing" /\ Consumes(k) = "presignature" /\ k \in KindNames
    BY DEF Produces, Consumes, KindNames
  <2>2. Names(n, k, None)
    BY <1>1, <2>1 DEF SignWith, Names
  <2>3. Gives(n, k, s.participants, s)
    BY <1>1, <2>1 DEF SignWith, Gives
  <2>4. Appends(n, k, s.participants, None, s, st) \/ UNCHANGED tasks
    BY <1>1 DEF SignWith, Opens, Unreachable, Appends
  <2> QED BY <2>1, <2>2, <2>3, <2>4, Opening
<1>2. ASSUME NEW ps \in SUBSET Node, NEW k \in {"eddsa", "ckd"}, SignWithout(n, k, ps)
      PROVE  Inv'
  <2>0. "computing" \in StartStates
    BY DEF StartStates
  <2>1. Produces(k) = "nothing" /\ Consumes(k) = "nothing" /\ k \in KindNames
    BY DEF Produces, Consumes, KindNames
  <2>2. Names(n, k, None)
    BY <1>2, <2>1 DEF SignWithout, Names
  <2>3. Gives(n, k, ps, None)
    BY <1>2, <2>1 DEF SignWithout, Selected, Gives
  <2>4. Appends(n, k, ps, None, None, "computing") \/ UNCHANGED tasks
    BY <1>2 DEF SignWithout, Opens, Unreachable, Appends
  <2> QED BY <2>0, <2>1, <2>2, <2>3, <2>4, Opening
<1>3. "computing" \in StartStates /\ "inspecting" \in StartStates
  BY DEF StartStates
<1>4. ASSUME NEW s \in store[n], \/ MakeSignatureLeader(n, s) \/ RobustMakeSignatureLeader(n, s)
                                \/ MakeVerifyForeignTxLeader(n, s)
      PROVE  Inv'
  <2>1. PICK k \in {"sign", "robust_sign", "verify_foreign_tx"} :
          SignWith(n, k, s, "computing") \/ SignWith(n, k, s, "inspecting")
    BY <1>4 DEF MakeSignatureLeader, RobustMakeSignatureLeader, MakeVerifyForeignTxLeader
  <2> QED BY <1>1, <1>3, <2>1
<1>5. ASSUME NEW ps \in SUBSET Node, EddsaMakeSignatureLeader(n, ps) \/ MakeCkdLeader(n, ps)
      PROVE  Inv'
  BY <1>2, <1>5 DEF EddsaMakeSignatureLeader, MakeCkdLeader
<1> QED BY <1>4, <1>5 DEF Request

(* A follower begins; it takes its share of the input if the task has one. *)
LEMMA BeginsKeeps ==
  ASSUME Inv, NEW t \in DOMAIN tasks, NEW p \in tasks[t].participants, ProcessChannelTask(t, p)
  PROVE  Inv'
<1> USE DEF Inv
<1>0. /\ "computing" \in States \ {"done"} /\ "failed" \in States \ {"done"}
      /\ tasks[t].contributed \in SUBSET tasks[t].participants
      /\ tasks[t].contributed \cup {p} \in SUBSET tasks[t].participants
  BY TaskFields DEF States, TypeInv, IsTask
<1>1. ASSUME NEW k \in {"triples", "robust_presign", "eddsa", "ckd"},
             Begins(t, p, k), Computes(t, p), UNCHANGED store
      PROVE  Inv'
  <2>1. tasks[t].kind = k /\ Consumes(k) = "nothing" /\ tasks[t].state[p] # "done"
    BY <1>1 DEF Begins, Consumes
  <2>2. Moves(t, p, "computing", tasks[t].contributed \cup {p})
    BY <1>1, ComputesMoves DEF Moves
  <2>3. UNCHANGED <<store, last_id, clock, up>>
    BY <1>1 DEF Begins
  <2> QED BY <1>0, <2>1, <2>2, <2>3, QuietMove
<1>2. ASSUME NEW k \in {"presign", "sign", "robust_sign", "verify_foreign_tx"},
             Begins(t, p, k), TakeUnowned(t, p)
      PROVE  Inv'
  <2>1. tasks[t].kind = k /\ Consumes(k) # "nothing" /\ tasks[t].state[p] # "done"
        /\ UNCHANGED <<last_id, clock, up>>
    BY <1>2 DEF Begins, Consumes
  <2>2. CASE /\ Computes(t, p)
             /\ store' = [store EXCEPT ![p] = @ \ {s \in store[p] :
                            s.asset = Consumes(tasks[t].kind) /\ s.id = tasks[t].input.id}]
    <3>1. Moves(t, p, "computing", tasks[t].contributed \cup {p})
      BY <2>2, ComputesMoves DEF Moves
    <3> QED BY <2>1, <2>2, <3>1, TakeMove
  <2>3. CASE tasks' = WithState(t, p, "failed") /\ UNCHANGED store
    <3>1. Moves(t, p, "failed", tasks[t].contributed)
      BY <2>3, WithStateMoves DEF Moves
    <3>2. UNCHANGED <<store, last_id, clock, up>>
      BY <2>1, <2>3
    <3> QED BY <1>0, <2>1, <3>1, <3>2, QuietMove
  <2> QED BY <1>2, <2>2, <2>3 DEF TakeUnowned
<1>3. \/ \E k \in {"triples", "robust_presign", "eddsa", "ckd"} :
           Begins(t, p, k) /\ Computes(t, p) /\ UNCHANGED store
      \/ \E k \in {"presign", "sign", "robust_sign", "verify_foreign_tx"} :
           Begins(t, p, k) /\ TakeUnowned(t, p)
  BY DEF ProcessChannelTask, EcdsaProcessChannel, RobustProcessChannel,
         EddsaProcessChannel, CkdProcessChannel, VerifyForeignTxProcessChannel,
         RunTripleGenerationFollower, RunPresignatureGenerationFollower,
         RobustRunPresignatureGenerationFollower, MakeSignatureFollower,
         RobustMakeSignatureFollower, EddsaMakeSignatureFollower, MakeCkdFollower,
         MakeVerifyForeignTxFollower
<1> QED BY <1>1, <1>2, <1>3

(* A participant fails or gives up. *)
LEMMA FailureKeeps ==
  ASSUME Inv, NEW t \in DOMAIN tasks, NEW p \in tasks[t].participants,
         ParticipantFails(t, p) \/ GivesUp(t, p)
  PROVE  Inv'
<1> USE DEF Inv
<1>1. "failed" \in States \ {"done"} /\ tasks[t].contributed \in SUBSET tasks[t].participants
  BY TaskFields DEF States, TypeInv, IsTask
<1>2. /\ tasks[t].state[p] # "done" /\ tasks' = WithState(t, p, "failed")
      /\ UNCHANGED <<store, last_id, clock, up>>
  BY DEF ParticipantFails, GivesUp
<1>3. Moves(t, p, "failed", tasks[t].contributed)
  BY <1>2, WithStateMoves DEF Moves
<1> QED BY <1>1, <1>2, <1>3, QuietMove

(* To join is to move with a contribution. *)
LEMMA JoinsMoved ==
  ASSUME NEW u \in TaskT, NEW q \in u.participants, NEW s
  PROVE  [u EXCEPT !.state[q] = s, !.contributed = @ \cup {q}]
           = Moved(u, q, s, u.contributed \cup {q})
<1> DEFINE v == [u EXCEPT !.state[q] = s]
<1>1. v = Moved(u, q, s, u.contributed)
  BY TaskFields DEF Moved
<1>2. [u EXCEPT !.state[q] = s, !.contributed = @ \cup {q}]
        = [v EXCEPT !.contributed = u.contributed \cup {q}]
  BY TaskFields
<1> HIDE DEF v
<1>3. [v EXCEPT !.contributed = u.contributed \cup {q}] = Moved(u, q, s, u.contributed \cup {q})
  BY <1>1 DEF Moved
<1> QED BY <1>2, <1>3

(* The foreign chain has answered the leader of a request. *)
LEMMA ExecuteKeeps ==
  ASSUME Inv, NEW t \in DOMAIN tasks, ExecuteForeignChainRequest(t)
  PROVE  Inv'
<1> USE DEF Inv
<1> DEFINE n == tasks[t].leader
           c == tasks[t].contributed \cup {n}
<1>1. /\ "computing" \in States \ {"done"} /\ n \in tasks[t].participants
      /\ c \in SUBSET tasks[t].participants /\ tasks[t] \in TaskT
  BY TaskFields DEF States, TypeInv, IsTask
<1>2. tasks[t].state[n] # "done" /\ UNCHANGED <<store, last_id, clock, up>>
  BY DEF ExecuteForeignChainRequest
<1>3. [tasks[t] EXCEPT !.state[n] = "computing", !.contributed = @ \cup {n}]
        = Moved(tasks[t], n, "computing", c)
  BY <1>1, JoinsMoved
<1>4. tasks' = [tasks EXCEPT ![t].state[n] = "computing", ![t].contributed = @ \cup {n}]
  BY DEF ExecuteForeignChainRequest
<1>5. tasks \in Seq(TaskT)
  BY DEF TypeInv
<1>6. tasks' = [tasks EXCEPT ![t] =
                  [tasks[t] EXCEPT !.state[n] = "computing", !.contributed = @ \cup {n}]]
  BY <1>4, <1>5
<1>7. Moves(t, n, "computing", c)
  BY <1>3, <1>6 DEF Moves
<1> QED BY <1>1, <1>2, <1>7, QuietMove

(* A participant finishes and stores what was made. *)
LEMMA DoneKeeps ==
  ASSUME Inv, NEW t \in DOMAIN tasks,
         LeaderDone(t) \/ \E p \in tasks[t].participants : FollowerDone(t, p)
  PROVE  Inv'
<1> USE DEF Inv
<1>1. CASE LeaderDone(t)
  <2>1. tasks[t].leader \in tasks[t].participants
    BY TaskFields DEF TypeInv, IsTask
  <2> QED BY <1>1, <2>1, DoneMove DEF LeaderDone, LeaderWaitsForSuccess
<1>2. ASSUME NEW p \in tasks[t].participants, FollowerDone(t, p) PROVE Inv'
  BY <1>2, DoneMove DEF FollowerDone
<1> QED BY <1>1, <1>2

(* Every step preserves the invariant. *)
LEMMA NextKeeps == Inv /\ [Next]_vars => Inv'
<1> SUFFICES ASSUME Inv, [Next]_vars PROVE Inv'
  OBVIOUS
<1>0. Owners \subseteq Node
  BY AssetsAssumption
<1>1. CASE \E n \in Owners : Background(n) \/ Request(n)
  BY <1>0, <1>1, BackgroundKeeps, RequestKeeps
<1>2. CASE \E n \in Owners, a \in AssetKinds : \E s \in store[n] : Discard(n, a, s)
  BY <1>0, <1>2, DiscardKeeps
<1>3. CASE Progress
  BY <1>3, ExecuteKeeps, DoneKeeps, BeginsKeeps, FailureKeeps DEF Progress
<1>4. CASE \E t \in DOMAIN tasks : \E p \in tasks[t].participants : ParticipantFails(t, p)
  BY <1>4, FailureKeeps
<1>5. CASE \E n \in Node : Crash(n) \/ Restart(n)
  BY <1>5, CrashKeeps, RestartKeeps
<1>6. CASE UNCHANGED vars
  <2>1. UNCHANGED <<store, last_id, clock, tasks, up>>
    BY <1>6 DEF vars
  <2>2. TypeInv' /\ LastInv'
    BY <2>1 DEF Inv, TypeInv, LastInv
  <2>3. IdInv' /\ IdsFresh'
    BY <2>1 DEF Inv, IdInv, IdOf, IdsFresh
  <2>4. ShareInv' /\ OwnedBacked'
    BY <2>1 DEF Inv, ShareInv, ShareAt, OwnedBacked, Owned
  <2>5. LeaderLast' /\ FollowersKeep'
    BY <2>1 DEF Inv, LeaderLast, AllDone, FollowersKeep
  <2>6. InputInv' /\ InputsDiffer'
    BY <2>1 DEF Inv, InputInv, InputOf, InputFrom, InputGone, AllDone, InputsDiffer
  <2> QED BY <2>2, <2>3, <2>4, <2>5, <2>6 DEF Inv
<1> QED BY <1>1, <1>2, <1>3, <1>4, <1>5, <1>6 DEF Next

-----------------------------------------------------------------------------
(* A triple or presignature that its owner keeps has a share of the same computation at
   each of its participants (take_owned hands out only such assets), stores hold at most
   one share per id, and reserved ids are the node's own: for any nodes, owners and faults. *)
THEOREM StoresSoundAlways == Spec => []StoresSound
<1>1. Spec => []Inv
  BY InitInv, NextKeeps, PTL DEF Spec
<1> QED BY <1>1, InvGivesStores, PTL

(* A presignature, or pair of triples, is the input of one computation only, nobody who
   contributes to it keeps it, and ids name one asset across crashes and restarts
   (generate_and_reserve_id_range). *)
THEOREM UsedSafelyAlways == Spec => []UsedSafely
<1>1. Spec => []Inv
  BY InitInv, NextKeeps, PTL DEF Spec
<1> QED BY <1>1, InvGivesUses, PTL
=============================================================================
