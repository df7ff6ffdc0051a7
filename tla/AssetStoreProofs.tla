-------------------------- MODULE AssetStoreProofs --------------------------
(***************************************************************************)
(* Proofs about the asset store, for any set of peers and callers: an     *)
(* asset is in one place at a time and never usable twice, the barriers    *)
(* of the cold queue tell the truth, and only unusable assets are          *)
(* discarded.                                                              *)
(***************************************************************************)
EXTENDS AssetStore, FiniteSetTheorems, SequenceTheorems, TLAPS

-----------------------------------------------------------------------------
(* What the moves between queues do to a sequence without repetition. *)

(* Taking the first element. *)
LEMMA TailFacts ==
  ASSUME NEW S, NEW s \in Seq(S), s # <<>>, IsInjective(s)
  PROVE  /\ Tail(s) \in Seq(S) /\ Len(Tail(s)) = Len(s) - 1 /\ Len(s) \in Nat \ {0}
         /\ \A i \in 1..Len(s) - 1 : Tail(s)[i] = s[i + 1]
         /\ IsInjective(Tail(s))
         /\ Head(s) = s[1] /\ Head(s) \in ToSet(s) /\ Head(s) \in S
         /\ ToSet(Tail(s)) = ToSet(s) \ {Head(s)}
<1>1. /\ Tail(s) \in Seq(S) /\ Len(Tail(s)) = Len(s) - 1 /\ Len(s) \in Nat \ {0}
      /\ \A i \in 1..Len(s) - 1 : Tail(s)[i] = s[i + 1]
      /\ Head(s) = s[1]
  BY SMT
<1>2. DOMAIN Tail(s) = 1..Len(s) - 1 /\ DOMAIN s = 1..Len(s)
  BY <1>1
<1>3. IsInjective(Tail(s))
  BY <1>1, <1>2 DEF IsInjective
<1>4. Head(s) \in ToSet(s) /\ Head(s) \in S
  BY <1>1, <1>2 DEF ToSet
<1>5. ASSUME NEW x \in ToSet(Tail(s)) PROVE x \in ToSet(s) \ {Head(s)}
  BY <1>1, <1>2 DEF ToSet, IsInjective
<1>6. ASSUME NEW x \in ToSet(s) \ {Head(s)} PROVE x \in ToSet(Tail(s))
  <2>1. PICK i \in 1..Len(s) : x = s[i]
    BY <1>2 DEF ToSet
  <2>2. i # 1 /\ i - 1 \in 1..Len(s) - 1
    BY <1>1, <2>1
  <2>3. Tail(s)[i - 1] = x
    BY <1>1, <2>1, <2>2
  <2> QED BY <1>2, <2>2, <2>3 DEF ToSet
<1> QED BY <1>1, <1>3, <1>4, <1>5, <1>6

(* Taking the last element. *)
LEMMA FrontFacts ==
  ASSUME NEW S, NEW s \in Seq(S), s # <<>>, IsInjective(s)
  PROVE  /\ Front(s) \in Seq(S) /\ Len(Front(s)) = Len(s) - 1 /\ Len(s) \in Nat \ {0}
         /\ \A i \in 1..Len(s) - 1 : Front(s)[i] = s[i]
         /\ IsInjective(Front(s))
         /\ Last(s) = s[Len(s)] /\ Last(s) \in ToSet(s) /\ Last(s) \in S
         /\ ToSet(Front(s)) = ToSet(s) \ {Last(s)}
<1>1. Len(s) \in Nat \ {0}
  BY SMT
<1>2. /\ Front(s) \in Seq(S) /\ Len(Front(s)) = Len(s) - 1
      /\ \A i \in 1..Len(s) - 1 : Front(s)[i] = s[i]
  <2>1. /\ SubSeq(s, 1, Len(s) - 1) \in Seq(S)
        /\ Len(SubSeq(s, 1, Len(s) - 1)) = Len(s) - 1
        /\ \A i \in 1..Len(s) - 1 : SubSeq(s, 1, Len(s) - 1)[i] = s[i]
    <3> DEFINE n == Len(s) - 1
    <3>1. 1 \in Int /\ n \in Nat /\ \A i \in 1..n : s[i] \in S
      BY <1>1
    <3> HIDE DEF n
    <3>2. /\ SubSeq(s, 1, n) \in Seq(S)
          /\ Len(SubSeq(s, 1, n)) = IF 1 <= n THEN n - 1 + 1 ELSE 0
          /\ \A i \in 1..n - 1 + 1 : SubSeq(s, 1, n)[i] = s[1 + i - 1]
      BY <3>1, SubSeqProperties
    <3>3. /\ SubSeq(s, 1, n) \in Seq(S) /\ Len(SubSeq(s, 1, n)) = n
          /\ \A i \in 1..n : SubSeq(s, 1, n)[i] = s[i]
      BY <3>1, <3>2
    <3> QED BY <3>3 DEF n
  <2> QED BY <2>1 DEF Front
<1>3. DOMAIN Front(s) = 1..Len(s) - 1 /\ DOMAIN s = 1..Len(s)
  BY <1>2
<1>4. IsInjective(Front(s))
  BY <1>1, <1>2, <1>3 DEF IsInjective
<1>5. Last(s) = s[Len(s)] /\ Last(s) \in ToSet(s) /\ Last(s) \in S
  BY <1>1, <1>3 DEF ToSet, Last
<1>6. ASSUME NEW x \in ToSet(Front(s)) PROVE x \in ToSet(s) \ {Last(s)}
  BY <1>1, <1>2, <1>3, <1>5 DEF ToSet, IsInjective
<1>7. ASSUME NEW x \in ToSet(s) \ {Last(s)} PROVE x \in ToSet(Front(s))
  <2>1. PICK i \in 1..Len(s) : x = s[i]
    BY <1>3 DEF ToSet
  <2>2. i \in 1..Len(s) - 1
    BY <1>1, <1>5, <2>1
  <2>3. Front(s)[i] = x
    BY <1>2, <2>1, <2>2
  <2> QED BY <1>3, <2>2, <2>3 DEF ToSet
<1> QED BY <1>1, <1>2, <1>4, <1>5, <1>6, <1>7

(* Adding a new element at the end. *)
LEMMA AppendFacts ==
  ASSUME NEW S, NEW s \in Seq(S), IsInjective(s), NEW x \in S, x \notin ToSet(s)
  PROVE  /\ Append(s, x) \in Seq(S) /\ Len(Append(s, x)) = Len(s) + 1 /\ Len(s) \in Nat
         /\ \A i \in 1..Len(s) : Append(s, x)[i] = s[i]
         /\ Append(s, x)[Len(s) + 1] = x
         /\ IsInjective(Append(s, x))
         /\ ToSet(Append(s, x)) = ToSet(s) \cup {x}
<1>1. /\ Append(s, x) \in Seq(S) /\ Len(Append(s, x)) = Len(s) + 1 /\ Len(s) \in Nat
      /\ \A i \in 1..Len(s) : Append(s, x)[i] = s[i]
      /\ Append(s, x)[Len(s) + 1] = x
  BY SMT
<1>2. DOMAIN Append(s, x) = 1..Len(s) + 1 /\ DOMAIN s = 1..Len(s)
  BY <1>1
<1>3. \A i \in 1..Len(s) : s[i] \in ToSet(s)
  BY <1>2 DEF ToSet
<1>4. IsInjective(Append(s, x))
  <2>1. SUFFICES ASSUME NEW i \in 1..Len(s) + 1, NEW j \in 1..Len(s) + 1,
                        Append(s, x)[i] = Append(s, x)[j]
                 PROVE  i = j
    BY <1>2 DEF IsInjective
  <2>2. CASE i \in 1..Len(s) /\ j \in 1..Len(s)
    BY <1>1, <1>2, <2>1, <2>2 DEF IsInjective
  <2>3. CASE i = Len(s) + 1
    BY <1>1, <1>3, <2>1, <2>3
  <2>4. CASE j = Len(s) + 1
    BY <1>1, <1>3, <2>1, <2>4
  <2> QED BY <1>1, <2>2, <2>3, <2>4
<1>5. ASSUME NEW y \in ToSet(Append(s, x)) PROVE y \in ToSet(s) \cup {x}
  BY <1>1, <1>2 DEF ToSet
<1>6. ASSUME NEW y \in ToSet(s) \cup {x} PROVE y \in ToSet(Append(s, x))
  <2>1. CASE y = x
    BY <1>1, <1>2, <2>1 DEF ToSet
  <2>2. CASE y \in ToSet(s)
    BY <1>1, <1>2, <2>2 DEF ToSet
  <2> QED BY <1>6, <2>1, <2>2
<1> QED BY <1>1, <1>4, <1>5, <1>6

(* Adding a new element at the front. *)
LEMMA PrependFacts ==
  ASSUME NEW S, NEW s \in Seq(S), IsInjective(s), NEW x \in S, x \notin ToSet(s)
  PROVE  /\ <<x>> \o s \in Seq(S) /\ Len(<<x>> \o s) = Len(s) + 1 /\ Len(s) \in Nat
         /\ \A i \in 1..Len(s) : (<<x>> \o s)[i + 1] = s[i]
         /\ (<<x>> \o s)[1] = x
         /\ IsInjective(<<x>> \o s)
         /\ ToSet(<<x>> \o s) = ToSet(s) \cup {x}
<1> DEFINE t == <<x>> \o s
<1>1. /\ t \in Seq(S) /\ Len(t) = Len(s) + 1 /\ Len(s) \in Nat
      /\ \A i \in 2..Len(s) + 1 : t[i] = s[i - 1]
      /\ t[1] = x
  BY SMT
<1>2. DOMAIN t = 1..Len(s) + 1 /\ DOMAIN s = 1..Len(s)
  BY <1>1
<1> HIDE DEF t
<1>3. \A i \in 1..Len(s) : s[i] \in ToSet(s)
  BY <1>2 DEF ToSet
<1>4. \A i \in 1..Len(s) : t[i + 1] = s[i]
  BY <1>1
<1>5. IsInjective(t)
  <2>1. SUFFICES ASSUME NEW i \in 1..Len(s) + 1, NEW j \in 1..Len(s) + 1, t[i] = t[j]
                 PROVE  i = j
    BY <1>2 DEF IsInjective
  <2>2. CASE i \in 2..Len(s) + 1 /\ j \in 2..Len(s) + 1
    <3>1. i - 1 \in 1..Len(s) /\ j - 1 \in 1..Len(s) /\ s[i - 1] = s[j - 1]
      BY <1>1, <2>1, <2>2
    <3>2. i - 1 = j - 1
      BY <1>2, <3>1 DEF IsInjective
    <3> QED BY <3>2
  <2>3. CASE i = 1
    BY <1>1, <1>3, <2>1, <2>3
  <2>4. CASE j = 1
    BY <1>1, <1>3, <2>1, <2>4
  <2> QED BY <1>1, <2>2, <2>3, <2>4
<1>6. ASSUME NEW y \in ToSet(t) PROVE y \in ToSet(s) \cup {x}
  <2>1. PICK i \in 1..Len(s) + 1 : y = t[i]
    BY <1>2 DEF ToSet
  <2>2. CASE i = 1
    BY <1>1, <2>1, <2>2
  <2>3. CASE i # 1
    BY <1>1, <1>3, <2>1, <2>3
  <2> QED BY <2>2, <2>3
<1>7. ASSUME NEW y \in ToSet(s) \cup {x} PROVE y \in ToSet(t)
  <2>1. CASE y = x
    BY <1>1, <1>2, <2>1 DEF ToSet
  <2>2. CASE y \in ToSet(s)
    <3>1. PICK i \in 1..Len(s) : y = s[i]
      BY <1>2, <2>2 DEF ToSet
    <3>2. t[i + 1] = y /\ i + 1 \in 1..Len(s) + 1
      BY <1>1, <1>4, <3>1
    <3> QED BY <1>2, <3>2 DEF ToSet
  <2> QED BY <1>7, <2>1, <2>2
<1>8. /\ t \in Seq(S) /\ Len(t) = Len(s) + 1 /\ Len(s) \in Nat
      /\ \A i \in 1..Len(s) : t[i + 1] = s[i]
      /\ t[1] = x
      /\ IsInjective(t)
      /\ ToSet(t) = ToSet(s) \cup {x}
  BY <1>1, <1>4, <1>5, <1>6, <1>7
<1> QED BY <1>8 DEF t

-----------------------------------------------------------------------------
(* The inductive invariant. *)

AssetRecord == [participants : SUBSET Peers, epoch : Nat,
                keys : UNION {[ps -> Nat] : ps \in SUBSET Peers}]
Config == [epoch : Nat, keys : [Peers -> Nat]]
ColdQueue == [ids : Seq(Nat), ready : Nat, available : Nat, cond : SUBSET Peers]

(* Whether up or down, the database holds assets of the epoch and the keys that its own
   EpochData names, and a running node has the EpochData of its configuration. *)
RecordsOK ==
  /\ asset \in Seq(AssetRecord)
  /\ config \in Config /\ epoch_data \in Config
  /\ up => epoch_data = config
  /\ db \subseteq Ids /\ used \subseteq Ids
  /\ \A id \in db :
       /\ asset[id].epoch = epoch_data.epoch
       /\ \A p \in asset[id].participants : asset[id].keys[p] = epoch_data.keys[p]

Call == [pc : {"idle", "loop", "wait", "received", "taken"}, id : Nat]

CallOK(t) == /\ t.id # 0 => t.id \in Ids
             /\ t.pc \in {"received", "taken"} => t.id # 0
             /\ t.pc \in {"idle", "loop", "wait"} => t.id = 0

TakersOK == taker \in [Takers -> Call] /\ \A k \in Takers : CallOK(taker[k])

DiscarderOK ==
  discarder \in [pc : {"idle", "cold", "hot", "delete"}, left : Nat, removed : SUBSET Nat]

SwitchesOK == alive \subseteq Peers /\ due \in BOOLEAN /\ up \in BOOLEAN

CallsOK == TakersOK /\ DiscarderOK /\ SwitchesOK

HotOK == hot \in Seq(Nat) /\ IsInjective(hot) /\ ToSet(hot) \subseteq Ids

QueueOK(c) ==
  /\ c \in ColdQueue /\ c.ready <= c.available /\ c.available <= Len(c.ids)
  /\ IsInjective(c.ids) /\ ToSet(c.ids) \subseteq Ids
  /\ \A i \in 1..Len(c.ids) :
       /\ i <= c.ready => Satisfies(c.cond, c.ids[i])
       /\ i > c.available => ~Satisfies(c.cond, c.ids[i])

(* No asset is in two places. *)
Apart ==
  /\ used \cap (db \cup ToSet(hot) \cup ToSet(cold.ids)) = {}
  /\ ToSet(hot) \cap ToSet(cold.ids) = {}
  /\ \A k \in Takers :
       taker[k].id # 0 => taker[k].id \notin used \cup ToSet(hot) \cup ToSet(cold.ids)
  /\ \A k, l \in Takers : taker[k].id = taker[l].id /\ taker[k].id # 0 => k = l

DownIsEmpty ==
  ~up => /\ hot = <<>> /\ cold = EmptyCold /\ discarder = NoCall
         /\ taker = [k \in Takers |-> Idle]

StoreInv == RecordsOK /\ CallsOK /\ HotOK /\ QueueOK(cold) /\ Apart /\ DownIsEmpty

-----------------------------------------------------------------------------
(* The operations of the cold queue. *)

(* Assets are numbered from 1. *)
LEMMA AssetLength == RecordsOK => Len(asset) \in Nat /\ DOMAIN asset = 1..Len(asset)
BY DEF RecordsOK

(* The empty cold queue is in order. *)
LEMMA EmptyColdOK == RecordsOK => QueueOK(EmptyCold) /\ ToSet(EmptyCold.ids) = {}
<1> SUFFICES ASSUME RecordsOK PROVE QueueOK(EmptyCold) /\ ToSet(EmptyCold.ids) = {}
  OBVIOUS
<1>1. EmptyCold.ids = <<>> /\ EmptyCold.ready = 0 /\ EmptyCold.available = 0
      /\ EmptyCold.cond = {} /\ EmptyCold \in ColdQueue
  BY DEF EmptyCold, ColdQueue
<1>2. ToSet(EmptyCold.ids) = {} /\ IsInjective(EmptyCold.ids) /\ Len(EmptyCold.ids) = 0
  BY <1>1 DEF ToSet, IsInjective
<1> QED BY <1>1, <1>2 DEF QueueOK

(* A refreshed queue keeps its elements, and its barriers are true of the new value. *)
LEMMA UpdateOK ==
  ASSUME NEW c, QueueOK(c), alive \subseteq Peers
  PROVE  QueueOK(UpdateConditionValue(c)) /\ UpdateConditionValue(c).ids = c.ids
<1>1. CASE alive = c.cond
  BY <1>1 DEF UpdateConditionValue
<1>2. CASE alive # c.cond
  <2> DEFINE d == UpdateConditionValue(c)
  <2>1. c \in ColdQueue /\ c.ids \in Seq(Nat) /\ Len(c.ids) \in Nat
    BY DEF QueueOK, ColdQueue
  <2>2. /\ d.ids = c.ids /\ d.ready = 0 /\ d.available = Len(c.ids) /\ d.cond = alive
        /\ d \in ColdQueue
    BY <1>2, <2>1 DEF UpdateConditionValue, ColdQueue
  <2> HIDE DEF d
  <2>3. QueueOK(d)
    BY <2>1, <2>2 DEF QueueOK
  <2> QED BY <2>2, <2>3 DEF d
<1> QED BY <1>1, <1>2

(* A refresh changes which are known to be available, not the queue. *)
LEMMA RefreshedOK ==
  ASSUME CallsOK, QueueOK(cold), NEW c \in Refreshed(cold)
  PROVE  QueueOK(c) /\ c.ids = cold.ids
<1>1. c = cold \/ c = UpdateConditionValue(cold)
  BY DEF Refreshed
<1>2. alive \subseteq Peers
  BY DEF CallsOK, SwitchesOK
<1> QED BY <1>1, <1>2, UpdateOK

(* take moves the front to the caller or to the back. *)
TakeShape(c, r) ==
  /\ QueueOK(r.cold) /\ r.cold.cond = c.cond
  /\ \/ r.pc \in {"wait", "loop"} /\ r.id = 0 /\ ToSet(r.cold.ids) = ToSet(c.ids)
     \/ /\ r.pc = "taken" /\ r.id \in ToSet(c.ids)
        /\ ToSet(r.cold.ids) = ToSet(c.ids) \ {r.id}

(* What a take leaves of the cold queue, and what it gives. *)
LEMMA ColdTakeOK ==
  ASSUME RecordsOK, NEW c, QueueOK(c)
  PROVE  TakeShape(c, ColdTake(c))
<1>0. /\ c \in ColdQueue /\ c.ids \in Seq(Nat) /\ c.ready \in Nat /\ c.available \in Nat
      /\ c.cond \in SUBSET Peers /\ Len(c.ids) \in Nat /\ IsInjective(c.ids)
      /\ c.ready <= c.available /\ c.available <= Len(c.ids) /\ ToSet(c.ids) \subseteq Ids
  BY DEF QueueOK, ColdQueue
<1>1. CASE c.available = 0
  BY <1>1 DEF ColdTake, TakeShape
<1>2. CASE c.available # 0
  <2> DEFINE id == Head(c.ids)
             rest == [c EXCEPT !.ids = Tail(@), !.available = @ - 1]
  <2>1. c.ids # <<>>
    BY <1>0, <1>2
  <2>2. /\ Tail(c.ids) \in Seq(Nat) /\ Len(Tail(c.ids)) = Len(c.ids) - 1
        /\ \A i \in 1..Len(c.ids) - 1 : Tail(c.ids)[i] = c.ids[i + 1]
        /\ IsInjective(Tail(c.ids))
        /\ id = c.ids[1] /\ id \in ToSet(c.ids) /\ id \in Nat
        /\ ToSet(Tail(c.ids)) = ToSet(c.ids) \ {id}
    BY <1>0, <2>1, TailFacts
  <2>3. /\ rest \in ColdQueue /\ rest.ids = Tail(c.ids) /\ rest.available = c.available - 1
        /\ rest.ready = c.ready /\ rest.cond = c.cond
    <3>1. c.available - 1 \in Nat /\ Tail(c.ids) \in Seq(Nat) /\ c \in ColdQueue
      BY <1>0, <1>2, <2>2
    <3> QED BY <3>1 DEF ColdQueue
  <2> HIDE DEF id, rest
  <2>4. \A i \in 1..Len(c.ids) - 1 :
          /\ i + 1 <= c.ready => Satisfies(c.cond, Tail(c.ids)[i])
          /\ i + 1 > c.available => ~Satisfies(c.cond, Tail(c.ids)[i])
    <3> SUFFICES ASSUME NEW i \in 1..Len(c.ids) - 1
                 PROVE  /\ i + 1 <= c.ready => Satisfies(c.cond, Tail(c.ids)[i])
                        /\ i + 1 > c.available => ~Satisfies(c.cond, Tail(c.ids)[i])
      OBVIOUS
    <3>1. i + 1 \in 1..Len(c.ids) /\ Tail(c.ids)[i] = c.ids[i + 1]
      BY <1>0, <2>2
    <3> QED BY <3>1 DEF QueueOK
  <2>5. CASE c.ready > 0
    <3> DEFINE d == [rest EXCEPT !.ready = @ - 1]
    <3>1. ColdTake(c) = [cold |-> d, pc |-> "taken", id |-> id]
      BY <1>2, <2>5 DEF ColdTake, id, rest
    <3>2. /\ d \in ColdQueue /\ d.ids = Tail(c.ids) /\ d.available = c.available - 1
          /\ d.ready = c.ready - 1 /\ d.cond = c.cond
      <4>1. rest.ready - 1 \in Nat /\ rest \in ColdQueue
        BY <1>0, <2>3, <2>5
      <4>2. /\ d \in ColdQueue /\ d.ids = rest.ids /\ d.available = rest.available
            /\ d.ready = rest.ready - 1 /\ d.cond = rest.cond
        BY <4>1 DEF ColdQueue
      <4> QED BY <2>3, <4>2
    <3> HIDE DEF d
    <3>3. \A i \in 1..Len(d.ids) :
            /\ i <= d.ready => Satisfies(d.cond, d.ids[i])
            /\ i > d.available => ~Satisfies(d.cond, d.ids[i])
      <4>1. \A i \in 1..Len(c.ids) - 1 :
              /\ i <= c.ready - 1 => Satisfies(c.cond, Tail(c.ids)[i])
              /\ i > c.available - 1 => ~Satisfies(c.cond, Tail(c.ids)[i])
        BY <1>0, <2>4
      <4> QED BY <2>2, <3>2, <4>1
    <3>4. QueueOK(d)
      BY <1>0, <1>2, <2>2, <2>5, <3>2, <3>3, SMTT(60) DEF QueueOK
    <3> QED BY <2>2, <3>1, <3>2, <3>4 DEF TakeShape
  <2>6. CASE c.ready = 0 /\ Satisfies(c.cond, id)
    <3>1. ColdTake(c) = [cold |-> rest, pc |-> "taken", id |-> id]
      BY <1>2, <2>6 DEF ColdTake, id, rest
    <3>2. QueueOK(rest)
      BY <1>0, <1>2, <2>2, <2>3, <2>4, <2>6, SMTT(60) DEF QueueOK
    <3> QED BY <2>2, <2>3, <3>1, <3>2 DEF TakeShape
  <2>7. CASE c.ready = 0 /\ ~Satisfies(c.cond, id)
    <3> DEFINE d == [rest EXCEPT !.ids = Append(@, id)]
               t == Append(Tail(c.ids), id)
    <3>1. ColdTake(c) = [cold |-> d, pc |-> "loop", id |-> 0]
      BY <1>2, <2>7 DEF ColdTake, id, rest
    <3>2. /\ t \in Seq(Nat) /\ Len(t) = Len(c.ids)
          /\ \A i \in 1..Len(c.ids) - 1 : t[i] = Tail(c.ids)[i]
          /\ t[Len(c.ids)] = id
          /\ IsInjective(t)
          /\ ToSet(t) = ToSet(c.ids)
      <4>1. id \notin ToSet(Tail(c.ids))
        BY <2>2
      <4>2. /\ t \in Seq(Nat) /\ Len(t) = Len(Tail(c.ids)) + 1
            /\ \A i \in 1..Len(Tail(c.ids)) : t[i] = Tail(c.ids)[i]
            /\ t[Len(Tail(c.ids)) + 1] = id
            /\ IsInjective(t)
            /\ ToSet(t) = ToSet(Tail(c.ids)) \cup {id}
        <5> DEFINE u == Tail(c.ids)
        <5>1. u \in Seq(Nat) /\ IsInjective(u) /\ id \in Nat /\ id \notin ToSet(u)
          BY <2>2, <4>1
        <5> HIDE DEF u
        <5>2. /\ Append(u, id) \in Seq(Nat) /\ Len(Append(u, id)) = Len(u) + 1
              /\ \A i \in 1..Len(u) : Append(u, id)[i] = u[i]
              /\ Append(u, id)[Len(u) + 1] = id
              /\ IsInjective(Append(u, id))
              /\ ToSet(Append(u, id)) = ToSet(u) \cup {id}
          BY <5>1, AppendFacts
        <5> QED BY <5>2 DEF u
      <4> HIDE DEF t
      <4>3. ToSet(t) = ToSet(c.ids)
        BY <2>2, <4>2
      <4>4. Len(Tail(c.ids)) + 1 = Len(c.ids)
        BY <1>0, <2>2
      <4> QED BY <2>2, <4>2, <4>3, <4>4
    <3> HIDE DEF t
    <3>3. /\ d \in ColdQueue /\ d.ids = t /\ d.available = c.available - 1
          /\ d.ready = c.ready /\ d.cond = c.cond
      BY <1>0, <2>3, <3>2 DEF ColdQueue, t
    <3> HIDE DEF d
    <3>4. \A i \in 1..Len(t) :
            /\ i <= d.ready => Satisfies(d.cond, t[i])
            /\ i > d.available => ~Satisfies(d.cond, t[i])
      <4> SUFFICES ASSUME NEW i \in 1..Len(t)
                   PROVE  /\ i <= d.ready => Satisfies(d.cond, t[i])
                          /\ i > d.available => ~Satisfies(d.cond, t[i])
        OBVIOUS
      <4>1. CASE i = Len(c.ids)
        BY <1>0, <2>7, <3>2, <3>3, <4>1
      <4>2. CASE i # Len(c.ids)
        <5>1. Len(t) = Len(c.ids) /\ Len(c.ids) \in Nat
          BY <1>0, <3>2
        <5>2. i \in 1..Len(c.ids) - 1
          BY <4>2, <5>1
        <5>3. t[i] = Tail(c.ids)[i]
          BY <3>2, <5>2
        <5> QED BY <1>0, <1>2, <2>4, <2>7, <3>3, <5>2, <5>3, SMTT(60)
      <4> QED BY <4>1, <4>2
    <3>5. QueueOK(d)
      BY <1>0, <1>2, <2>7, <3>2, <3>3, <3>4 DEF QueueOK
    <3> QED BY <3>1, <3>2, <3>3, <3>5 DEF TakeShape
  <2> QED BY <1>0, <2>5, <2>6, <2>7
<1> QED BY <1>1, <1>2

(* discard moves the back to the front, or removes it: then it fails the condition. *)
DiscardShape(c, r) ==
  /\ QueueOK(r.cold) /\ r.cold.cond = c.cond /\ r.pc \in {"cold", "hot"}
  /\ \/ r.removed = {} /\ ToSet(r.cold.ids) = ToSet(c.ids)
     \/ \E id \in ToSet(c.ids) :
          /\ r.removed = {id} /\ ToSet(r.cold.ids) = ToSet(c.ids) \ {id}
          /\ ~Satisfies(c.cond, id)

(* What a discard leaves of the cold queue, and what it gives. *)
LEMMA ColdDiscardOK ==
  ASSUME RecordsOK, NEW c, QueueOK(c)
  PROVE  DiscardShape(c, ColdDiscard(c))
<1>0. /\ c \in ColdQueue /\ c.ids \in Seq(Nat) /\ c.ready \in Nat /\ c.available \in Nat
      /\ c.cond \in SUBSET Peers /\ Len(c.ids) \in Nat /\ IsInjective(c.ids)
      /\ c.ready <= c.available /\ c.available <= Len(c.ids) /\ ToSet(c.ids) \subseteq Ids
  BY DEF QueueOK, ColdQueue
<1>1. CASE c.ready = Len(c.ids)
  BY <1>1 DEF ColdDiscard, DiscardShape
<1>2. CASE c.ready # Len(c.ids)
  <2> DEFINE id == Last(c.ids)
             rest == Front(c.ids)
             unknown == c.available > Len(rest)
  <2>1. c.ids # <<>>
    BY <1>0, <1>2
  <2>2. /\ rest \in Seq(Nat) /\ Len(rest) = Len(c.ids) - 1 /\ Len(c.ids) \in Nat \ {0}
        /\ \A i \in 1..Len(c.ids) - 1 : rest[i] = c.ids[i]
        /\ IsInjective(rest)
        /\ id = c.ids[Len(c.ids)] /\ id \in ToSet(c.ids) /\ id \in Nat
        /\ ToSet(rest) = ToSet(c.ids) \ {id}
    BY <1>0, <2>1, FrontFacts
  <2>3. /\ \A i \in 1..Len(rest) :
             /\ i <= c.ready => Satisfies(c.cond, rest[i])
             /\ i > c.available => ~Satisfies(c.cond, rest[i])
        /\ Len(c.ids) > c.available => ~Satisfies(c.cond, id)
    <3> HIDE DEF id, rest
    <3>1. \A i \in 1..Len(rest) : i \in 1..Len(c.ids) /\ rest[i] = c.ids[i]
      BY <1>0, <2>2
    <3>2. Len(c.ids) \in 1..Len(c.ids)
      BY <2>2
    <3> QED BY <2>2, <3>1, <3>2 DEF QueueOK
  <2> HIDE DEF id, rest
  <2>4. CASE unknown /\ Satisfies(c.cond, id)
    <3> DEFINE t == <<id>> \o rest
               d == [c EXCEPT !.ids = t, !.ready = @ + 1]
    <3>1. ColdDiscard(c) = [cold |-> d, pc |-> "cold", removed |-> {}]
      BY <1>2, <2>4 DEF ColdDiscard, id, rest
    <3>2. /\ t \in Seq(Nat) /\ Len(t) = Len(rest) + 1
          /\ \A i \in 1..Len(rest) : t[i + 1] = rest[i]
          /\ t[1] = id /\ IsInjective(t) /\ ToSet(t) = ToSet(rest) \cup {id}
      <4>1. id \notin ToSet(rest)
        BY <2>2
      <4> QED BY <2>2, <4>1, PrependFacts
    <3> HIDE DEF t
    <3>3. /\ d \in ColdQueue /\ d.ids = t /\ d.available = c.available
          /\ d.ready = c.ready + 1 /\ d.cond = c.cond
      <4>1. c \in ColdQueue /\ t \in Seq(Nat) /\ c.ready + 1 \in Nat
        BY <1>0, <3>2
      <4> QED BY <4>1 DEF ColdQueue
    <3> HIDE DEF d
    <3>4. c.available = Len(c.ids) /\ Len(t) = Len(c.ids) /\ c.ready + 1 <= c.available
      BY <1>0, <1>2, <2>2, <2>4, <3>2, SMTT(60)
    <3>5. \A i \in 1..Len(t) : i <= c.ready + 1 => Satisfies(c.cond, t[i])
      <4> SUFFICES ASSUME NEW i \in 1..Len(t), i <= c.ready + 1
                   PROVE  Satisfies(c.cond, t[i])
        OBVIOUS
      <4>1. CASE i = 1
        BY <2>4, <3>2, <4>1
      <4>2. CASE i # 1
        <5>1. i - 1 \in 1..Len(rest) /\ i - 1 <= c.ready /\ (i - 1) + 1 = i
          BY <1>0, <2>2, <3>2, <4>2, SMTT(60)
        <5>2. t[i] = rest[i - 1]
          BY <3>2, <5>1
        <5> QED BY <2>3, <5>1, <5>2
      <4> QED BY <4>1, <4>2
    <3>6. \A i \in 1..Len(t) : ~(i > c.available)
      BY <1>0, <3>4
    <3>7. ToSet(t) = ToSet(c.ids)
      BY <2>2, <3>2
    <3>8. QueueOK(d)
      BY <1>0, <3>2, <3>3, <3>4, <3>5, <3>6, <3>7 DEF QueueOK
    <3> QED BY <3>1, <3>3, <3>7, <3>8 DEF DiscardShape
  <2>5. CASE ~(unknown /\ Satisfies(c.cond, id))
    <3> DEFINE d == [c EXCEPT !.ids = rest, !.available = IF unknown THEN @ - 1 ELSE @]
    <3>1. ColdDiscard(c) = [cold |-> d, pc |-> "cold", removed |-> {id}]
      BY <1>2, <2>5 DEF ColdDiscard, id, rest
    <3>2. ~Satisfies(c.cond, id)
      BY <1>0, <2>2, <2>3, <2>5
    <3>3. (IF unknown THEN c.available - 1 ELSE c.available) \in Nat
      BY <1>0, <1>2, <2>2
    <3>4. /\ d \in ColdQueue /\ d.ids = rest /\ d.ready = c.ready /\ d.cond = c.cond
          /\ d.available = IF unknown THEN c.available - 1 ELSE c.available
      <4> HIDE DEF unknown
      <4> QED BY <1>0, <2>2, <3>3 DEF ColdQueue
    <3> HIDE DEF d
    <3>5. /\ d.ready <= d.available /\ d.available <= Len(rest)
      BY <1>0, <1>2, <2>2, <3>4
    <3>6. \A i \in 1..Len(rest) : i > d.available => i > c.available
      BY <1>0, <1>2, <2>2, <3>4
    <3>7. QueueOK(d)
      BY <1>0, <2>2, <2>3, <3>4, <3>5, <3>6 DEF QueueOK
    <3> DEFINE r == [cold |-> d, pc |-> "cold", removed |-> {id}]
    <3>8. r.cold = d /\ r.pc = "cold" /\ r.removed = {id}
      OBVIOUS
    <3> HIDE DEF r
    <3>9. DiscardShape(c, r)
      BY <2>2, <3>2, <3>4, <3>7, <3>8 DEF DiscardShape
    <3> QED BY <3>1, <3>9 DEF r
  <2> QED BY <2>4, <2>5
<1> QED BY <1>1, <1>2

(* An element of the channel joins the ready ones if it satisfies the condition. *)
LEMMA AddIfSatisfiedOK ==
  ASSUME RecordsOK, NEW c, QueueOK(c), NEW id \in Ids, id \notin ToSet(c.ids)
  PROVE  /\ QueueOK(AddIfSatisfied(c, id)) /\ AddIfSatisfied(c, id).cond = c.cond
         /\ \/ ToSet(AddIfSatisfied(c, id).ids) = ToSet(c.ids) \cup {id}
            \/ /\ ToSet(AddIfSatisfied(c, id).ids) = ToSet(c.ids)
               /\ ~Satisfies(c.cond, id)
<1>0. /\ c \in ColdQueue /\ c.ids \in Seq(Nat) /\ c.ready \in Nat /\ c.available \in Nat
      /\ c.cond \in SUBSET Peers /\ Len(c.ids) \in Nat /\ IsInjective(c.ids)
      /\ c.ready <= c.available /\ c.available <= Len(c.ids) /\ ToSet(c.ids) \subseteq Ids
  BY DEF QueueOK, ColdQueue
<1>1. CASE ~Satisfies(c.cond, id)
  BY <1>1 DEF AddIfSatisfied
<1>2. CASE Satisfies(c.cond, id)
  <2> DEFINE t == <<id>> \o c.ids
             d == [c EXCEPT !.ids = t, !.ready = @ + 1, !.available = @ + 1]
  <2>1. AddIfSatisfied(c, id) = d
    BY <1>2 DEF AddIfSatisfied
  <2>2. id \in Nat
    BY AssetLength DEF Ids
  <2>3. /\ t \in Seq(Nat) /\ Len(t) = Len(c.ids) + 1
        /\ \A i \in 1..Len(c.ids) : t[i + 1] = c.ids[i]
        /\ t[1] = id /\ IsInjective(t) /\ ToSet(t) = ToSet(c.ids) \cup {id}
    BY <1>0, <2>2, PrependFacts, SMTT(60)
  <2> HIDE DEF t
  <2>4. /\ d \in ColdQueue /\ d.ids = t /\ d.available = c.available + 1
        /\ d.ready = c.ready + 1 /\ d.cond = c.cond
    <3>1. c \in ColdQueue /\ t \in Seq(Nat) /\ c.ready + 1 \in Nat /\ c.available + 1 \in Nat
      BY <1>0, <2>3
    <3> QED BY <3>1 DEF ColdQueue
  <2> HIDE DEF d
  <2>5. \A i \in 1..Len(t) :
          /\ i <= c.ready + 1 => Satisfies(c.cond, t[i])
          /\ i > c.available + 1 => ~Satisfies(c.cond, t[i])
    <3> SUFFICES ASSUME NEW i \in 1..Len(t)
                 PROVE  /\ i <= c.ready + 1 => Satisfies(c.cond, t[i])
                        /\ i > c.available + 1 => ~Satisfies(c.cond, t[i])
      OBVIOUS
    <3>1. CASE i = 1
      BY <1>0, <1>2, <2>3, <3>1
    <3>2. CASE i # 1
      <4>1. i - 1 \in 1..Len(c.ids) /\ (i - 1) + 1 = i
        BY <1>0, <2>3, <3>2
      <4>2. t[i] = c.ids[i - 1]
        BY <2>3, <4>1
      <4>3. /\ i - 1 <= c.ready => Satisfies(c.cond, c.ids[i - 1])
            /\ i - 1 > c.available => ~Satisfies(c.cond, c.ids[i - 1])
        BY <4>1 DEF QueueOK
      <4> QED BY <1>0, <4>1, <4>2, <4>3
    <3> QED BY <3>1, <3>2
  <2>6. QueueOK(d)
    BY <1>0, <2>3, <2>4, <2>5, SMTT(60) DEF QueueOK
  <2> QED BY <2>1, <2>3, <2>4, <2>6
<1> QED BY <1>1, <1>2

(* An element that fails the condition goes behind both barriers. *)
LEMMA AddNotSatisfiedOK ==
  ASSUME RecordsOK, NEW c, QueueOK(c), NEW id \in Ids, id \notin ToSet(c.ids),
         ~Satisfies(c.cond, id)
  PROVE  /\ QueueOK(AddNotSatisfied(c, id))
         /\ ToSet(AddNotSatisfied(c, id).ids) = ToSet(c.ids) \cup {id}
<1>0. /\ c \in ColdQueue /\ c.ids \in Seq(Nat) /\ c.ready \in Nat /\ c.available \in Nat
      /\ c.cond \in SUBSET Peers /\ Len(c.ids) \in Nat /\ IsInjective(c.ids)
      /\ c.ready <= c.available /\ c.available <= Len(c.ids) /\ ToSet(c.ids) \subseteq Ids
  BY DEF QueueOK, ColdQueue
<1> DEFINE t == Append(c.ids, id)
           d == [c EXCEPT !.ids = t]
<1>1. AddNotSatisfied(c, id) = d
  BY DEF AddNotSatisfied
<1>2. id \in Nat
  BY AssetLength DEF Ids
<1>3. /\ t \in Seq(Nat) /\ Len(t) = Len(c.ids) + 1
      /\ \A i \in 1..Len(c.ids) : t[i] = c.ids[i]
      /\ t[Len(c.ids) + 1] = id /\ IsInjective(t) /\ ToSet(t) = ToSet(c.ids) \cup {id}
  BY <1>0, <1>2, AppendFacts
<1> HIDE DEF t
<1>4. /\ d \in ColdQueue /\ d.ids = t /\ d.available = c.available
      /\ d.ready = c.ready /\ d.cond = c.cond
  BY <1>0, <1>3 DEF ColdQueue
<1> HIDE DEF d
<1>5. \A i \in 1..Len(t) :
        /\ i <= c.ready => Satisfies(c.cond, t[i])
        /\ i > c.available => ~Satisfies(c.cond, t[i])
  <2> SUFFICES ASSUME NEW i \in 1..Len(t)
               PROVE  /\ i <= c.ready => Satisfies(c.cond, t[i])
                      /\ i > c.available => ~Satisfies(c.cond, t[i])
    OBVIOUS
  <2>1. CASE i = Len(c.ids) + 1
    BY <1>0, <1>3, <2>1
  <2>2. CASE i # Len(c.ids) + 1
    <3>1. i \in 1..Len(c.ids)
      BY <1>0, <1>3, <2>2
    <3>2. t[i] = c.ids[i]
      BY <1>3, <3>1
    <3> QED BY <3>1, <3>2 DEF QueueOK
  <2> QED BY <2>1, <2>2
<1>6. QueueOK(d)
  BY <1>0, <1>3, <1>4, <1>5 DEF QueueOK
<1> QED BY <1>1, <1>3, <1>4, <1>6

-----------------------------------------------------------------------------
(* Every step keeps the invariant and drops no usable asset. *)

(* The step leaves the assets known so far as they are. *)
LEMMA QueueKept ==
  ASSUME asset' = asset, QueueOK(cold')
  PROVE  QueueOK(cold)'
BY DEF QueueOK, Satisfies, Ids, ColdQueue

(* The invariant holds at the start. *)
LEMMA InitOK == Init => StoreInv
<1> SUFFICES ASSUME Init PROVE StoreInv
  OBVIOUS
<1>1. RecordsOK
  <2>1. asset \in Seq(AssetRecord) /\ Len(asset) = 0 /\ db = {} /\ used = {}
    BY DEF Init
  <2>2. config \in Config /\ epoch_data = config
    BY DEF Init, Config, Keys
  <2> QED BY <2>1, <2>2 DEF RecordsOK, Ids
<1>2. CallsOK
  <2>1. Idle \in Call /\ CallOK(Idle)
    BY DEF Idle, Call, CallOK
  <2> QED BY <2>1 DEF Init, CallsOK, TakersOK, DiscarderOK, SwitchesOK, NoCall
<1>3. HotOK /\ ToSet(hot) = {}
  BY DEF Init, HotOK, ToSet, IsInjective
<1>4. QueueOK(cold) /\ ToSet(cold.ids) = {}
  BY <1>1, EmptyColdOK DEF Init
<1>5. Apart
  BY <1>3, <1>4 DEF Init, Apart, Idle
<1>6. DownIsEmpty
  BY DEF Init, DownIsEmpty
<1> QED BY <1>1, <1>2, <1>3, <1>4, <1>5, <1>6 DEF StoreInv

(* A step that keeps assets, database and configuration keeps RecordsOK. *)
LEMMA RecordsKept ==
  ASSUME RecordsOK, UNCHANGED <<asset, config, epoch_data, up>>,
         db' \subseteq db, used' \subseteq Ids
  PROVE  RecordsOK'
BY DEF RecordsOK, Ids

(* A generated asset is added. *)
LEMMA AddOwnedOK ==
  ASSUME StoreInv, NEW ps \in ParticipantSets, AddOwned(ps)
  PROVE  StoreInv' /\ NoUsableDiscardedStep
<1> DEFINE n == Len(asset) + 1
           rec == [participants |-> ps, epoch |-> config.epoch,
                   keys |-> [p \in ps |-> config.keys[p]]]
<1>0. RecordsOK /\ CallsOK /\ HotOK /\ QueueOK(cold) /\ Apart /\ DownIsEmpty
  BY DEF StoreInv
<1>1. /\ up /\ asset' = Append(asset, rec) /\ db' = db \cup {Len(asset')}
      /\ hot' = Append(hot, Len(asset'))
      /\ UNCHANGED <<cold, alive, due, taker, discarder, epoch_data, config, up, used>>
  BY DEF AddOwned
<1>2. rec \in AssetRecord /\ rec.participants = ps /\ rec.epoch = config.epoch
      /\ \A p \in ps : rec.keys[p] = config.keys[p]
  <2>1. ps \in SUBSET Peers
    BY StoreAssumption
  <2>2. config.epoch \in Nat /\ [p \in ps |-> config.keys[p]] \in [ps -> Nat]
    BY <1>0, <2>1 DEF RecordsOK, Config
  <2> QED BY <2>1, <2>2 DEF AssetRecord
<1> HIDE DEF rec
<1>3. /\ asset' \in Seq(AssetRecord) /\ Len(asset) \in Nat /\ Len(asset') = n
      /\ \A id \in Ids : asset'[id] = asset[id]
      /\ asset'[n] = rec
  BY <1>0, <1>1, <1>2 DEF RecordsOK, Ids
<1>4. Ids' = Ids \cup {n} /\ n \notin Ids /\ n \in Nat /\ n # 0
  BY <1>3 DEF Ids
<1> HIDE DEF n
<1>5. RecordsOK'
  <2>1. \A id \in db' : /\ asset'[id].epoch = epoch_data'.epoch
                        /\ \A p \in asset'[id].participants :
                             asset'[id].keys[p] = epoch_data'.keys[p]
    <3> SUFFICES ASSUME NEW id \in db'
                 PROVE  /\ asset'[id].epoch = epoch_data'.epoch
                        /\ \A p \in asset'[id].participants :
                             asset'[id].keys[p] = epoch_data'.keys[p]
      OBVIOUS
    <3>1. CASE id = n
      BY <1>0, <1>1, <1>2, <1>3, <3>1 DEF RecordsOK
    <3>2. CASE id # n
      <4>1. id \in db /\ asset'[id] = asset[id]
        BY <1>0, <1>1, <1>3, <3>2 DEF RecordsOK
      <4> QED BY <1>0, <1>1, <4>1 DEF RecordsOK
    <3> QED BY <3>1, <3>2
  <2>2. db' \subseteq Ids' /\ used' \subseteq Ids'
    BY <1>0, <1>1, <1>3, <1>4 DEF RecordsOK
  <2>3. config' \in Config /\ epoch_data' \in Config /\ (up' => epoch_data' = config')
    BY <1>0, <1>1 DEF RecordsOK
  <2> QED BY <1>3, <2>1, <2>2, <2>3 DEF RecordsOK
<1>a. \A k \in Takers : taker[k].id # 0 => taker[k].id \in Ids
  BY <1>0 DEF CallsOK, TakersOK, CallOK
<1>6. CallsOK'
  <2>1. TakersOK'
    <3>1. \A k \in Takers : CallOK(taker[k])'
      BY <1>0, <1>1, <1>4 DEF CallsOK, TakersOK, CallOK
    <3> QED BY <1>0, <1>1, <3>1 DEF CallsOK, TakersOK
  <2>2. DiscarderOK' /\ SwitchesOK'
    BY <1>0, <1>1 DEF CallsOK, DiscarderOK, SwitchesOK
  <2> QED BY <2>1, <2>2 DEF CallsOK
<1>7. n \notin ToSet(hot) /\ n \notin ToSet(cold.ids) /\ n \notin used /\ n \notin db
  BY <1>0, <1>4 DEF HotOK, QueueOK, RecordsOK
<1>8. HotOK' /\ ToSet(hot') = ToSet(hot) \cup {n}
  <2>1. hot \in Seq(Nat) /\ IsInjective(hot) /\ hot' = Append(hot, n)
    BY <1>0, <1>1, <1>3 DEF HotOK
  <2>2. hot' \in Seq(Nat) /\ IsInjective(hot') /\ ToSet(hot') = ToSet(hot) \cup {n}
    BY <1>4, <1>7, <2>1, AppendFacts
  <2> QED BY <1>0, <1>4, <2>2 DEF HotOK
<1>9. QueueOK(cold)'
  <2>1. \A i \in 1..Len(cold.ids) : cold.ids[i] \in Ids
    BY <1>0 DEF QueueOK, ToSet, ColdQueue
  <2>2. \A i \in 1..Len(cold.ids) :
          Satisfies(cold.cond, cold.ids[i])' <=> Satisfies(cold.cond, cold.ids[i])
    BY <1>1, <1>3, <2>1 DEF Satisfies
  <2> QED BY <1>0, <1>1, <1>4, <2>2 DEF QueueOK, ColdQueue
<1>10. Apart'
  <2>1. \A k \in Takers : taker[k].id # n
    BY <1>4, <1>a
  <2> QED BY <1>0, <1>1, <1>3, <1>7, <1>8, <2>1 DEF Apart
<1>11. DownIsEmpty'
  BY <1>1 DEF DownIsEmpty
<1>12. NoUsableDiscardedStep
  BY <1>1, <1>8 DEF NoUsableDiscardedStep
<1> QED BY <1>5, <1>6, <1>8, <1>9, <1>10, <1>11, <1>12 DEF StoreInv

(* What a step of one caller leaves of the other callers. *)
LEMMA CallerMoves ==
  ASSUME TakersOK, NEW k \in Takers, NEW t \in Call, CallOK(t),
         taker' = [taker EXCEPT ![k] = t], asset' = asset
  PROVE  TakersOK' /\ taker'[k] = t /\ \A l \in Takers \ {k} : taker'[l] = taker[l]
<1>1. /\ taker' \in [Takers -> Call] /\ taker'[k] = t
      /\ \A l \in Takers \ {k} : taker'[l] = taker[l]
  BY DEF TakersOK
<1>2. \A l \in Takers : CallOK(taker[l])'
  <2> TAKE l \in Takers
  <2>1. CallOK(taker'[l])
    BY <1>1 DEF TakersOK
  <2> QED BY <2>1 DEF CallOK, Ids
<1> QED BY <1>1, <1>2 DEF TakersOK

(* Takers are not concerned when neither they nor the assets change. *)
LEMMA DiscarderMoves ==
  ASSUME TakersOK, taker' = taker, asset' = asset
  PROVE  TakersOK'
<1>1. \A l \in Takers : CallOK(taker[l])'
  BY DEF TakersOK, CallOK, Ids
<1> QED BY <1>1 DEF TakersOK

(* The same for the hot queue. *)
LEMMA HotKept ==
  ASSUME HotOK, hot' = hot, asset' = asset
  PROVE  HotOK'
BY DEF HotOK, Ids

(* The oldest element leaves the channel. *)
LEMMA HotTaken ==
  ASSUME RecordsOK, HotOK, hot # <<>>, hot' = Tail(hot), asset' = asset
  PROVE  /\ HotOK' /\ ToSet(hot') = ToSet(hot) \ {Head(hot)}
         /\ Head(hot) \in ToSet(hot) /\ Head(hot) \in Ids /\ Head(hot) \in Nat /\ Head(hot) # 0
<1>1. hot \in Seq(Nat) /\ IsInjective(hot)
  BY DEF HotOK
<1>2. /\ Tail(hot) \in Seq(Nat) /\ IsInjective(Tail(hot))
      /\ Head(hot) \in ToSet(hot) /\ ToSet(Tail(hot)) = ToSet(hot) \ {Head(hot)}
  BY <1>1, TailFacts
<1>3. Head(hot) \in Ids /\ Head(hot) \in Nat /\ Head(hot) # 0
  BY <1>2, AssetLength DEF HotOK, Ids
<1>4. Ids' = Ids
  BY DEF Ids
<1> QED BY <1>2, <1>3, <1>4 DEF HotOK

(* A take begins. *)
LEMMA TakeCallOK ==
  ASSUME StoreInv, NEW k \in Takers, TakeCall(k)
  PROVE  StoreInv' /\ NoUsableDiscardedStep
<1>0. RecordsOK /\ TakersOK /\ DiscarderOK /\ SwitchesOK /\ HotOK /\ QueueOK(cold) /\ Apart
  BY DEF StoreInv, CallsOK
<1>1. /\ up /\ taker[k].pc = "idle" /\ cold' = UpdateConditionValue(cold) /\ due' = FALSE
      /\ taker' = [taker EXCEPT ![k] = At("loop", 0)]
      /\ UNCHANGED <<asset, db, hot, discarder, used, alive, epoch_data, config, up>>
  BY DEF TakeCall
<1>2. At("loop", 0) \in Call /\ CallOK(At("loop", 0)) /\ At("loop", 0).id = 0
  BY DEF At, Call, CallOK
<1>3. /\ TakersOK' /\ taker'[k].id = 0
      /\ \A l \in Takers \ {k} : taker'[l] = taker[l]
  BY <1>0, <1>1, <1>2, CallerMoves
<1>4. QueueOK(cold') /\ cold'.ids = cold.ids
  BY <1>0, <1>1, UpdateOK DEF SwitchesOK
<1>5. QueueOK(cold)'
  BY <1>1, <1>4, QueueKept
<1>6. RecordsOK'
  BY <1>0, <1>1, RecordsKept DEF RecordsOK
<1>7. HotOK' /\ DiscarderOK' /\ SwitchesOK' /\ DownIsEmpty'
  BY <1>0, <1>1, HotKept DEF DiscarderOK, SwitchesOK, DownIsEmpty
<1>8. Apart'
  <2>1. \A l \in Takers : taker'[l].id # 0 => taker'[l].id = taker[l].id
    BY <1>3
  <2> QED BY <1>0, <1>1, <1>4, <2>1 DEF Apart
<1>9. NoUsableDiscardedStep
  BY <1>1, <1>4 DEF NoUsableDiscardedStep
<1> QED BY <1>3, <1>5, <1>6, <1>7, <1>8, <1>9 DEF StoreInv, CallsOK

(* It tries the cold queue. *)
LEMMA TakeColdOK ==
  ASSUME StoreInv, NEW k \in Takers, TakeCold(k)
  PROVE  StoreInv' /\ NoUsableDiscardedStep
<1>0. RecordsOK /\ TakersOK /\ DiscarderOK /\ SwitchesOK /\ HotOK /\ QueueOK(cold) /\ Apart
      /\ CallsOK
  BY DEF StoreInv, CallsOK
<1>1. /\ up /\ taker[k].pc = "loop" /\ due' = FALSE
      /\ UNCHANGED <<asset, db, hot, discarder, used, alive, epoch_data, config, up>>
  BY DEF TakeCold
<1>2. PICK c \in Refreshed(cold) :
        /\ cold' = ColdTake(c).cold
        /\ taker' = [taker EXCEPT ![k] = At(ColdTake(c).pc, ColdTake(c).id)]
  BY DEF TakeCold
<1> DEFINE r == ColdTake(c)
<1>3. QueueOK(c) /\ c.ids = cold.ids
  BY <1>0, RefreshedOK
<1>4. TakeShape(c, r)
  BY <1>0, <1>3, ColdTakeOK
<1>5. cold' = r.cold /\ taker' = [taker EXCEPT ![k] = At(r.pc, r.id)]
  BY <1>2
<1> HIDE DEF r
<1>6. QueueOK(cold') /\ QueueOK(cold)'
  BY <1>1, <1>4, <1>5, QueueKept DEF TakeShape
<1>7. ToSet(cold.ids) \subseteq Ids /\ Ids \subseteq Nat \ {0}
  BY <1>0, AssetLength DEF QueueOK, Ids
<1>8. At(r.pc, r.id) \in Call /\ CallOK(At(r.pc, r.id)) /\ At(r.pc, r.id).id = r.id
  <2>1. CASE r.pc \in {"wait", "loop"} /\ r.id = 0
    BY <2>1 DEF At, Call, CallOK
  <2>2. CASE r.pc = "taken" /\ r.id \in ToSet(c.ids)
    BY <1>3, <1>7, <2>2 DEF At, Call, CallOK
  <2> QED BY <1>4, <2>1, <2>2 DEF TakeShape
<1>9. /\ TakersOK' /\ taker'[k].id = r.id
      /\ \A l \in Takers \ {k} : taker'[l] = taker[l]
  BY <1>0, <1>1, <1>5, <1>8, CallerMoves
<1>10. \/ r.id = 0 /\ ToSet(cold'.ids) = ToSet(cold.ids)
       \/ /\ r.id \in ToSet(cold.ids) /\ r.id # 0
          /\ ToSet(cold'.ids) = ToSet(cold.ids) \ {r.id}
  BY <1>3, <1>4, <1>5, <1>7 DEF TakeShape
<1>11. RecordsOK'
  BY <1>0, <1>1, RecordsKept DEF RecordsOK
<1>12. HotOK' /\ DiscarderOK' /\ SwitchesOK' /\ DownIsEmpty'
  BY <1>0, <1>1, HotKept DEF DiscarderOK, SwitchesOK, DownIsEmpty
<1>13. Apart'
  <2>1. CASE r.id = 0 /\ ToSet(cold'.ids) = ToSet(cold.ids)
    <3>1. \A l \in Takers : taker'[l].id # 0 => taker'[l].id = taker[l].id
      BY <1>9, <2>1
    <3> QED BY <1>0, <1>1, <2>1, <3>1 DEF Apart
  <2>2. CASE /\ r.id \in ToSet(cold.ids) /\ r.id # 0
             /\ ToSet(cold'.ids) = ToSet(cold.ids) \ {r.id}
    <3>1. \A l \in Takers \ {k} : taker'[l].id # r.id
      BY <1>0, <1>9, <2>2 DEF Apart
    <3>2. \A l \in Takers : taker'[l].id # 0 =>
            taker'[l].id \notin used' \cup ToSet(hot') \cup ToSet(cold'.ids)
      BY <1>0, <1>1, <1>9, <2>2 DEF Apart
    <3>3. \A l, m \in Takers : taker'[l].id = taker'[m].id /\ taker'[l].id # 0 => l = m
      BY <1>0, <1>9, <2>2, <3>1 DEF Apart
    <3>4. /\ used' \cap (db' \cup ToSet(hot') \cup ToSet(cold'.ids)) = {}
          /\ ToSet(hot') \cap ToSet(cold'.ids) = {}
      BY <1>0, <1>1, <2>2 DEF Apart
    <3> QED BY <3>2, <3>3, <3>4 DEF Apart
  <2> QED BY <1>10, <2>1, <2>2
<1>14. NoUsableDiscardedStep
  BY <1>1, <1>9, <1>10 DEF NoUsableDiscardedStep
<1> QED BY <1>6, <1>9, <1>11, <1>12, <1>13, <1>14 DEF StoreInv, CallsOK

(* It gives up the wait for the hot queue. *)
LEMMA TakeTimeoutOK ==
  ASSUME StoreInv, NEW k \in Takers, TakeTimeout(k)
  PROVE  StoreInv' /\ NoUsableDiscardedStep
<1>0. RecordsOK /\ TakersOK /\ DiscarderOK /\ SwitchesOK /\ HotOK /\ QueueOK(cold) /\ Apart
  BY DEF StoreInv, CallsOK
<1>1. /\ up /\ due' = TRUE /\ taker' = [taker EXCEPT ![k] = At("loop", 0)]
      /\ UNCHANGED <<asset, db, hot, cold, discarder, used, alive, epoch_data, config, up>>
  BY DEF TakeTimeout
<1>2. At("loop", 0) \in Call /\ CallOK(At("loop", 0)) /\ At("loop", 0).id = 0
  BY DEF At, Call, CallOK
<1>3. /\ TakersOK' /\ taker'[k].id = 0
      /\ \A l \in Takers \ {k} : taker'[l] = taker[l]
  BY <1>0, <1>1, <1>2, CallerMoves
<1>4. QueueOK(cold)'
  BY <1>0, <1>1, QueueKept
<1>5. RecordsOK'
  BY <1>0, <1>1, RecordsKept DEF RecordsOK
<1>6. HotOK' /\ DiscarderOK' /\ SwitchesOK' /\ DownIsEmpty'
  BY <1>0, <1>1, HotKept DEF DiscarderOK, SwitchesOK, DownIsEmpty
<1>7. Apart'
  <2>1. \A l \in Takers : taker'[l].id # 0 => taker'[l].id = taker[l].id
    BY <1>3
  <2> QED BY <1>0, <1>1, <2>1 DEF Apart
<1>8. NoUsableDiscardedStep
  BY <1>1 DEF NoUsableDiscardedStep
<1> QED BY <1>3, <1>4, <1>5, <1>6, <1>7, <1>8 DEF StoreInv, CallsOK

(* It receives from the hot queue. *)
LEMMA TakeHotOK ==
  ASSUME StoreInv, NEW k \in Takers, TakeHot(k)
  PROVE  StoreInv' /\ NoUsableDiscardedStep
<1>0. RecordsOK /\ TakersOK /\ DiscarderOK /\ SwitchesOK /\ HotOK /\ QueueOK(cold) /\ Apart
  BY DEF StoreInv, CallsOK
<1> DEFINE id == Head(hot)
<1>1. /\ up /\ hot # <<>> /\ hot' = Tail(hot) /\ taker' = [taker EXCEPT ![k] = At("received", id)]
      /\ UNCHANGED <<asset, db, cold, discarder, used, alive, due, epoch_data, config, up>>
  BY DEF TakeHot
<1>2. /\ HotOK' /\ ToSet(hot') = ToSet(hot) \ {id}
      /\ id \in ToSet(hot) /\ id \in Ids /\ id \in Nat /\ id # 0
  BY <1>0, <1>1, HotTaken
<1> HIDE DEF id
<1>3. At("received", id) \in Call /\ CallOK(At("received", id)) /\ At("received", id).id = id
  BY <1>2 DEF At, Call, CallOK
<1>4. /\ TakersOK' /\ taker'[k].id = id
      /\ \A l \in Takers \ {k} : taker'[l] = taker[l]
  BY <1>0, <1>1, <1>3, CallerMoves
<1>5. QueueOK(cold)'
  BY <1>0, <1>1, QueueKept
<1>6. RecordsOK'
  BY <1>0, <1>1, RecordsKept DEF RecordsOK
<1>7. DiscarderOK' /\ SwitchesOK' /\ DownIsEmpty'
  BY <1>0, <1>1 DEF DiscarderOK, SwitchesOK, DownIsEmpty
<1>8. Apart'
  <2>1. \A l \in Takers \ {k} : taker'[l].id # id
    BY <1>0, <1>2, <1>4 DEF Apart
  <2>2. \A l \in Takers : taker'[l].id # 0 =>
          taker'[l].id \notin used' \cup ToSet(hot') \cup ToSet(cold'.ids)
    BY <1>0, <1>1, <1>2, <1>4 DEF Apart
  <2>3. \A l, m \in Takers : taker'[l].id = taker'[m].id /\ taker'[l].id # 0 => l = m
    BY <1>0, <1>2, <1>4, <2>1 DEF Apart
  <2>4. /\ used' \cap (db' \cup ToSet(hot') \cup ToSet(cold'.ids)) = {}
        /\ ToSet(hot') \cap ToSet(cold'.ids) = {}
    BY <1>0, <1>1, <1>2 DEF Apart
  <2> QED BY <2>2, <2>3, <2>4 DEF Apart
<1>9. NoUsableDiscardedStep
  BY <1>1, <1>2, <1>4 DEF NoUsableDiscardedStep
<1> QED BY <1>2, <1>4, <1>5, <1>6, <1>7, <1>8, <1>9 DEF StoreInv, CallsOK

(* It looks at what it received. *)
LEMMA TakeReceivedOK ==
  ASSUME StoreInv, NEW k \in Takers, TakeReceived(k)
  PROVE  StoreInv' /\ NoUsableDiscardedStep
<1>0. RecordsOK /\ TakersOK /\ DiscarderOK /\ SwitchesOK /\ HotOK /\ QueueOK(cold) /\ Apart
      /\ CallsOK /\ DownIsEmpty
  BY DEF StoreInv, CallsOK
<1> DEFINE id == taker[k].id
<1>1. /\ up /\ taker[k].pc = "received" /\ due' = FALSE
      /\ UNCHANGED <<asset, db, hot, discarder, used, alive, epoch_data, config, up>>
  BY DEF TakeReceived
<1>2. PICK c \in Refreshed(cold) :
        \/ /\ Satisfies(c.cond, id) /\ cold' = c
           /\ taker' = [taker EXCEPT ![k] = At("taken", id)]
        \/ /\ ~Satisfies(c.cond, id) /\ cold' = AddNotSatisfied(c, id)
           /\ taker' = [taker EXCEPT ![k] = At("loop", 0)]
  BY DEF TakeReceived
<1>3. QueueOK(c) /\ c.ids = cold.ids
  BY <1>0, RefreshedOK
<1>4. id \in Ids /\ id \in Nat /\ id # 0
  BY <1>0, <1>1, AssetLength DEF TakersOK, CallOK, Ids
<1>5. id \notin used \cup ToSet(hot) \cup ToSet(cold.ids)
  BY <1>0, <1>4 DEF Apart
<1>6. \A l \in Takers \ {k} : taker[l].id # id
  BY <1>0, <1>4 DEF Apart
<1> HIDE DEF id
<1>7. RecordsOK'
  BY <1>0, <1>1, RecordsKept DEF RecordsOK
<1>8. HotOK' /\ DiscarderOK' /\ SwitchesOK' /\ DownIsEmpty'
  BY <1>0, <1>1, HotKept DEF DiscarderOK, SwitchesOK, DownIsEmpty
<1>9. CASE /\ cold' = c /\ taker' = [taker EXCEPT ![k] = At("taken", id)]
  <2>1. At("taken", id) \in Call /\ CallOK(At("taken", id)) /\ At("taken", id).id = id
    BY <1>4 DEF At, Call, CallOK
  <2>2. /\ TakersOK' /\ taker'[k].id = id
        /\ \A l \in Takers \ {k} : taker'[l] = taker[l]
    BY <1>0, <1>1, <1>9, <2>1, CallerMoves
  <2>3. QueueOK(cold)'
    BY <1>1, <1>3, <1>9, QueueKept
  <2>4. \A l \in Takers : taker'[l].id = taker[l].id
    BY <2>2 DEF id
  <2>5. Apart'
    BY <1>0, <1>1, <1>3, <1>9, <2>4 DEF Apart
  <2>6. NoUsableDiscardedStep
    BY <1>1, <1>3, <1>9 DEF NoUsableDiscardedStep
  <2> QED BY <1>7, <1>8, <2>2, <2>3, <2>5, <2>6 DEF StoreInv, CallsOK
<1>10. CASE /\ ~Satisfies(c.cond, id) /\ cold' = AddNotSatisfied(c, id)
            /\ taker' = [taker EXCEPT ![k] = At("loop", 0)]
  <2>1. At("loop", 0) \in Call /\ CallOK(At("loop", 0)) /\ At("loop", 0).id = 0
    BY DEF At, Call, CallOK
  <2>2. /\ TakersOK' /\ taker'[k].id = 0
        /\ \A l \in Takers \ {k} : taker'[l] = taker[l]
    BY <1>0, <1>1, <1>10, <2>1, CallerMoves
  <2>3. QueueOK(cold') /\ ToSet(cold'.ids) = ToSet(cold.ids) \cup {id}
    BY <1>0, <1>3, <1>4, <1>5, <1>10, AddNotSatisfiedOK
  <2>4. QueueOK(cold)'
    BY <1>1, <2>3, QueueKept
  <2>5. used' \cap (db' \cup ToSet(hot') \cup ToSet(cold'.ids)) = {}
    BY <1>0, <1>1, <1>5, <2>3 DEF Apart
  <2>6. ToSet(hot') \cap ToSet(cold'.ids) = {}
    BY <1>0, <1>1, <1>5, <2>3 DEF Apart
  <2>7. \A l \in Takers : taker'[l].id # 0 =>
          taker'[l].id \notin used' \cup ToSet(hot') \cup ToSet(cold'.ids)
    BY <1>0, <1>1, <1>6, <2>2, <2>3 DEF Apart
  <2>8. \A l, m \in Takers : taker'[l].id = taker'[m].id /\ taker'[l].id # 0 => l = m
    BY <1>0, <2>2 DEF Apart
  <2>9. Apart'
    BY <2>5, <2>6, <2>7, <2>8 DEF Apart
  <2>10. NoUsableDiscardedStep
    BY <1>1, <2>3 DEF NoUsableDiscardedStep
  <2> QED BY <1>7, <1>8, <2>2, <2>4, <2>9, <2>10 DEF StoreInv, CallsOK
<1> QED BY <1>2, <1>9, <1>10

(* It deletes the asset and returns. *)
LEMMA TakeReturnOK ==
  ASSUME StoreInv, NEW k \in Takers, TakeReturn(k)
  PROVE  StoreInv' /\ NoUsableDiscardedStep
<1>0. RecordsOK /\ TakersOK /\ DiscarderOK /\ SwitchesOK /\ HotOK /\ QueueOK(cold) /\ Apart
      /\ CallsOK /\ DownIsEmpty
  BY DEF StoreInv, CallsOK
<1> DEFINE id == taker[k].id
<1>1. /\ up /\ taker[k].pc = "taken" /\ db' = db \ {id} /\ used' = used \cup {id}
      /\ taker' = [taker EXCEPT ![k] = Idle]
      /\ UNCHANGED <<asset, hot, cold, discarder, alive, due, epoch_data, config, up>>
  BY DEF TakeReturn
<1>2. id \in Ids /\ id # 0
  BY <1>0, <1>1 DEF TakersOK, CallOK
<1>3. id \notin used \cup ToSet(hot) \cup ToSet(cold.ids)
  BY <1>0, <1>2 DEF Apart
<1>4. \A l \in Takers \ {k} : taker[l].id # id
  BY <1>0, <1>2 DEF Apart
<1> HIDE DEF id
<1>5. Idle \in Call /\ CallOK(Idle) /\ Idle.id = 0
  BY DEF Idle, Call, CallOK
<1>6. /\ TakersOK' /\ taker'[k].id = 0
      /\ \A l \in Takers \ {k} : taker'[l] = taker[l]
  BY <1>0, <1>1, <1>5, CallerMoves
<1>7. RecordsOK'
  <2>1. used' \subseteq Ids /\ db' \subseteq db
    BY <1>0, <1>1, <1>2 DEF RecordsOK
  <2> QED BY <1>0, <1>1, <2>1, RecordsKept
<1>8. HotOK' /\ DiscarderOK' /\ SwitchesOK' /\ DownIsEmpty'
  BY <1>0, <1>1, HotKept DEF DiscarderOK, SwitchesOK, DownIsEmpty
<1>9. QueueOK(cold)'
  BY <1>0, <1>1, QueueKept
<1>10. Apart'
  <2>1. used' \cap (db' \cup ToSet(hot') \cup ToSet(cold'.ids)) = {}
    BY <1>0, <1>1, <1>3 DEF Apart
  <2>2. ToSet(hot') \cap ToSet(cold'.ids) = {}
    BY <1>0, <1>1 DEF Apart
  <2>3. \A l \in Takers : taker'[l].id # 0 =>
          taker'[l].id \notin used' \cup ToSet(hot') \cup ToSet(cold'.ids)
    BY <1>0, <1>1, <1>4, <1>6 DEF Apart
  <2>4. \A l, m \in Takers : taker'[l].id = taker'[m].id /\ taker'[l].id # 0 => l = m
    BY <1>0, <1>6 DEF Apart
  <2> QED BY <2>1, <2>2, <2>3, <2>4 DEF Apart
<1>11. NoUsableDiscardedStep
  BY <1>1 DEF NoUsableDiscardedStep
<1> QED BY <1>6, <1>7, <1>8, <1>9, <1>10, <1>11 DEF StoreInv, CallsOK

(* The set of alive participants changes. *)
LEMMA AliveChangeOK ==
  ASSUME StoreInv, AliveChange
  PROVE  StoreInv' /\ NoUsableDiscardedStep
<1>0. RecordsOK /\ TakersOK /\ DiscarderOK /\ SwitchesOK /\ HotOK /\ QueueOK(cold) /\ Apart
      /\ CallsOK /\ DownIsEmpty
  BY DEF StoreInv, CallsOK
<1>1. /\ up
      /\ UNCHANGED <<asset, db, hot, cold, taker, discarder, used, due, epoch_data, config, up>>
  BY DEF AliveChange, storeVars
<1>2. SwitchesOK'
  <2>1. PICK p \in Peers : alive' \in {alive \cup {p}, alive \ {p}}
    BY DEF AliveChange
  <2> QED BY <1>0, <1>1, <2>1 DEF SwitchesOK
<1>3. RecordsOK'
  BY <1>0, <1>1, RecordsKept DEF RecordsOK
<1>4. TakersOK' /\ HotOK' /\ QueueOK(cold)'
  BY <1>0, <1>1, DiscarderMoves, HotKept, QueueKept
<1>5. DiscarderOK' /\ Apart' /\ DownIsEmpty'
  BY <1>0, <1>1 DEF DiscarderOK, Apart, DownIsEmpty
<1>6. NoUsableDiscardedStep
  BY <1>1 DEF NoUsableDiscardedStep
<1> QED BY <1>2, <1>3, <1>4, <1>5, <1>6 DEF StoreInv, CallsOK

(* The background task begins to discard. *)
LEMMA DiscardCallOK ==
  ASSUME StoreInv, DiscardCall
  PROVE  StoreInv' /\ NoUsableDiscardedStep
<1>0. RecordsOK /\ TakersOK /\ DiscarderOK /\ SwitchesOK /\ HotOK /\ QueueOK(cold) /\ Apart
      /\ CallsOK /\ DownIsEmpty
  BY DEF StoreInv, CallsOK
<1>1. /\ up /\ cold' = UpdateConditionValue(cold) /\ due' = FALSE
      /\ discarder' = [pc |-> "cold", left |-> DiscardCount, removed |-> {}]
      /\ UNCHANGED <<asset, db, hot, taker, used, alive, epoch_data, config, up>>
  BY DEF DiscardCall
<1>2. QueueOK(cold') /\ cold'.ids = cold.ids
  BY <1>0, <1>1, UpdateOK DEF SwitchesOK
<1>3. RecordsOK'
  BY <1>0, <1>1, RecordsKept DEF RecordsOK
<1>4. TakersOK' /\ HotOK' /\ QueueOK(cold)'
  BY <1>0, <1>1, <1>2, DiscarderMoves, HotKept, QueueKept
<1>5. DiscarderOK' /\ SwitchesOK'
  BY <1>0, <1>1, StoreAssumption DEF DiscarderOK, SwitchesOK
<1>6. Apart' /\ DownIsEmpty'
  BY <1>0, <1>1, <1>2 DEF Apart, DownIsEmpty
<1>7. NoUsableDiscardedStep
  BY <1>1, <1>2 DEF NoUsableDiscardedStep
<1> QED BY <1>3, <1>4, <1>5, <1>6, <1>7 DEF StoreInv, CallsOK

(* It takes from the cold queue. *)
LEMMA DiscardColdOK ==
  ASSUME StoreInv, DiscardCold
  PROVE  StoreInv' /\ NoUsableDiscardedStep
<1>0. RecordsOK /\ TakersOK /\ DiscarderOK /\ SwitchesOK /\ HotOK /\ QueueOK(cold) /\ Apart
      /\ CallsOK /\ DownIsEmpty
  BY DEF StoreInv, CallsOK
<1>1. up /\ UNCHANGED <<asset, db, hot, taker, used, alive, epoch_data, config, up>>
  BY DEF DiscardCold
<1>2. RecordsOK'
  BY <1>0, <1>1, RecordsKept DEF RecordsOK
<1>3. TakersOK' /\ HotOK' /\ DownIsEmpty'
  BY <1>0, <1>1, DiscarderMoves, HotKept DEF DownIsEmpty
<1>4. CASE discarder' = [discarder EXCEPT !.pc = "hot"] /\ UNCHANGED <<cold, due>>
  <2>1. DiscarderOK' /\ SwitchesOK'
    BY <1>0, <1>1, <1>4 DEF DiscarderOK, SwitchesOK
  <2>2. QueueOK(cold)' /\ Apart'
    BY <1>0, <1>1, <1>4, QueueKept DEF Apart
  <2>3. NoUsableDiscardedStep
    BY <1>1, <1>4 DEF NoUsableDiscardedStep
  <2> QED BY <1>2, <1>3, <2>1, <2>2, <2>3 DEF StoreInv, CallsOK
<1>5. ASSUME discarder.left > 0, due' = FALSE, NEW c \in Refreshed(cold),
             cold' = ColdDiscard(c).cold,
             discarder' = [pc |-> ColdDiscard(c).pc,
                           removed |-> discarder.removed \cup ColdDiscard(c).removed,
                           left |-> IF ColdDiscard(c).pc = "hot" THEN discarder.left
                                    ELSE discarder.left - 1]
      PROVE  StoreInv' /\ NoUsableDiscardedStep
  <2> DEFINE r == ColdDiscard(c)
  <2>1. QueueOK(c) /\ c.ids = cold.ids
    BY <1>0, RefreshedOK
  <2>2. DiscardShape(c, r) /\ cold' = r.cold
    BY <1>0, <1>5, <2>1, ColdDiscardOK
  <2>3. discarder' = [pc |-> r.pc, removed |-> discarder.removed \cup r.removed,
                      left |-> IF r.pc = "hot" THEN discarder.left ELSE discarder.left - 1]
    BY <1>5
  <2> HIDE DEF r
  <2>4. QueueOK(cold)'
    BY <1>1, <2>2, QueueKept DEF DiscardShape
  <2>5. PICK gone \in SUBSET ToSet(cold.ids) :
          /\ ToSet(cold'.ids) = ToSet(cold.ids) \ gone /\ r.removed = gone
          /\ \A id \in gone : ~Satisfies(cold'.cond, id)
    <3>1. CASE r.removed = {} /\ ToSet(r.cold.ids) = ToSet(c.ids)
      <4> WITNESS {} \in SUBSET ToSet(cold.ids)
      <4> QED BY <2>1, <2>2, <3>1
    <3>2. ASSUME NEW id \in ToSet(c.ids), r.removed = {id},
                 ToSet(r.cold.ids) = ToSet(c.ids) \ {id}, ~Satisfies(c.cond, id)
          PROVE  \E gone \in SUBSET ToSet(cold.ids) :
                   /\ ToSet(cold'.ids) = ToSet(cold.ids) \ gone /\ r.removed = gone
                   /\ \A j \in gone : ~Satisfies(cold'.cond, j)
      <4>1. {id} \in SUBSET ToSet(cold.ids)
        BY <2>1
      <4>2. /\ ToSet(cold'.ids) = ToSet(cold.ids) \ {id} /\ r.removed = {id}
            /\ \A j \in {id} : ~Satisfies(cold'.cond, j)
        BY <2>1, <2>2, <3>2 DEF DiscardShape
      <4> QED BY <4>1, <4>2
    <3> QED BY <2>2, <3>1, <3>2 DEF DiscardShape
  <2>6. ToSet(cold.ids) \subseteq Nat
    BY <1>0, AssetLength DEF QueueOK, Ids
  <2>7. DiscarderOK' /\ SwitchesOK'
    <3>1. r.pc \in {"cold", "hot"} /\ r.removed \in SUBSET Nat
      BY <2>2, <2>5, <2>6 DEF DiscardShape
    <3>2. discarder.left \in Nat /\ discarder.removed \in SUBSET Nat
      BY <1>0 DEF DiscarderOK
    <3>3. (IF r.pc = "hot" THEN discarder.left ELSE discarder.left - 1) \in Nat
      BY <1>5, <3>2
    <3>4. \A n \in Nat : [pc |-> r.pc, removed |-> discarder.removed \cup r.removed,
                          left |-> n]
                         \in [pc : {"idle", "cold", "hot", "delete"}, left : Nat,
                             removed : SUBSET Nat]
      BY <3>1, <3>2
    <3>5. DiscarderOK'
      BY <2>3, <3>3, <3>4 DEF DiscarderOK
    <3> QED BY <1>0, <1>1, <1>5, <3>5 DEF SwitchesOK
  <2>8. Apart'
    BY <1>0, <1>1, <2>5 DEF Apart
  <2>9. NoUsableDiscardedStep
    BY <1>1, <2>5 DEF NoUsableDiscardedStep
  <2> QED BY <1>2, <1>3, <2>4, <2>7, <2>8, <2>9 DEF StoreInv, CallsOK
<1> QED BY <1>4, <1>5 DEF DiscardCold

(* It takes from the hot queue. *)
LEMMA DiscardHotOK ==
  ASSUME StoreInv, DiscardHot
  PROVE  StoreInv' /\ NoUsableDiscardedStep
<1>0. RecordsOK /\ TakersOK /\ DiscarderOK /\ SwitchesOK /\ HotOK /\ QueueOK(cold) /\ Apart
      /\ CallsOK /\ DownIsEmpty
  BY DEF StoreInv, CallsOK
<1>1. up /\ UNCHANGED <<asset, db, taker, used, alive, epoch_data, config, up>>
  BY DEF DiscardHot
<1>2. RecordsOK'
  BY <1>0, <1>1, RecordsKept DEF RecordsOK
<1>3. TakersOK' /\ DownIsEmpty'
  BY <1>0, <1>1, DiscarderMoves DEF DownIsEmpty
<1>4. CASE discarder' = [discarder EXCEPT !.pc = "delete"] /\ UNCHANGED <<hot, cold, due>>
  <2>1. DiscarderOK' /\ SwitchesOK'
    BY <1>0, <1>1, <1>4 DEF DiscarderOK, SwitchesOK
  <2>2. HotOK' /\ QueueOK(cold)' /\ Apart'
    BY <1>0, <1>1, <1>4, HotKept, QueueKept DEF Apart
  <2>3. NoUsableDiscardedStep
    BY <1>1, <1>4 DEF NoUsableDiscardedStep
  <2> QED BY <1>2, <1>3, <2>1, <2>2, <2>3 DEF StoreInv, CallsOK
<1>5. ASSUME discarder.left > 0, hot # <<>>, hot' = Tail(hot), due' = FALSE,
             NEW c \in Refreshed(cold), cold' = AddIfSatisfied(c, Head(hot)),
             discarder' = [discarder EXCEPT !.left = @ - 1]
      PROVE  StoreInv' /\ NoUsableDiscardedStep
  <2> DEFINE id == Head(hot)
  <2>1. QueueOK(c) /\ c.ids = cold.ids
    BY <1>0, RefreshedOK
  <2>2. /\ HotOK' /\ ToSet(hot') = ToSet(hot) \ {id} /\ id \in ToSet(hot) /\ id \in Ids
    BY <1>0, <1>1, <1>5, HotTaken
  <2>3. id \notin ToSet(cold.ids) /\ id \notin used /\ \A l \in Takers : taker[l].id # id
    <3>1. id # 0
      BY <2>2, <1>0, AssetLength DEF Ids
    <3> QED BY <1>0, <2>2, <3>1 DEF Apart
  <2>4. /\ QueueOK(cold') /\ cold'.cond = c.cond
        /\ \/ ToSet(cold'.ids) = ToSet(cold.ids) \cup {id}
           \/ ToSet(cold'.ids) = ToSet(cold.ids) /\ ~Satisfies(c.cond, id)
    BY <1>0, <1>5, <2>1, <2>2, <2>3, AddIfSatisfiedOK
  <2> HIDE DEF id
  <2>5. QueueOK(cold)'
    BY <1>1, <2>4, QueueKept
  <2>6. DiscarderOK' /\ SwitchesOK'
    <3>1. discarder.left - 1 \in Nat
      BY <1>0, <1>5 DEF DiscarderOK
    <3>2. DiscarderOK'
      BY <1>0, <1>5, <3>1 DEF DiscarderOK
    <3> QED BY <1>0, <1>1, <1>5, <3>2 DEF SwitchesOK
  <2>7. Apart'
    <3>1. used' \cap (db' \cup ToSet(hot') \cup ToSet(cold'.ids)) = {}
      BY <1>0, <1>1, <2>2, <2>3, <2>4 DEF Apart
    <3>2. ToSet(hot') \cap ToSet(cold'.ids) = {}
      BY <1>0, <2>2, <2>4 DEF Apart
    <3>3. \A l \in Takers : taker'[l].id # 0 =>
            taker'[l].id \notin used' \cup ToSet(hot') \cup ToSet(cold'.ids)
      BY <1>0, <1>1, <2>2, <2>3, <2>4 DEF Apart
    <3>4. \A l, m \in Takers : taker'[l].id = taker'[m].id /\ taker'[l].id # 0 => l = m
      BY <1>0, <1>1 DEF Apart
    <3> QED BY <3>1, <3>2, <3>3, <3>4 DEF Apart
  <2>8. NoUsableDiscardedStep
    BY <2>2, <2>4 DEF NoUsableDiscardedStep
  <2> QED BY <1>2, <1>3, <2>2, <2>5, <2>6, <2>7, <2>8 DEF StoreInv, CallsOK
<1> QED BY <1>4, <1>5 DEF DiscardHot

(* It deletes what it discards. *)
LEMMA DiscardDeleteOK ==
  ASSUME StoreInv, DiscardDelete
  PROVE  StoreInv' /\ NoUsableDiscardedStep
<1>0. RecordsOK /\ TakersOK /\ DiscarderOK /\ SwitchesOK /\ HotOK /\ QueueOK(cold) /\ Apart
      /\ CallsOK /\ DownIsEmpty
  BY DEF StoreInv, CallsOK
<1>1. /\ up /\ db' = db \ discarder.removed /\ discarder' = NoCall
      /\ UNCHANGED <<asset, hot, cold, taker, used, alive, due, epoch_data, config, up>>
  BY DEF DiscardDelete
<1>2. RecordsOK'
  BY <1>0, <1>1, RecordsKept DEF RecordsOK
<1>3. TakersOK' /\ HotOK' /\ QueueOK(cold)'
  BY <1>0, <1>1, DiscarderMoves, HotKept, QueueKept
<1>4. DiscarderOK' /\ SwitchesOK'
  BY <1>0, <1>1 DEF DiscarderOK, SwitchesOK, NoCall
<1>5. Apart' /\ DownIsEmpty'
  BY <1>0, <1>1 DEF Apart, DownIsEmpty
<1>6. NoUsableDiscardedStep
  BY <1>1 DEF NoUsableDiscardedStep
<1> QED BY <1>2, <1>3, <1>4, <1>5, <1>6 DEF StoreInv, CallsOK

(* Nothing in memory survives a crash; the database and its EpochData do. *)
LEMMA CrashOK ==
  ASSUME StoreInv, Crash
  PROVE  StoreInv' /\ NoUsableDiscardedStep
<1>0. RecordsOK /\ TakersOK /\ DiscarderOK /\ SwitchesOK /\ HotOK /\ QueueOK(cold) /\ Apart
      /\ CallsOK /\ DownIsEmpty
  BY DEF StoreInv, CallsOK
<1>1. /\ up' = FALSE /\ hot' = <<>> /\ cold' = EmptyCold /\ discarder' = NoCall
      /\ taker' = [k \in Takers |-> Idle]
      /\ UNCHANGED <<asset, db, used, alive, due, epoch_data>>
  BY DEF Crash
<1>2. config' \in Config
  <2>1. CASE config' = config
    BY <1>0, <2>1 DEF RecordsOK
  <2>2. CASE config' = [config EXCEPT !.epoch = @ + 1]
    <3>1. config \in Config /\ config.epoch + 1 \in Nat
      BY <1>0 DEF RecordsOK, Config
    <3> QED BY <2>2, <3>1 DEF Config
  <2>3. ASSUME NEW p \in Peers, config' = [config EXCEPT !.keys[p] = @ + 1]
        PROVE  config' \in Config
    <3>1. config.keys \in [Peers -> Nat] /\ config \in Config
      BY <1>0 DEF RecordsOK, Config
    <3>2. config.keys[p] + 1 \in Nat
      BY <3>1
    <3>3. [config.keys EXCEPT ![p] = config.keys[p] + 1] \in [Peers -> Nat]
      BY <3>1, <3>2
    <3> QED BY <2>3, <3>1, <3>3 DEF Config
  <2> QED BY <2>1, <2>2, <2>3 DEF Crash
<1>3. RecordsOK'
  BY <1>0, <1>1, <1>2 DEF RecordsOK, Ids
<1>4. Idle \in Call /\ CallOK(Idle) /\ Idle.id = 0
  BY DEF Idle, Call, CallOK
<1>5. taker' \in [Takers -> Call] /\ \A k \in Takers : taker'[k] = Idle /\ taker'[k].id = 0
  BY <1>1, <1>4
<1>6. TakersOK'
  BY <1>4, <1>5 DEF TakersOK, CallOK
<1>7. DiscarderOK' /\ SwitchesOK'
  BY <1>0, <1>1 DEF DiscarderOK, SwitchesOK, NoCall
<1>8. HotOK' /\ ToSet(hot') = {}
  BY <1>1 DEF HotOK, ToSet, IsInjective
<1>9. QueueOK(cold)' /\ ToSet(cold'.ids) = {}
  BY <1>0, <1>1, EmptyColdOK, QueueKept
<1>10. Apart'
  BY <1>0, <1>1, <1>5, <1>8, <1>9 DEF Apart
<1>11. DownIsEmpty' /\ NoUsableDiscardedStep
  BY <1>1 DEF DownIsEmpty, NoUsableDiscardedStep
<1> QED BY <1>3, <1>6, <1>7, <1>8, <1>9, <1>10, <1>11 DEF StoreInv, CallsOK

(* The cleanup keeps only what is valid under the new configuration. *)
LEMMA CleanupSound ==
  ASSUME RecordsOK
  PROVE  /\ CleanupBehavior(epoch_data, config, db) \subseteq db
         /\ \A id \in CleanupBehavior(epoch_data, config, db) :
              /\ asset[id].epoch = config.epoch
              /\ \A p \in asset[id].participants : asset[id].keys[p] = config.keys[p]
<1>1. CASE epoch_data.epoch # config.epoch
  BY <1>1 DEF CleanupBehavior
<1>2. CASE epoch_data.epoch = config.epoch
  <2>1. CleanupBehavior(epoch_data, config, db) =
          {id \in db : asset[id].participants
                         \subseteq {p \in Peers : epoch_data.keys[p] = config.keys[p]}}
    BY <1>2 DEF CleanupBehavior
  <2> QED BY <1>2, <2>1 DEF RecordsOK
<1> QED BY <1>1, <1>2

(* The clean up at the start deletes an asset. *)
LEMMA CleanupDeleteOK ==
  ASSUME StoreInv, CleanupDelete
  PROVE  StoreInv' /\ NoUsableDiscardedStep
<1>0. RecordsOK /\ TakersOK /\ DiscarderOK /\ SwitchesOK /\ HotOK /\ QueueOK(cold) /\ Apart
      /\ CallsOK /\ DownIsEmpty
  BY DEF StoreInv, CallsOK
<1>1. /\ ~up /\ db' = CleanupBehavior(epoch_data, config, db)
      /\ UNCHANGED <<asset, hot, cold, taker, discarder, used, alive, due, epoch_data, config,
                     up>>
  BY DEF CleanupDelete
<1>2. RecordsOK'
  <2>1. db' \subseteq db
    BY <1>0, <1>1, CleanupSound
  <2> QED BY <1>0, <1>1, <2>1, RecordsKept DEF RecordsOK
<1>3. TakersOK' /\ HotOK' /\ QueueOK(cold)'
  BY <1>0, <1>1, DiscarderMoves, HotKept, QueueKept
<1>4. DiscarderOK' /\ SwitchesOK' /\ DownIsEmpty'
  BY <1>0, <1>1 DEF DiscarderOK, SwitchesOK, DownIsEmpty
<1>5. Apart'
  <2>1. db' \subseteq db
    BY <1>0, <1>1, CleanupSound
  <2> QED BY <1>0, <1>1, <2>1 DEF Apart
<1>6. NoUsableDiscardedStep
  BY <1>1 DEF NoUsableDiscardedStep
<1> QED BY <1>2, <1>3, <1>4, <1>5, <1>6 DEF StoreInv, CallsOK

(* The node restarts: the queues are filled from the database. *)
LEMMA RestartOK ==
  ASSUME StoreInv, Restart
  PROVE  StoreInv' /\ NoUsableDiscardedStep
<1>0. RecordsOK /\ TakersOK /\ DiscarderOK /\ SwitchesOK /\ HotOK /\ QueueOK(cold) /\ Apart
      /\ CallsOK /\ DownIsEmpty
  BY DEF StoreInv, CallsOK
<1>1. /\ ~up /\ up' = TRUE /\ db' = CleanupBehavior(epoch_data, config, db)
      /\ epoch_data' = config /\ hot' \in InKeyOrder(db') /\ due' = FALSE
      /\ UNCHANGED <<asset, cold, taker, discarder, used, alive, config>>
  BY DEF Restart
<1>2. /\ db' \subseteq db
      /\ \A id \in db' :
           /\ asset[id].epoch = config.epoch
           /\ \A p \in asset[id].participants : asset[id].keys[p] = config.keys[p]
  BY <1>0, <1>1, CleanupSound
<1>3. RecordsOK'
  BY <1>0, <1>1, <1>2 DEF RecordsOK, Ids
<1>4. db' \subseteq Ids /\ Ids' = Ids /\ Ids \subseteq Nat /\ IsFiniteSet(db')
  <2>1. db' \subseteq Ids /\ Ids' = Ids /\ Ids \subseteq Nat
    <3>1. Len(asset) \in Nat /\ asset' = asset
      BY <1>0, <1>1, AssetLength
    <3>2. Ids' = Ids /\ Ids \subseteq Nat
      BY <3>1 DEF Ids
    <3>3. db' \subseteq Ids
      BY <1>0, <1>2 DEF RecordsOK
    <3> QED BY <3>2, <3>3
  <2>2. IsFiniteSet(Ids)
    <3>1. 1 \in Int /\ Len(asset) \in Int
      BY <1>0, AssetLength
    <3> QED BY <3>1, FS_Interval DEF Ids
  <2> QED BY <2>1, <2>2, FS_Subset
<1>5. hot' \in Seq(Nat) /\ IsInjective(hot') /\ ToSet(hot') \subseteq db'
  <2> DEFINE n == Cardinality(db')
  <2>1. n \in Nat
    BY <1>4, FS_CardinalityType
  <2>2. hot' \in [1..n -> db'] /\ \A i, j \in 1..n : i < j => hot'[i] < hot'[j]
    BY <1>1 DEF InKeyOrder
  <2> HIDE DEF n
  <2>3. hot' \in [1..n -> Nat] /\ DOMAIN hot' = 1..n
    BY <1>4, <2>2
  <2>4. hot' \in Seq(Nat)
    BY <2>1, <2>3
  <2>5. \A i, j \in 1..n : hot'[i] \in Nat /\ (hot'[i] = hot'[j] => i = j)
    BY <2>1, <2>2, <2>3
  <2>6. IsInjective(hot')
    BY <2>3, <2>5 DEF IsInjective
  <2>7. ToSet(hot') \subseteq db'
    BY <2>2, <2>3 DEF ToSet
  <2> QED BY <2>4, <2>6, <2>7
<1>6. HotOK'
  BY <1>4, <1>5 DEF HotOK
<1>7. ToSet(cold.ids) = {} /\ ToSet(hot) = {} /\ \A k \in Takers : taker[k].id = 0
  <2>1. cold = EmptyCold /\ hot = <<>> /\ taker = [k \in Takers |-> Idle]
    BY <1>0, <1>1 DEF DownIsEmpty
  <2>2. ToSet(cold.ids) = {}
    BY <1>0, <2>1, EmptyColdOK
  <2>3. ToSet(hot) = {}
    BY <2>1 DEF ToSet
  <2> QED BY <2>1, <2>2, <2>3 DEF Idle
<1>8. TakersOK' /\ QueueOK(cold)'
  BY <1>0, <1>1, DiscarderMoves, QueueKept
<1>9. DiscarderOK' /\ SwitchesOK' /\ DownIsEmpty'
  BY <1>0, <1>1 DEF DiscarderOK, SwitchesOK, DownIsEmpty
<1>10. Apart'
  BY <1>0, <1>1, <1>2, <1>5, <1>7 DEF Apart
<1>11. NoUsableDiscardedStep
  BY <1>7 DEF NoUsableDiscardedStep
<1> QED BY <1>3, <1>6, <1>8, <1>9, <1>10, <1>11 DEF StoreInv, CallsOK

-----------------------------------------------------------------------------
(* The theorems. *)

(* Every step preserves the invariant and discards nothing usable. *)
LEMMA StepOK ==
  ASSUME StoreInv, [Next]_vars
  PROVE  StoreInv' /\ (NoUsableDiscardedStep \/ vars' = vars)
<1>1. CASE UNCHANGED vars
  <2>1. UNCHANGED <<asset, db, hot, cold, taker, discarder, used, alive, due, epoch_data,
                    config, up>>
    BY <1>1 DEF vars, storeVars
  <2>2. RecordsOK' /\ TakersOK' /\ HotOK' /\ QueueOK(cold)'
    <3>1. RecordsOK'
      BY <2>1, RecordsKept DEF StoreInv, RecordsOK
    <3> QED BY <2>1, <3>1, DiscarderMoves, HotKept, QueueKept DEF StoreInv, CallsOK
  <2>3. DiscarderOK' /\ SwitchesOK' /\ Apart' /\ DownIsEmpty'
    BY <2>1 DEF StoreInv, CallsOK, DiscarderOK, SwitchesOK, Apart, DownIsEmpty
  <2> QED BY <1>1, <2>2, <2>3 DEF StoreInv, CallsOK
<1>2. CASE Next
  BY <1>2, AddOwnedOK, AliveChangeOK, TakeCallOK, TakeColdOK, TakeTimeoutOK, TakeHotOK,
     TakeReceivedOK, TakeReturnOK, DiscardCallOK, DiscardColdOK, DiscardHotOK,
     DiscardDeleteOK, CrashOK, CleanupDeleteOK, RestartOK DEF Next
<1> QED BY <1>1, <1>2

(* The invariant contains what is claimed of the store. *)
LEMMA StoreInvImplies == StoreInv => StoreSound
<1> SUFFICES ASSUME StoreInv PROVE StoreSound
  OBVIOUS
<1>0. RecordsOK /\ TakersOK /\ DiscarderOK /\ SwitchesOK /\ HotOK /\ QueueOK(cold) /\ Apart
  BY DEF StoreInv, CallsOK
<1>1. TypeOK
  <2>1. db \subseteq Ids /\ ToSet(hot) \subseteq Ids /\ ToSet(cold.ids) \subseteq Ids
    BY <1>0 DEF RecordsOK, HotOK, QueueOK
  <2>2. cold.ready \in 0..cold.available /\ cold.available \in 0..Len(cold.ids)
        /\ cold.cond \subseteq Peers
    BY <1>0 DEF QueueOK, ColdQueue
  <2>3. \A k \in Takers : taker[k].pc \in {"idle", "loop", "wait", "received", "taken"}
    BY <1>0 DEF TakersOK, Call
  <2>4. discarder.pc \in {"idle", "cold", "hot", "delete"}
    BY <1>0 DEF DiscarderOK
  <2> QED BY <1>0, <2>1, <2>2, <2>3, <2>4 DEF TypeOK, SwitchesOK
<1>2. UsedOnce
  BY <1>0 DEF UsedOnce, Apart, HotOK, QueueOK, InFlight
<1>3. BarriersSound
  BY <1>0 DEF BarriersSound, QueueOK
<1>4. OwnedAssetsCurrent
  BY <1>0 DEF OwnedAssetsCurrent, RecordsOK
<1> QED BY <1>1, <1>2, <1>3, <1>4 DEF StoreSound

(* For any peers, callers, assets and number of crashes: the hot channel, the cold queue
   and the calls of take_owned never hold an asset twice, a used asset is nowhere, not
   even in the database, the barriers of the cold queue are true of every element, and a
   running node keeps no asset of another epoch or of a replaced participant. *)
THEOREM StoreSoundAlways == Spec => []StoreSound
<1>1. Init => StoreInv
  BY InitOK
<1>2. StoreInv /\ [Next]_vars => StoreInv'
  BY StepOK
<1>3. StoreInv => StoreSound
  BY StoreInvImplies
<1> QED BY <1>1, <1>2, <1>3, PTL DEF Spec

(* No step of a running node drops from memory an asset that satisfies the condition
   value in use: take_owned passes it to its caller, and maybe_discard_owned discards
   from behind the barrier or what it has just tested. *)
THEOREM NoUsableDiscardedAlways == Spec => NoUsableDiscarded
<1>1. Init => StoreInv
  BY InitOK
<1>2. StoreInv /\ [Next]_vars => StoreInv' /\ [NoUsableDiscardedStep]_vars
  BY StepOK
<1> QED BY <1>1, <1>2, PTL DEF Spec, NoUsableDiscarded
=============================================================================
