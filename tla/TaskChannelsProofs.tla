------------------------- MODULE TaskChannelsProofs -------------------------
(***************************************************************************)
(* Proofs about the channels of MPC tasks, for any nodes, tasks and cache  *)
(* size: the channel maps of every node stay consistent, and a leader that *)
(* waits for its followers succeeds only after all of them.                *)
(***************************************************************************)
EXTENDS TaskChannels, FiniteSetTheorems, SequenceTheorems, TLAPS

-----------------------------------------------------------------------------
(* Queues without repetition. *)

(* The tail of a sequence without repetitions. *)
LEMMA TailFacts ==
  ASSUME NEW S, NEW s \in Seq(S), s # <<>>, IsInjective(s)
  PROVE  /\ Tail(s) \in Seq(S) /\ Len(Tail(s)) = Len(s) - 1
         /\ IsInjective(Tail(s))
         /\ Head(s) \in ToSet(s) /\ ToSet(Tail(s)) = ToSet(s) \ {Head(s)}
<1>1. /\ Tail(s) \in Seq(S) /\ Len(Tail(s)) = Len(s) - 1 /\ Len(s) \in Nat \ {0}
      /\ \A i \in 1..Len(s) - 1 : Tail(s)[i] = s[i + 1]
      /\ Head(s) = s[1]
  BY SMT
<1>2. DOMAIN Tail(s) = 1..Len(s) - 1 /\ DOMAIN s = 1..Len(s)
  BY <1>1
<1>3. IsInjective(Tail(s))
  BY <1>1, <1>2 DEF IsInjective
<1>4. Head(s) \in ToSet(s)
  BY <1>1, <1>2 DEF ToSet
<1>5. ASSUME NEW x \in ToSet(Tail(s)) PROVE x \in ToSet(s) \ {Head(s)}
  BY <1>1, <1>2 DEF ToSet, IsInjective
<1>6. ASSUME NEW x \in ToSet(s) \ {Head(s)} PROVE x \in ToSet(Tail(s))
  <2>1. PICK i \in 1..Len(s) : x = s[i]
    BY <1>2 DEF ToSet
  <2>2. i # 1 /\ i - 1 \in 1..Len(s) - 1
    BY <1>1, <2>1
  <2>3. Tail(s)[i - 1] = x
    BY <1>1, <2>1, <2>2
  <2> QED BY <1>2, <2>2, <2>3 DEF ToSet
<1> QED BY <1>1, <1>3, <1>4, <1>5, <1>6

(* A sequence with a new element at its end. *)
LEMMA AppendFacts ==
  ASSUME NEW S, NEW s \in Seq(S), IsInjective(s), NEW x \in S, x \notin ToSet(s)
  PROVE  /\ Append(s, x) \in Seq(S) /\ Len(Append(s, x)) = Len(s) + 1
         /\ IsInjective(Append(s, x))
         /\ ToSet(Append(s, x)) = ToSet(s) \cup {x}
<1>1. /\ Append(s, x) \in Seq(S) /\ Len(Append(s, x)) = Len(s) + 1 /\ Len(s) \in Nat
      /\ \A i \in 1..Len(s) : Append(s, x)[i] = s[i]
      /\ Append(s, x)[Len(s) + 1] = x
  BY SMT
<1>2. DOMAIN Append(s, x) = 1..Len(s) + 1 /\ DOMAIN s = 1..Len(s)
  BY <1>1
<1>3. \A i \in 1..Len(s) : s[i] \in ToSet(s)
  BY <1>2 DEF ToSet
<1>4. IsInjective(Append(s, x))
  <2>1. SUFFICES ASSUME NEW i \in 1..Len(s) + 1, NEW j \in 1..Len(s) + 1,
                        Append(s, x)[i] = Append(s, x)[j]
                 PROVE  i = j
    BY <1>2 DEF IsInjective
  <2>2. CASE i \in 1..Len(s) /\ j \in 1..Len(s)
    BY <1>1, <1>2, <2>1, <2>2 DEF IsInjective
  <2>3. CASE i = Len(s) + 1
    BY <1>1, <1>3, <2>1, <2>3
  <2>4. CASE j = Len(s) + 1
    BY <1>1, <1>3, <2>1, <2>4
  <2> QED BY <1>1, <2>2, <2>3, <2>4
<1>5. ASSUME NEW y \in ToSet(Append(s, x)) PROVE y \in ToSet(s) \cup {x}
  BY <1>1, <1>2 DEF ToSet
<1>6. ASSUME NEW y \in ToSet(s) \cup {x} PROVE y \in ToSet(Append(s, x))
  <2>1. CASE y = x
    BY <1>1, <1>2, <2>1 DEF ToSet
  <2>2. CASE y \in ToSet(s)
    BY <1>1, <1>2, <2>2 DEF ToSet
  <2> QED BY <1>6, <2>1, <2>2
<1> QED BY <1>1, <1>4, <1>5, <1>6

(* A channel that gets its Start leaves the cache. *)
LEMMA WithoutFacts ==
  ASSUME NEW S, NEW s \in Seq(S), IsInjective(s), NEW x \in S
  PROVE  /\ Without(s, x) \in Seq(S) /\ Len(Without(s, x)) <= Len(s)
         /\ IsInjective(Without(s, x))
         /\ ToSet(Without(s, x)) = ToSet(s) \ {x}
<1>1. DOMAIN s = 1..Len(s) /\ Len(s) \in Nat
  OBVIOUS
<1>2. CASE x \notin ToSet(s)
  BY <1>1, <1>2 DEF Without
<1>3. CASE x \in ToSet(s)
  <2> DEFINE k == CHOOSE i \in DOMAIN s : s[i] = x
             t == RemoveAt(s, k)
  <2>1. k \in 1..Len(s) /\ s[k] = x
    <3>1. \E i \in DOMAIN s : s[i] = x
      BY <1>3 DEF ToSet
    <3> QED BY <1>1, <3>1
  <2>2. Without(s, x) = t
    BY <1>3 DEF Without
  <2> HIDE DEF k
  <2>3. /\ t \in Seq(S) /\ Len(t) = Len(s) - 1
        /\ \A i \in 1..Len(s) - 1 : t[i] = IF i < k THEN s[i] ELSE s[i + 1]
    <3> DEFINE u == SubSeq(s, 1, k - 1)
               v == SubSeq(s, k + 1, Len(s))
    <3>1. /\ u \in Seq(S) /\ Len(u) = k - 1 /\ \A i \in 1..k - 1 : u[i] = s[i]
      <4>1. /\ SubSeq(s, 1, k - 1) \in Seq(S)
            /\ Len(SubSeq(s, 1, k - 1)) = IF 1 <= k - 1 THEN (k - 1) - 1 + 1 ELSE 0
            /\ \A i \in 1..(k - 1) - 1 + 1 : SubSeq(s, 1, k - 1)[i] = s[1 + i - 1]
        <5>1. 1 \in Int /\ k - 1 \in Int /\ \A i \in 1..k - 1 : s[i] \in S
          BY <1>1, <2>1
        <5> HIDE DEF u, v
        <5> QED BY <5>1, SubSeqProperties
      <4> QED BY <1>1, <2>1, <4>1
    <3>2. /\ v \in Seq(S) /\ Len(v) = Len(s) - k /\ \A i \in 1..Len(s) - k : v[i] = s[k + i]
      <4>1. /\ SubSeq(s, k + 1, Len(s)) \in Seq(S)
            /\ Len(SubSeq(s, k + 1, Len(s))) = IF k + 1 <= Len(s) THEN Len(s) - (k + 1) + 1 ELSE 0
            /\ \A i \in 1..Len(s) - (k + 1) + 1 : SubSeq(s, k + 1, Len(s))[i] = s[(k + 1) + i - 1]
        <5>1. k + 1 \in Int /\ Len(s) \in Int /\ \A i \in k + 1..Len(s) : s[i] \in S
          BY <1>1, <2>1
        <5> HIDE DEF u, v
        <5> QED BY <5>1, SubSeqProperties
      <4>2. Len(s) - (k + 1) + 1 = Len(s) - k
        BY <1>1, <2>1
      <4>3. \A i \in 1..Len(s) - k : (k + 1) + i - 1 = k + i
        BY <1>1, <2>1
      <4>4. Len(v) = Len(s) - k
        <5>1. Len(v) = IF k + 1 <= Len(s) THEN Len(s) - (k + 1) + 1 ELSE 0
          BY <4>1
        <5> HIDE DEF v
        <5>2. CASE k + 1 <= Len(s)
          BY <4>2, <5>1, <5>2
        <5>3. CASE ~(k + 1 <= Len(s))
          <6>0. \A n \in Nat : \A j \in 1..n : ~(j + 1 <= n) => n - j = 0
            OBVIOUS
          <6>1. Len(s) - k = 0
            BY <1>1, <2>1, <5>3, <6>0
          <6> QED BY <5>1, <5>3, <6>1
        <5> QED BY <5>2, <5>3
      <4>5. \A i \in 1..Len(s) - k : v[i] = s[k + i]
        BY <4>1, <4>2, <4>3
      <4> QED BY <4>1, <4>4, <4>5
    <3>3. t = u \o v
      BY DEF RemoveAt
    <3> HIDE DEF u, v, t
    <3>4. /\ t \in Seq(S) /\ Len(t) = Len(u) + Len(v)
          /\ \A i \in 1..Len(u) + Len(v) : t[i] = IF i <= Len(u) THEN u[i] ELSE v[i - Len(u)]
      BY <3>1, <3>2, <3>3, ConcatProperties
    <3>5. Len(t) = Len(s) - 1
      BY <1>1, <2>1, <3>1, <3>2, <3>4
    <3>6. ASSUME NEW i \in 1..Len(s) - 1 PROVE t[i] = IF i < k THEN s[i] ELSE s[i + 1]
      <4>0. i \in 1..Len(u) + Len(v) /\ Len(u) = k - 1
        BY <1>1, <2>1, <3>1, <3>2
      <4>1. CASE i < k
        <5>1. i \in 1..k - 1 /\ i <= Len(u)
          BY <2>1, <4>0, <4>1
        <5> QED BY <3>1, <3>4, <4>0, <4>1, <5>1
      <4>2. CASE i >= k
        <5>1. t[i] = v[i - (k - 1)] /\ i - (k - 1) \in 1..Len(s) - k
          <6>1. ~(i <= Len(u)) /\ i - (k - 1) \in 1..Len(s) - k
            BY <1>1, <2>1, <4>0, <4>2
          <6> QED BY <3>4, <4>0, <6>1
        <5>2. v[i - (k - 1)] = s[k + (i - (k - 1))] /\ k + (i - (k - 1)) = i + 1
          BY <2>1, <3>2, <5>1
        <5> QED BY <4>2, <5>1, <5>2, <2>1
      <4> QED BY <2>1, <4>1, <4>2
    <3> QED BY <3>4, <3>5, <3>6
  <2> HIDE DEF t
  <2>4. DOMAIN t = 1..Len(s) - 1
    BY <1>1, <2>3
  <2>5. \A i, j \in 1..Len(s) : s[i] = s[j] => i = j
    BY <1>1 DEF IsInjective
  <2>6. IsInjective(t)
    <3> SUFFICES ASSUME NEW i \in 1..Len(s) - 1, NEW j \in 1..Len(s) - 1, t[i] = t[j]
                 PROVE  i = j
      BY <2>4 DEF IsInjective
    <3> DEFINE up(a) == IF a < k THEN a ELSE a + 1
    <3>1. up(i) \in 1..Len(s) /\ up(j) \in 1..Len(s) /\ t[i] = s[up(i)] /\ t[j] = s[up(j)]
      BY <1>1, <2>1, <2>3
    <3>2. up(i) = up(j)
      <4> HIDE DEF up
      <4> QED BY <2>5, <3>1
    <3> QED BY <1>1, <2>1, <3>2
  <2>7. ASSUME NEW y \in ToSet(t) PROVE y \in ToSet(s) \ {x}
    <3>1. PICK i \in 1..Len(s) - 1 : y = t[i]
      BY <2>4 DEF ToSet
    <3>2. PICK j \in 1..Len(s) : y = s[j] /\ j # k
      BY <1>1, <2>1, <2>3, <3>1
    <3> QED BY <1>1, <2>1, <2>5, <3>2 DEF ToSet
  <2>8. ASSUME NEW y \in ToSet(s) \ {x} PROVE y \in ToSet(t)
    <3>1. PICK i \in 1..Len(s) : y = s[i]
      BY <1>1 DEF ToSet
    <3>2. i # k
      BY <2>1, <3>1
    <3>3. CASE i < k
      <4>1. i \in 1..Len(s) - 1 /\ t[i] = y
        BY <1>1, <2>1, <2>3, <3>1, <3>3
      <4> QED BY <2>4, <4>1 DEF ToSet
    <3>4. CASE i > k
      <4>1. i - 1 \in 1..Len(s) - 1 /\ ~(i - 1 < k) /\ (i - 1) + 1 = i
        BY <1>1, <2>1, <3>4
      <4>2. t[i - 1] = y
        BY <2>3, <3>1, <4>1
      <4> QED BY <2>4, <4>1, <4>2 DEF ToSet
    <3> QED BY <1>1, <2>1, <3>2, <3>3, <3>4
  <2> QED BY <1>1, <2>2, <2>3, <2>6, <2>7, <2>8
<1> QED BY <1>2, <1>3

-----------------------------------------------------------------------------
(* The inductive invariant. *)

Pc == Active \cup {"none", "created", "succeeded", "failed"}
Message == [channel : Channel, from : Node, kind : {"Start", "Computation", "Success", "Abort"}]
Versions == UNION {[ps -> [outgoing : Nat, incoming : Nat]] : ps \in SUBSET Node}
Chan == [pc : Pc, got : SUBSET Node, successful : SUBSET Node, versions : Versions]
Link == [version : Nat, up : BOOLEAN, pipe : Seq(Message)]

Begun == {x \in Node \X Channel : chan[x[1]][x[2]].pc # "none"}
Done == {x \in Node \X Channel : chan[x[1]][x[2]].pc = "succeeded"}

(* The three tables of a node: senders, the cache, and the channels with an object. *)
Tables(snd, cache, objects) ==
  /\ cache \in Seq(Channel) /\ IsInjective(cache) /\ Len(cache) <= LruCapacity
  /\ objects \subseteq Channel
  /\ snd = ToSet(cache) \cup objects /\ ToSet(cache) \cap objects = {}

Objects(n) == {c \in Channel : HasObject(n, c)}

(* A message Success comes from a follower that has succeeded. *)
SuccessOK(done, m) ==
  m.kind = "Success" => /\ <<m.from, m.channel>> \in done
                        /\ m.from \in Others(m.channel, Leader[m.channel])

(* A message Start comes from a leader that has begun, to one that has not yet. *)
StartOK(begun, p, q, m) ==
  m.kind = "Start" => /\ p = Leader[m.channel] /\ q \in Others(m.channel, p)
                      /\ <<p, m.channel>> \in begun /\ <<q, m.channel>> \notin begun

(* The messages under way from p to q, with at most one Start for each channel. *)
PipeOK(begun, done, p, q, pipe) ==
  /\ pipe \in Seq(Message)
  /\ \A i \in 1..Len(pipe) : SuccessOK(done, pipe[i]) /\ StartOK(begun, p, q, pipe[i])
  /\ \A i, j \in 1..Len(pipe) :
       pipe[i].kind = "Start" /\ pipe[j].kind = "Start" /\ pipe[i].channel = pipe[j].channel
         => i = j

InboxOK(done, c, box) ==
  box \in Seq(Message) /\ \A i \in 1..Len(box) : box[i].channel = c /\ SuccessOK(done, box[i])

(* A leader counts only followers that have succeeded, and if it is to wait for them it has
   succeeded only after all of them. *)
ChanOK(done, n, c, r) ==
  /\ \A p \in r.successful : p \in Others(c, Leader[c]) /\ <<p, c>> \in done
  /\ r.pc # "none" => n \in ToSet(Participants[c])
  /\ r.pc = "waiting" => n = Leader[c]
  /\ r.pc = "succeeded" /\ n = Leader[c] /\ c \in Waits
       => \A p \in Others(c, n) : <<p, c>> \in done

LinksOK(begun, done, ls) ==
  /\ ls \in [Node -> UNION {[Node \ {n} -> Link] : n \in Node}]
  /\ \A n \in Node : ls[n] \in [Node \ {n} -> Link]
  /\ \A p \in Node : \A q \in Node \ {p} : PipeOK(begun, done, p, q, ls[p][q].pipe)

BoxesOK(done, boxes) ==
  /\ boxes \in [Node -> [Channel -> Seq(Message)]]
  /\ \A n \in Node, c \in Channel : InboxOK(done, c, boxes[n][c])

TablesInv ==
  /\ senders \in [Node -> SUBSET Channel] /\ waiting \in [Node -> Seq(Channel)]
  /\ \A n \in Node : Tables(senders[n], waiting[n], Objects(n))

(* Nobody has begun before the leader. *)
LeaderFirst(n, c) == chan[n][c].pc # "none" => chan[Leader[c]][c].pc # "none"

ChanInv ==
  /\ chan \in [Node -> [Channel -> Chan]]
  /\ \A n \in Node, c \in Channel : ChanOK(Done, n, c, chan[n][c])
  /\ \A n \in Node, c \in Channel : LeaderFirst(n, c)

ChannelsInv ==
  /\ ChanInv /\ TablesInv /\ LinksOK(Begun, Done, link) /\ BoxesOK(Done, inbox)

-----------------------------------------------------------------------------
(* The tables. *)

EnteredOf(snd, cache, c) ==
  IF c \in snd THEN [senders |-> snd, waiting |-> cache, evicted |-> {}]
  ELSE IF Len(cache) < LruCapacity
  THEN [senders |-> snd \cup {c}, waiting |-> Append(cache, c), evicted |-> {}]
  ELSE [senders |-> (snd \cup {c}) \ {Head(cache)},
        waiting |-> Append(Tail(cache), c), evicted |-> {Head(cache)}]

(* Entered, as an operator of the tables. *)
LEMMA EnteredIs ==
  ASSUME NEW n, NEW c
  PROVE  Entered(n, c) = EnteredOf(senders[n], waiting[n], c)
BY DEF Entered, EnteredOf

(* A channel id that was unknown is known afterwards, waiting for its Start, and the entry
   that the cache evicts is in no table any more. *)
LEMMA EnteredOK ==
  ASSUME NEW snd, NEW cache, NEW objects, Tables(snd, cache, objects), NEW c \in Channel
  PROVE  LET e == EnteredOf(snd, cache, c) IN
         /\ Tables(e.senders, e.waiting, objects)
         /\ e.evicted \subseteq Channel
         /\ c \notin objects => c \in ToSet(e.waiting)
<1> DEFINE e == EnteredOf(snd, cache, c)
<1>0. /\ cache \in Seq(Channel) /\ IsInjective(cache) /\ Len(cache) <= LruCapacity
      /\ objects \subseteq Channel /\ snd = ToSet(cache) \cup objects
      /\ ToSet(cache) \cap objects = {} /\ Len(cache) \in Nat
  BY DEF Tables
<1>1. CASE c \in snd
  <2>1. e.senders = snd /\ e.waiting = cache /\ e.evicted = {}
    BY <1>1 DEF EnteredOf
  <2> QED BY <1>0, <1>1, <2>1 DEF Tables
<1>2. CASE c \notin snd /\ Len(cache) < LruCapacity
  <2>1. e.senders = snd \cup {c} /\ e.waiting = Append(cache, c) /\ e.evicted = {}
    BY <1>2 DEF EnteredOf
  <2>2. c \notin ToSet(cache)
    BY <1>0, <1>2
  <2>3. /\ Append(cache, c) \in Seq(Channel) /\ Len(Append(cache, c)) = Len(cache) + 1
        /\ IsInjective(Append(cache, c)) /\ ToSet(Append(cache, c)) = ToSet(cache) \cup {c}
    BY <1>0, <2>2, AppendFacts
  <2> HIDE DEF e
  <2>4. Len(e.waiting) <= LruCapacity
    BY <1>0, <1>2, <2>1, <2>3, TaskChannelsAssumption
  <2>5. Tables(e.senders, e.waiting, objects)
    BY <1>0, <1>2, <2>1, <2>3, <2>4 DEF Tables
  <2> QED BY <2>1, <2>3, <2>5 DEF e
<1>3. CASE c \notin snd /\ ~(Len(cache) < LruCapacity)
  <2>1. /\ e.senders = (snd \cup {c}) \ {Head(cache)} /\ e.waiting = Append(Tail(cache), c)
        /\ e.evicted = {Head(cache)}
    BY <1>3 DEF EnteredOf
  <2>2. cache # <<>> /\ Len(cache) = LruCapacity /\ LruCapacity \in Nat \ {0}
    BY <1>0, <1>3, TaskChannelsAssumption
  <2>3. /\ Tail(cache) \in Seq(Channel) /\ Len(Tail(cache)) = Len(cache) - 1
        /\ IsInjective(Tail(cache)) /\ Head(cache) \in ToSet(cache)
        /\ ToSet(Tail(cache)) = ToSet(cache) \ {Head(cache)}
    BY <1>0, <2>2, TailFacts
  <2> DEFINE t == Tail(cache)
             h == Head(cache)
  <2>4. c \notin ToSet(t) /\ c # h /\ h \notin objects
    BY <1>0, <1>3, <2>3
  <2>5. /\ t \in Seq(Channel) /\ Len(t) = Len(cache) - 1 /\ IsInjective(t) /\ h \in ToSet(cache)
        /\ ToSet(t) = ToSet(cache) \ {h} /\ e.senders = (snd \cup {c}) \ {h}
        /\ e.waiting = Append(t, c) /\ e.evicted = {h}
    BY <2>1, <2>3
  <2> HIDE DEF e, t, h
  <2>6. /\ Append(t, c) \in Seq(Channel) /\ Len(Append(t, c)) = Len(t) + 1
        /\ IsInjective(Append(t, c)) /\ ToSet(Append(t, c)) = ToSet(t) \cup {c}
    BY <2>4, <2>5, AppendFacts
  <2>7. Len(e.waiting) <= LruCapacity
    BY <1>0, <2>2, <2>5, <2>6
  <2>8. e.senders = ToSet(e.waiting) \cup objects
    BY <1>0, <2>4, <2>5, <2>6
  <2>9. c \notin objects
    BY <1>0, <1>3
  <2>10. Tables(e.senders, e.waiting, objects)
    BY <1>0, <2>4, <2>5, <2>6, <2>7, <2>8, <2>9 DEF Tables
  <2>11. h \in Channel
    <3>1. PICK i \in DOMAIN cache : h = cache[i]
      BY <2>5 DEF ToSet
    <3> QED BY <1>0, <3>1
  <2> QED BY <2>5, <2>6, <2>10, <2>11 DEF e
<1> QED BY <1>1, <1>2, <1>3

(* The channel gets an object, or ends at once. *)
LEMMA StartedOK ==
  ASSUME NEW snd, NEW cache, NEW objects, Tables(snd, cache, objects), NEW c \in Channel,
         c \in ToSet(cache)
  PROVE  /\ Tables(snd, Without(cache, c), objects \cup {c})
         /\ Tables(snd \ {c}, Without(cache, c), objects)
<1>0. /\ cache \in Seq(Channel) /\ IsInjective(cache) /\ Len(cache) <= LruCapacity
      /\ objects \subseteq Channel /\ snd = ToSet(cache) \cup objects
      /\ ToSet(cache) \cap objects = {} /\ Len(cache) \in Nat
  BY DEF Tables
<1> DEFINE w == Without(cache, c)
<1>1. /\ w \in Seq(Channel) /\ Len(w) <= Len(cache) /\ IsInjective(w)
      /\ ToSet(w) = ToSet(cache) \ {c}
  BY <1>0, WithoutFacts
<1> HIDE DEF w
<1>2. Len(w) <= LruCapacity
  BY <1>0, <1>1, TaskChannelsAssumption
<1>3. Tables(snd, w, objects \cup {c}) /\ Tables(snd \ {c}, w, objects)
  BY <1>0, <1>1, <1>2 DEF Tables
<1> QED BY <1>3 DEF w

(* The channel object is dropped. *)
LEMMA DroppedOK ==
  ASSUME NEW snd, NEW cache, NEW objects, Tables(snd, cache, objects), NEW c \in objects
  PROVE  Tables(snd \ {c}, cache, objects \ {c})
BY DEF Tables

-----------------------------------------------------------------------------
(* Messages under way. *)

(* Which channels count as begun, and which as done. *)
LEMMA InBegun ==
  ASSUME NEW n \in Node, NEW c \in Channel
  PROVE  /\ <<n, c>> \in Begun <=> chan[n][c].pc # "none"
         /\ <<n, c>> \in Done <=> chan[n][c].pc = "succeeded"
BY DEF Begun, Done

(* Who has begun or is done later only matters to a Start for the one that begins. *)
LEMMA PipeLater ==
  ASSUME NEW begun, NEW done, NEW begun2, NEW done2, NEW p, NEW q, NEW pipe,
         PipeOK(begun, done, p, q, pipe), begun \subseteq begun2, done \subseteq done2,
         \A i \in 1..Len(pipe) : pipe[i].kind = "Start" => <<q, pipe[i].channel>> \notin begun2
  PROVE  PipeOK(begun2, done2, p, q, pipe)
BY DEF PipeOK, SuccessOK, StartOK

(* A pipe stays in order with a message that may follow. *)
LEMMA PipeAppend ==
  ASSUME NEW begun, NEW done, NEW p, NEW q, NEW pipe, PipeOK(begun, done, p, q, pipe),
         NEW m \in Message, SuccessOK(done, m), StartOK(begun, p, q, m),
         m.kind = "Start" => \A i \in 1..Len(pipe) :
                               ~(pipe[i].kind = "Start" /\ pipe[i].channel = m.channel)
  PROVE  PipeOK(begun, done, p, q, Append(pipe, m))
<1> DEFINE t == Append(pipe, m)
<1>1. pipe \in Seq(Message) /\ Len(pipe) \in Nat
  BY DEF PipeOK
<1>2. /\ t \in Seq(Message) /\ Len(t) = Len(pipe) + 1
      /\ \A i \in 1..Len(pipe) : t[i] = pipe[i]
      /\ t[Len(pipe) + 1] = m
  BY <1>1
<1> HIDE DEF t
<1>3. \A i \in 1..Len(t) : i \in 1..Len(pipe) \/ i = Len(pipe) + 1
  BY <1>1, <1>2
<1>4. \A i \in 1..Len(t) : SuccessOK(done, t[i]) /\ StartOK(begun, p, q, t[i])
  BY <1>2, <1>3 DEF PipeOK
<1>5. \A i, j \in 1..Len(t) :
        t[i].kind = "Start" /\ t[j].kind = "Start" /\ t[i].channel = t[j].channel => i = j
  <2> SUFFICES ASSUME NEW i \in 1..Len(t), NEW j \in 1..Len(t),
                      t[i].kind = "Start", t[j].kind = "Start", t[i].channel = t[j].channel
               PROVE  i = j
    OBVIOUS
  <2>1. CASE i \in 1..Len(pipe) /\ j \in 1..Len(pipe)
    BY <1>2, <2>1 DEF PipeOK
  <2>2. CASE i = Len(pipe) + 1
    BY <1>2, <1>3, <2>2
  <2>3. CASE j = Len(pipe) + 1
    BY <1>2, <1>3, <2>3
  <2> QED BY <1>3, <2>1, <2>2, <2>3
<1>6. PipeOK(begun, done, p, q, t)
  BY <1>2, <1>4, <1>5 DEF PipeOK
<1> QED BY <1>6 DEF t

(* The head of a pipe, and what is left of it. *)
LEMMA PipeTail ==
  ASSUME NEW begun, NEW done, NEW p, NEW q, NEW pipe, PipeOK(begun, done, p, q, pipe),
         pipe # <<>>
  PROVE  /\ PipeOK(begun, done, p, q, Tail(pipe))
         /\ Head(pipe) \in Message
         /\ SuccessOK(done, Head(pipe)) /\ StartOK(begun, p, q, Head(pipe))
         /\ Head(pipe).kind = "Start" =>
              \A i \in 1..Len(Tail(pipe)) :
                ~(Tail(pipe)[i].kind = "Start" /\ Tail(pipe)[i].channel = Head(pipe).channel)
<1> DEFINE t == Tail(pipe)
           h == Head(pipe)
<1>1. pipe \in Seq(Message) /\ Len(pipe) \in Nat \ {0}
  BY DEF PipeOK
<1>2. /\ t \in Seq(Message) /\ Len(t) = Len(pipe) - 1
      /\ \A i \in 1..Len(pipe) - 1 : t[i] = pipe[i + 1]
      /\ h = pipe[1] /\ h \in Message
  BY <1>1
<1> HIDE DEF t, h
<1>3. \A i \in 1..Len(t) : i + 1 \in 1..Len(pipe) /\ t[i] = pipe[i + 1] /\ i + 1 # 1
  BY <1>1, <1>2
<1>4. 1 \in 1..Len(pipe)
  BY <1>1
<1>5. SuccessOK(done, h) /\ StartOK(begun, p, q, h)
  BY <1>2, <1>4 DEF PipeOK
<1>6. \A i, j \in 1..Len(t) : i + 1 = j + 1 => i = j
  BY <1>1, <1>2
<1>7. PipeOK(begun, done, p, q, t)
  BY <1>2, <1>3, <1>6, SMTT(60) DEF PipeOK
<1>8. h.kind = "Start" => \A i \in 1..Len(t) : ~(t[i].kind = "Start" /\ t[i].channel = h.channel)
  BY <1>2, <1>3, <1>4 DEF PipeOK
<1> QED BY <1>2, <1>5, <1>7, <1>8 DEF t, h

(* What is left of a pipe that is cut short is in order. *)
LEMMA PipePrefix ==
  ASSUME NEW begun, NEW done, NEW p, NEW q, NEW pipe, PipeOK(begun, done, p, q, pipe),
         NEW k \in 0..Len(pipe)
  PROVE  PipeOK(begun, done, p, q, SubSeq(pipe, 1, k))
<1> DEFINE t == SubSeq(pipe, 1, k)
<1>1. pipe \in Seq(Message) /\ Len(pipe) \in Nat /\ k \in Nat /\ k <= Len(pipe)
  BY DEF PipeOK
<1>2. t \in Seq(Message) /\ Len(t) = k /\ \A i \in 1..k : t[i] = pipe[i]
  <2>1. 1 \in Int /\ k \in Int /\ \A i \in 1..k : pipe[i] \in Message
    BY <1>1
  <2>2. /\ SubSeq(pipe, 1, k) \in Seq(Message)
        /\ Len(SubSeq(pipe, 1, k)) = IF 1 <= k THEN k - 1 + 1 ELSE 0
        /\ \A i \in 1..k - 1 + 1 : SubSeq(pipe, 1, k)[i] = pipe[1 + i - 1]
    BY <2>1, SubSeqProperties
  <2>3. /\ t \in Seq(Message)
        /\ Len(t) = IF 1 <= k THEN k - 1 + 1 ELSE 0
        /\ \A i \in 1..k - 1 + 1 : t[i] = pipe[1 + i - 1]
    BY <2>2
  <2> HIDE DEF t
  <2> QED BY <1>1, <2>3
<1> HIDE DEF t
<1>3. \A i \in 1..Len(t) : i \in 1..Len(pipe) /\ t[i] = pipe[i]
  BY <1>1, <1>2
<1>4. PipeOK(begun, done, p, q, t)
  BY <1>2, <1>3 DEF PipeOK
<1> QED BY <1>4 DEF t

(* An inbox stays in order when more channels are done. *)
LEMMA BoxLater ==
  ASSUME NEW done, NEW done2, NEW c, NEW box, InboxOK(done, c, box), done \subseteq done2
  PROVE  InboxOK(done2, c, box)
BY DEF InboxOK, SuccessOK

(* An inbox with one more message. *)
LEMMA BoxAppend ==
  ASSUME NEW done, NEW c, NEW box, InboxOK(done, c, box), NEW m \in Message,
         m.channel = c, SuccessOK(done, m)
  PROVE  InboxOK(done, c, Append(box, m))
<1> DEFINE t == Append(box, m)
<1>1. box \in Seq(Message) /\ Len(box) \in Nat
  BY DEF InboxOK
<1>2. /\ t \in Seq(Message) /\ Len(t) = Len(box) + 1
      /\ \A i \in 1..Len(box) : t[i] = box[i]
      /\ t[Len(box) + 1] = m
  BY <1>1
<1> HIDE DEF t
<1>3. \A i \in 1..Len(t) : i \in 1..Len(box) \/ i = Len(box) + 1
  BY <1>1, <1>2
<1>4. InboxOK(done, c, t)
  BY <1>2, <1>3 DEF InboxOK
<1> QED BY <1>4 DEF t

(* The head of an inbox, and what is left of it. *)
LEMMA BoxTail ==
  ASSUME NEW done, NEW c, NEW box, InboxOK(done, c, box), box # <<>>
  PROVE  /\ InboxOK(done, c, Tail(box))
         /\ Head(box) \in Message /\ SuccessOK(done, Head(box)) /\ Head(box).channel = c
<1> DEFINE t == Tail(box)
           h == Head(box)
<1>1. box \in Seq(Message) /\ Len(box) \in Nat \ {0}
  BY DEF InboxOK
<1>2. /\ t \in Seq(Message) /\ Len(t) = Len(box) - 1
      /\ \A i \in 1..Len(box) - 1 : t[i] = box[i + 1]
      /\ h = box[1] /\ h \in Message
  BY <1>1
<1> HIDE DEF t, h
<1>3. \A i \in 1..Len(t) : i + 1 \in 1..Len(box) /\ t[i] = box[i + 1]
  BY <1>1, <1>2
<1>4. 1 \in 1..Len(box)
  BY <1>1
<1>5. InboxOK(done, c, t) /\ SuccessOK(done, h) /\ h.channel = c
  BY <1>2, <1>3, <1>4 DEF InboxOK
<1> QED BY <1>2, <1>5 DEF t, h

(* An empty inbox is in order. *)
LEMMA BoxEmpty ==
  ASSUME NEW done, NEW c
  PROVE  InboxOK(done, c, <<>>)
BY DEF InboxOK

-----------------------------------------------------------------------------
(* All links and all inboxes. *)

(* Links stay in order when more channels are done. *)
LEMMA LinksLater ==
  ASSUME NEW begun, NEW done, NEW done2, NEW ls, LinksOK(begun, done, ls), done \subseteq done2
  PROVE  LinksOK(begun, done2, ls)
<1> SUFFICES ASSUME NEW p \in Node, NEW q \in Node \ {p}
             PROVE  PipeOK(begun, done2, p, q, ls[p][q].pipe)
  BY DEF LinksOK
<1>1. PipeOK(begun, done, p, q, ls[p][q].pipe)
  BY DEF LinksOK
<1> QED BY <1>1 DEF PipeOK, SuccessOK

(* Links stay in order when one of them is replaced by one that is. *)
LEMMA LinkReplaced ==
  ASSUME NEW begun, NEW done, NEW ls, LinksOK(begun, done, ls), NEW p \in Node,
         NEW q \in Node \ {p}, NEW l \in Link, PipeOK(begun, done, p, q, l.pipe)
  PROVE  LinksOK(begun, done, [ls EXCEPT ![p] = [ls[p] EXCEPT ![q] = l]])
<1> DEFINE row == [ls[p] EXCEPT ![q] = l]
           ls2 == [ls EXCEPT ![p] = row]
<1>1. row \in [Node \ {p} -> Link] /\ row[q] = l /\ \A r \in Node \ {p, q} : row[r] = ls[p][r]
  BY DEF LinksOK
<1> HIDE DEF row
<1>2. /\ ls2 \in [Node -> UNION {[Node \ {n} -> Link] : n \in Node}]
      /\ ls2[p] = row /\ \A n \in Node \ {p} : ls2[n] = ls[n]
  BY <1>1 DEF LinksOK
<1> HIDE DEF ls2
<1>3. \A n \in Node : ls2[n] \in [Node \ {n} -> Link]
  BY <1>1, <1>2 DEF LinksOK
<1>4. ASSUME NEW a \in Node, NEW b \in Node \ {a}
      PROVE  PipeOK(begun, done, a, b, ls2[a][b].pipe)
  <2>1. CASE a = p /\ b = q
    BY <1>1, <1>2, <2>1
  <2>2. CASE ~(a = p /\ b = q)
    <3>1. ls2[a][b] = ls[a][b]
      BY <1>1, <1>2, <2>2
    <3> QED BY <3>1 DEF LinksOK
  <2> QED BY <2>1, <2>2
<1>5. LinksOK(begun, done, ls2)
  BY <1>2, <1>3, <1>4 DEF LinksOK
<1> QED BY <1>5 DEF ls2, row

(* Sending a message that may follow what is under way. *)
MayFollow(begun, done, p, q, pipe, m) ==
  /\ SuccessOK(done, m) /\ StartOK(begun, p, q, m)
  /\ m.kind = "Start" => \A i \in 1..Len(pipe) :
                            ~(pipe[i].kind = "Start" /\ pipe[i].channel = m.channel)

(* Links stay in order when a message that may follow is sent over some. *)
LEMMA SentOK ==
  ASSUME NEW begun, NEW done, NEW ls, LinksOK(begun, done, ls), NEW n \in Node, NEW ps,
         NEW versions, NEW m \in Message,
         \A q \in Node \ {n} : q \in ps => MayFollow(begun, done, n, q, ls[n][q].pipe, m)
  PROVE  LinksOK(begun, done, SentTo(ls, n, ps, versions, m))
<1> DEFINE row == [p \in DOMAIN ls[n] |->
                     IF p \in ps /\ CanSend(ls, n, p, versions)
                     THEN [ls[n][p] EXCEPT !.pipe = Append(@, m)] ELSE ls[n][p]]
           ls2 == [ls EXCEPT ![n] = row]
<1>1. DOMAIN ls[n] = Node \ {n} /\ \A q \in Node \ {n} : ls[n][q] \in Link
  BY DEF LinksOK
<1>2. ASSUME NEW q \in Node \ {n}
      PROVE  row[q] \in Link /\ PipeOK(begun, done, n, q, row[q].pipe)
  <2>0. PipeOK(begun, done, n, q, ls[n][q].pipe) /\ ls[n][q] \in Link
    BY <1>1 DEF LinksOK
  <2>1. CASE q \in ps /\ CanSend(ls, n, q, versions)
    <3> DEFINE l == ls[n][q]
    <3>1. row[q] = [l EXCEPT !.pipe = Append(@, m)]
      BY <1>1, <2>1
    <3>2. l \in Link /\ PipeOK(begun, done, n, q, l.pipe) /\ MayFollow(begun, done, n, q, l.pipe, m)
      BY <2>0, <2>1
    <3> HIDE DEF l, row
    <3>3. PipeOK(begun, done, n, q, Append(l.pipe, m))
      BY <3>2, PipeAppend DEF MayFollow
    <3>4. Append(l.pipe, m) \in Seq(Message)
      BY <3>3 DEF PipeOK
    <3>5. row[q] \in Link /\ row[q].pipe = Append(l.pipe, m)
      BY <3>1, <3>2, <3>4 DEF Link
    <3> QED BY <3>3, <3>5
  <2>2. CASE ~(q \in ps /\ CanSend(ls, n, q, versions))
    BY <1>1, <2>0, <2>2
  <2> QED BY <2>1, <2>2
<1>3. row \in [Node \ {n} -> Link]
  BY <1>1, <1>2
<1>4. ls2 = SentTo(ls, n, ps, versions, m)
  BY DEF SentTo
<1> HIDE DEF row
<1>5. /\ ls2 \in [Node -> UNION {[Node \ {p} -> Link] : p \in Node}]
      /\ ls2[n] = row /\ \A p \in Node \ {n} : ls2[p] = ls[p]
  BY <1>3 DEF LinksOK
<1> HIDE DEF ls2
<1>6. \A p \in Node : ls2[p] \in [Node \ {p} -> Link]
  BY <1>3, <1>5 DEF LinksOK
<1>7. \A p \in Node : \A q \in Node \ {p} : PipeOK(begun, done, p, q, ls2[p][q].pipe)
  BY <1>2, <1>5 DEF LinksOK
<1> QED BY <1>4, <1>5, <1>6, <1>7 DEF LinksOK

(* Inboxes stay in order when more channels are done. *)
LEMMA BoxesLater ==
  ASSUME NEW done, NEW done2, NEW boxes, BoxesOK(done, boxes), done \subseteq done2
  PROVE  BoxesOK(done2, boxes)
BY BoxLater DEF BoxesOK

(* One inbox changes. *)
LEMMA BoxReplaced ==
  ASSUME NEW done, NEW boxes, BoxesOK(done, boxes), NEW n \in Node, NEW c \in Channel, NEW box,
         InboxOK(done, c, box)
  PROVE  BoxesOK(done, [boxes EXCEPT ![n] = [boxes[n] EXCEPT ![c] = box]])
<1> DEFINE row == [boxes[n] EXCEPT ![c] = box]
           bs == [boxes EXCEPT ![n] = row]
<1>0. box \in Seq(Message)
  BY DEF InboxOK
<1>1. /\ row \in [Channel -> Seq(Message)] /\ row[c] = box
      /\ \A d \in Channel \ {c} : row[d] = boxes[n][d]
  BY <1>0 DEF BoxesOK
<1> HIDE DEF row
<1>2. /\ bs \in [Node -> [Channel -> Seq(Message)]] /\ bs[n] = row
      /\ \A m \in Node \ {n} : bs[m] = boxes[m]
  BY <1>1 DEF BoxesOK
<1> HIDE DEF bs
<1>3. ASSUME NEW m \in Node, NEW d \in Channel
      PROVE  InboxOK(done, d, bs[m][d])
  <2>1. CASE m = n /\ d = c
    BY <1>1, <1>2, <2>1
  <2>2. CASE ~(m = n /\ d = c)
    <3>1. bs[m][d] = boxes[m][d]
      BY <1>1, <1>2, <2>2
    <3> QED BY <3>1 DEF BoxesOK
  <2> QED BY <2>1, <2>2
<1>4. BoxesOK(done, bs)
  BY <1>2, <1>3 DEF BoxesOK
<1> QED BY <1>4 DEF bs, row

(* The messages of evicted channels are dropped. *)
LEMMA BoxesEvicted ==
  ASSUME NEW done, NEW boxes, BoxesOK(done, boxes), NEW n \in Node, NEW gone
  PROVE  BoxesOK(done, [boxes EXCEPT ![n] =
                          [x \in Channel |-> IF x \in gone THEN <<>> ELSE boxes[n][x]]])
<1> DEFINE row == [x \in Channel |-> IF x \in gone THEN <<>> ELSE boxes[n][x]]
           bs == [boxes EXCEPT ![n] = row]
<1>1. row \in [Channel -> Seq(Message)] /\ \A d \in Channel : row[d] = <<>> \/ row[d] = boxes[n][d]
  BY DEF BoxesOK
<1> HIDE DEF row
<1>2. /\ bs \in [Node -> [Channel -> Seq(Message)]] /\ bs[n] = row
      /\ \A m \in Node \ {n} : bs[m] = boxes[m]
  BY <1>1 DEF BoxesOK
<1> HIDE DEF bs
<1>3. ASSUME NEW m \in Node, NEW d \in Channel
      PROVE  InboxOK(done, d, bs[m][d])
  <2>1. bs[m][d] = <<>> \/ bs[m][d] = boxes[m][d]
    BY <1>1, <1>2
  <2> QED BY <2>1, BoxEmpty DEF BoxesOK
<1>4. BoxesOK(done, bs)
  BY <1>2, <1>3 DEF BoxesOK
<1> QED BY <1>4 DEF bs, row

-----------------------------------------------------------------------------
(* What a change of one channel of one node means for the rest. *)

(* Channel c of node n becomes r; what has succeeded stays so. *)
Moves(n, c, r) ==
  /\ r \in Chan /\ r.pc # "none"
  /\ chan[n][c].pc = "succeeded" => r.pc = "succeeded"
  /\ chan' = [chan EXCEPT ![n] = [chan[n] EXCEPT ![c] = r]]

ObjectAfter(objects, c, r) ==
  IF r.pc \in Active \cup {"created"} THEN objects \cup {c} ELSE objects \ {c}

(* What a move of one channel object changes. *)
LEMMA MovesOK ==
  ASSUME ChanInv, NEW n \in Node, NEW c \in Channel, NEW r, Moves(n, c, r)
  PROVE  /\ chan' \in [Node -> [Channel -> Chan]] /\ chan'[n][c] = r
         /\ \A m \in Node, d \in Channel : m # n \/ d # c => chan'[m][d] = chan[m][d]
         /\ Begun' = Begun \cup {<<n, c>>}
         /\ Done \subseteq Done' /\ (r.pc = "succeeded" => <<n, c>> \in Done')
         /\ Objects(n)' = ObjectAfter(Objects(n), c, r)
         /\ \A m \in Node \ {n} : Objects(m)' = Objects(m)
<1> DEFINE row == [chan[n] EXCEPT ![c] = r]
<1>1. row \in [Channel -> Chan] /\ row[c] = r /\ \A d \in Channel \ {c} : row[d] = chan[n][d]
  BY DEF ChanInv, Moves
<1>2. chan' = [chan EXCEPT ![n] = row]
  BY DEF Moves
<1> HIDE DEF row
<1>3. chan' \in [Node -> [Channel -> Chan]] /\ chan'[n] = row
      /\ \A m \in Node \ {n} : chan'[m] = chan[m]
  BY <1>1, <1>2 DEF ChanInv
<1>4. chan'[n][c] = r
  BY <1>1, <1>3
<1>5. \A m \in Node, d \in Channel : m # n \/ d # c => chan'[m][d] = chan[m][d]
  BY <1>1, <1>3
<1>6. \A m \in Node, d \in Channel : (<<m, d>> = <<n, c>>) <=> (m = n /\ d = c)
  OBVIOUS
<1>7. Begun' = Begun \cup {<<n, c>>}
  <2>1. \A x \in Node \X Channel : x \in Begun' <=> x \in Begun \cup {<<n, c>>}
    <3> TAKE x \in Node \X Channel
    <3>1. PICK m \in Node, d \in Channel : x = <<m, d>>
      OBVIOUS
    <3>2. x[1] = m /\ x[2] = d
      BY <3>1
    <3>3. CASE m = n /\ d = c
      BY <1>4, <3>1, <3>2, <3>3 DEF Begun, Moves
    <3>4. CASE ~(m = n /\ d = c)
      BY <1>5, <1>6, <3>1, <3>2, <3>4 DEF Begun
    <3> QED BY <3>3, <3>4
  <2>2. Begun' \subseteq Node \X Channel /\ Begun \cup {<<n, c>>} \subseteq Node \X Channel
    BY DEF Begun
  <2> QED BY <2>1, <2>2
<1>8. Done \subseteq Done' /\ (r.pc = "succeeded" => <<n, c>> \in Done')
  <2>1. ASSUME NEW x \in Done PROVE x \in Done'
    <3>1. PICK m \in Node, d \in Channel : x = <<m, d>> /\ chan[m][d].pc = "succeeded"
      BY DEF Done
    <3>2. chan'[m][d].pc = "succeeded"
      BY <1>4, <1>5, <3>1 DEF Moves
    <3> QED BY <3>1, <3>2 DEF Done
  <2> QED BY <1>4, <2>1 DEF Done
<1>9. Objects(n)' = ObjectAfter(Objects(n), c, r)
  <2>1. ASSUME NEW d \in Channel PROVE d \in Objects(n)' <=> d \in ObjectAfter(Objects(n), c, r)
    <3>1. CASE d = c
      BY <1>4, <3>1 DEF Objects, HasObject, ObjectAfter
    <3>2. CASE d # c
      BY <1>5, <3>2 DEF Objects, HasObject, ObjectAfter
    <3> QED BY <3>1, <3>2
  <2>2. Objects(n)' \subseteq Channel /\ ObjectAfter(Objects(n), c, r) \subseteq Channel
    BY DEF Objects, ObjectAfter
  <2> QED BY <2>1, <2>2
<1>10. \A m \in Node \ {n} : Objects(m)' = Objects(m)
  BY <1>3 DEF Objects, HasObject
<1> QED BY <1>3, <1>4, <1>5, <1>7, <1>8, <1>9, <1>10

(* The members of a channel. *)
LEMMA MembersOK ==
  ASSUME NEW c \in Channel
  PROVE  /\ Leader[c] \in ToSet(Participants[c]) /\ ToSet(Participants[c]) \subseteq Node
         /\ \A n \in Node : Others(c, n) = ToSet(Participants[c]) \ {n}
<1>1. Participants[c] \in Seq(Node) /\ Leader[c] \in ToSet(Participants[c])
  BY TaskChannelsAssumption
<1>2. ToSet(Participants[c]) \subseteq Node
  BY <1>1 DEF ToSet
<1> QED BY <1>1, <1>2 DEF Others

(* The connection versions that a channel object remembers. *)
LEMMA VersionsOK ==
  ASSUME NEW begun, NEW done, LinksOK(begun, done, link), NEW n \in Node, NEW c \in Channel
  PROVE  ConnectionVersions(n, c) \in Versions
<1>1. Others(c, n) \subseteq Node \ {n}
  BY MembersOK
<1>2. \A p \in Others(c, n) : Version(link[n][p]) \in Nat /\ Version(link[p][n]) \in Nat
  <2> TAKE p \in Others(c, n)
  <2>1. link[n][p] \in Link /\ link[p][n] \in Link
    BY <1>1 DEF LinksOK
  <2> QED BY <2>1 DEF Version, Link
<1>3. ConnectionVersions(n, c) \in [Others(c, n) -> [outgoing : Nat, incoming : Nat]]
  BY <1>2 DEF ConnectionVersions
<1> QED BY <1>1, <1>3 DEF Versions

(* A move to an object in order keeps the part about objects. *)
LEMMA ChanKept ==
  ASSUME ChanInv, NEW n \in Node, NEW c \in Channel, NEW r, Moves(n, c, r),
         ChanOK(Done', n, c, r), chan[n][c].pc # "none" \/ LeaderFirst(n, c)'
  PROVE  ChanInv'
<1>1. /\ chan' \in [Node -> [Channel -> Chan]] /\ chan'[n][c] = r
      /\ \A m \in Node, d \in Channel : m # n \/ d # c => chan'[m][d] = chan[m][d]
      /\ Done \subseteq Done'
  BY MovesOK
<1>2. ASSUME NEW m \in Node, NEW d \in Channel PROVE ChanOK(Done', m, d, chan'[m][d])
  <2>1. CASE m = n /\ d = c
    BY <1>1, <2>1
  <2>2. CASE m # n \/ d # c
    <3>1. chan'[m][d] = chan[m][d] /\ ChanOK(Done, m, d, chan[m][d])
      BY <1>1, <2>2 DEF ChanInv
    <3> QED BY <1>1, <3>1 DEF ChanOK
  <2> QED BY <2>1, <2>2
<1>3. \A m \in Node, d \in Channel : ChanOK(Done, m, d, chan[m][d])'
  BY <1>2 DEF ChanOK, Others
<1>4. ASSUME NEW m \in Node, NEW d \in Channel PROVE LeaderFirst(m, d)'
  <2>1. Leader[d] \in Node
    BY MembersOK
  <2>2. LeaderFirst(m, d)
    BY DEF ChanInv
  <2>3. \A a \in Node, b \in Channel : chan[a][b].pc # "none" => chan'[a][b].pc # "none"
    BY <1>1 DEF Moves
  <2>4. CASE m = n /\ d = c
    BY <2>1, <2>2, <2>3, <2>4 DEF LeaderFirst
  <2>5. CASE m # n \/ d # c
    BY <1>1, <2>1, <2>2, <2>3, <2>5 DEF LeaderFirst
  <2> QED BY <2>4, <2>5
<1> QED BY <1>1, <1>3, <1>4 DEF ChanInv

(* The tables of one node change. *)
LEMMA TablesMove ==
  ASSUME TablesInv, NEW n \in Node, NEW snd, NEW cache, Tables(snd, cache, Objects(n)'),
         senders' = [senders EXCEPT ![n] = snd], waiting' = [waiting EXCEPT ![n] = cache],
         \A m \in Node \ {n} : Objects(m)' = Objects(m)
  PROVE  TablesInv'
<1>1. cache \in Seq(Channel) /\ snd \in SUBSET Channel
  <2>1. cache \in Seq(Channel) /\ snd = ToSet(cache) \cup Objects(n)' /\ Objects(n)' \subseteq Channel
    BY DEF Tables
  <2>2. ToSet(cache) \subseteq Channel
    BY <2>1 DEF ToSet
  <2> QED BY <2>1, <2>2
<1>2. /\ senders' \in [Node -> SUBSET Channel] /\ waiting' \in [Node -> Seq(Channel)]
      /\ senders'[n] = snd /\ waiting'[n] = cache
      /\ \A m \in Node \ {n} : senders'[m] = senders[m] /\ waiting'[m] = waiting[m]
  BY <1>1 DEF TablesInv
<1>3. ASSUME NEW m \in Node PROVE Tables(senders'[m], waiting'[m], Objects(m)')
  <2>1. CASE m = n
    BY <1>2, <2>1
  <2>2. CASE m # n
    BY <1>2, <2>2 DEF TablesInv
  <2> QED BY <2>1, <2>2
<1>4. \A m \in Node : Tables(senders[m], waiting[m], Objects(m))'
  BY <1>3 DEF Tables
<1> QED BY <1>2, <1>4 DEF TablesInv

(* The part about links, in the next state. *)
LEMMA LinksPrimed == LinksOK(Begun', Done', link') => LinksOK(Begun, Done, link)'
<1> SUFFICES ASSUME LinksOK(Begun', Done', link') PROVE LinksOK(Begun, Done, link)'
  OBVIOUS
<1>1. \A p \in Node : \A q \in Node \ {p} : PipeOK(Begun, Done, p, q, link[p][q].pipe)'
  BY DEF LinksOK, PipeOK, SuccessOK, StartOK, Others
<1> QED BY <1>1 DEF LinksOK

(* The part about inboxes, in the next state. *)
LEMMA BoxesPrimed == BoxesOK(Done', inbox') => BoxesOK(Done, inbox)'
BY DEF BoxesOK, InboxOK, SuccessOK, Others

(* The fields of a message. *)
LEMMA MsgOK ==
  ASSUME NEW c \in Channel, NEW n \in Node,
         NEW kind \in {"Start", "Computation", "Success", "Abort"}
  PROVE  /\ Msg(c, n, kind) \in Message /\ Msg(c, n, kind).channel = c
         /\ Msg(c, n, kind).from = n /\ Msg(c, n, kind).kind = kind
BY DEF Msg, Message

-----------------------------------------------------------------------------
(* A computation goes on, or ends. *)

(* A channel object moves on and stays in the table. *)
LEMMA GoesOn ==
  ASSUME ChannelsInv, NEW n \in Node, NEW c \in Channel, HasObject(n, c), NEW r, Moves(n, c, r),
         r.pc \in Active \cup {"created"}, ChanOK(Done', n, c, r),
         UNCHANGED <<senders, waiting>>, LinksOK(Begun, Done', link'), BoxesOK(Done', inbox')
  PROVE  ChannelsInv'
<1>0. ChanInv /\ TablesInv
  BY DEF ChannelsInv
<1>1. /\ Begun' = Begun \cup {<<n, c>>} /\ Objects(n)' = ObjectAfter(Objects(n), c, r)
      /\ \A m \in Node \ {n} : Objects(m)' = Objects(m)
  BY <1>0, MovesOK
<1>2. Begun' = Begun
  BY <1>1, InBegun DEF HasObject, Active
<1>3. ChanInv'
  BY <1>0, ChanKept DEF HasObject, Active
<1>4. TablesInv'
  <2>1. Objects(n)' = Objects(n)
    BY <1>1 DEF ObjectAfter, Objects
  <2>2. Tables(senders[n], waiting[n], Objects(n)')
    BY <1>0, <2>1 DEF TablesInv
  <2>3. senders' = [senders EXCEPT ![n] = senders[n]] /\ waiting' = [waiting EXCEPT ![n] = waiting[n]]
    BY <1>0 DEF TablesInv
  <2> QED BY <1>0, <1>1, <2>2, <2>3, TablesMove
<1>5. LinksOK(Begun, Done, link)' /\ BoxesOK(Done, inbox)'
  BY <1>2, LinksPrimed, BoxesPrimed
<1> QED BY <1>3, <1>4, <1>5 DEF ChannelsInv

(* A channel object ends and is dropped from the table. *)
LEMMA Ends ==
  ASSUME ChannelsInv, NEW n \in Node, NEW c \in Channel, HasObject(n, c), NEW r, Moves(n, c, r),
         r.pc \in {"failed", "succeeded"}, ChanOK(Done', n, c, r),
         Dropped(n, c), waiting' = waiting, LinksOK(Begun, Done', link')
  PROVE  ChannelsInv'
<1>0. ChanInv /\ TablesInv /\ BoxesOK(Done, inbox)
  BY DEF ChannelsInv
<1>1. /\ Begun' = Begun \cup {<<n, c>>} /\ Objects(n)' = ObjectAfter(Objects(n), c, r)
      /\ \A m \in Node \ {n} : Objects(m)' = Objects(m)
      /\ Done \subseteq Done'
  BY <1>0, MovesOK
<1>2. Begun' = Begun
  BY <1>1, InBegun DEF HasObject, Active
<1>3. ChanInv'
  BY <1>0, ChanKept DEF HasObject, Active
<1>4. TablesInv'
  <2>1. Objects(n)' = Objects(n) \ {c} /\ c \in Objects(n)
    BY <1>1 DEF ObjectAfter, Objects, Active
  <2>2. Tables(senders[n] \ {c}, waiting[n], Objects(n)')
    BY <1>0, <2>1, DroppedOK DEF TablesInv
  <2>3. senders' = [senders EXCEPT ![n] = senders[n] \ {c}]
        /\ waiting' = [waiting EXCEPT ![n] = waiting[n]]
    BY <1>0 DEF TablesInv, Dropped
  <2> QED BY <1>0, <1>1, <2>2, <2>3, TablesMove
<1>5. LinksOK(Begun, Done, link)'
  BY <1>2, LinksPrimed
<1>6. BoxesOK(Done, inbox)'
  <2>1. inbox' = [inbox EXCEPT ![n] = [inbox[n] EXCEPT ![c] = <<>>]]
    BY DEF Dropped
  <2>2. BoxesOK(Done', inbox)
    BY <1>0, <1>1, BoxesLater
  <2>3. BoxesOK(Done', inbox')
    BY <2>1, <2>2, BoxEmpty, BoxReplaced
  <2> QED BY <2>3, BoxesPrimed
<1> QED BY <1>3, <1>4, <1>5, <1>6 DEF ChannelsInv

(* A message that is neither Start nor Success can be sent at any time. *)
LEMMA PlainSent ==
  ASSUME NEW begun, NEW done, NEW ls, LinksOK(begun, done, ls), NEW n \in Node, NEW ps,
         NEW versions, NEW c \in Channel, NEW kind \in {"Computation", "Abort"}
  PROVE  LinksOK(begun, done, SentTo(ls, n, ps, versions, Msg(c, n, kind)))
<1> DEFINE m == Msg(c, n, kind)
<1>1. m \in Message /\ m.kind = kind
  BY MsgOK
<1> HIDE DEF m
<1>2. \A q \in Node \ {n} : q \in ps => MayFollow(begun, done, n, q, ls[n][q].pipe, m)
  BY <1>1 DEF MayFollow, SuccessOK, StartOK
<1>3. LinksOK(begun, done, SentTo(ls, n, ps, versions, m))
  BY <1>1, <1>2, SentOK
<1> QED BY <1>3 DEF m

(* A change of pc alone. *)
PcMoved(n, c, r, pc) ==
  /\ Moves(n, c, r) /\ r.pc = pc /\ Done \subseteq Done' /\ n \in ToSet(Participants[c])
  /\ r.successful = chan[n][c].successful
  /\ \A p \in r.successful : p \in Others(c, Leader[c]) /\ <<p, c>> \in Done'

(* A change of the program counter is such a move. *)
LEMMA PcMoves ==
  ASSUME ChanInv, NEW n \in Node, NEW c \in Channel, NEW pc \in Pc, pc # "none",
         HasObject(n, c), chan' = [chan EXCEPT ![n][c].pc = pc]
  PROVE  PcMoved(n, c, [chan[n][c] EXCEPT !.pc = pc], pc)
<1> DEFINE r == [chan[n][c] EXCEPT !.pc = pc]
<1>1. chan[n][c] \in Chan
  BY DEF ChanInv
<1>2. r \in Chan /\ r.pc = pc /\ r.successful = chan[n][c].successful
  BY <1>1 DEF Chan
<1>3. chan' = [chan EXCEPT ![n] = [chan[n] EXCEPT ![c] = r]]
  OBVIOUS
<1>4. chan[n][c].pc # "succeeded" /\ chan[n][c].pc # "none"
  BY DEF HasObject, Active
<1> HIDE DEF r
<1>5. Moves(n, c, r)
  BY <1>2, <1>3, <1>4 DEF Moves
<1>6. Done \subseteq Done'
  BY <1>5, MovesOK
<1>7. ChanOK(Done, n, c, chan[n][c])
  BY DEF ChanInv
<1>8. n \in ToSet(Participants[c])
      /\ \A p \in r.successful : p \in Others(c, Leader[c]) /\ <<p, c>> \in Done'
  BY <1>2, <1>4, <1>6, <1>7 DEF ChanOK
<1>9. PcMoved(n, c, r, pc)
  BY <1>2, <1>5, <1>6, <1>8 DEF PcMoved
<1> QED BY <1>9 DEF r

(* A task fails, and says so to the others. *)
LEMMA FailOK ==
  ASSUME ChannelsInv, NEW n \in Node, NEW c \in Channel, HasObject(n, c), Fail(n, c),
         waiting' = waiting
  PROVE  ChannelsInv'
<1> DEFINE r == [chan[n][c] EXCEPT !.pc = "failed"]
<1>0. ChanInv /\ LinksOK(Begun, Done, link)
  BY DEF ChannelsInv
<1>a. chan' = [chan EXCEPT ![n][c].pc = "failed"] /\ "failed" \in Pc
  BY DEF Fail, Pc
<1>b. PcMoved(n, c, r, "failed")
  BY <1>0, <1>a, PcMoves
<1> HIDE DEF r
<1>1. /\ Moves(n, c, r) /\ r.pc = "failed" /\ Done \subseteq Done' /\ n \in ToSet(Participants[c])
      /\ \A p \in r.successful : p \in Others(c, Leader[c]) /\ <<p, c>> \in Done'
  BY <1>b DEF PcMoved
<1>2. ChanOK(Done', n, c, r)
  BY <1>1 DEF ChanOK
<1>3. LinksOK(Begun, Done', link')
  <2>1. LinksOK(Begun, Done', link)
    BY <1>0, <1>1, LinksLater
  <2> QED BY <2>1, PlainSent DEF Fail
<1>4. Dropped(n, c)
  BY DEF Fail
<1> QED BY <1>1, <1>2, <1>3, <1>4, Ends

(* A task has its connections. *)
LEMMA ConnectedOK ==
  ASSUME ChannelsInv, NEW n \in Node, NEW c \in Channel, Connected(n, c)
  PROVE  ChannelsInv'
<1> DEFINE r == [chan[n][c] EXCEPT !.pc = "created"]
<1>0. ChanInv /\ LinksOK(Begun, Done, link) /\ BoxesOK(Done, inbox)
  BY DEF ChannelsInv
<1>1. HasObject(n, c)
  BY DEF Connected, HasObject, Active
<1>a. chan' = [chan EXCEPT ![n][c].pc = "created"] /\ "created" \in Pc
  BY DEF Connected, Pc
<1>b. PcMoved(n, c, r, "created")
  BY <1>0, <1>1, <1>a, PcMoves
<1> HIDE DEF r
<1>2. /\ Moves(n, c, r) /\ r.pc = "created" /\ Done \subseteq Done' /\ n \in ToSet(Participants[c])
      /\ \A p \in r.successful : p \in Others(c, Leader[c]) /\ <<p, c>> \in Done'
  BY <1>b DEF PcMoved
<1>3. ChanOK(Done', n, c, r)
  BY <1>2 DEF ChanOK
<1>4. LinksOK(Begun, Done', link') /\ BoxesOK(Done', inbox')
  BY <1>0, <1>2, LinksLater, BoxesLater DEF Connected
<1>5. UNCHANGED <<senders, waiting>> /\ r.pc \in Active \cup {"created"}
  BY <1>2 DEF Connected
<1> QED BY <1>1, <1>2, <1>3, <1>4, <1>5, GoesOn

(* The leader starts the computation. *)
LEMMA StartComputationOK ==
  ASSUME ChannelsInv, NEW n \in Node, NEW c \in Channel, StartComputation(n, c)
  PROVE  ChannelsInv'
<1> DEFINE versions == chan[n][c].versions
           reachable == {p \in Others(c, n) : CanSend(link, n, p, versions)}
           m == Msg(c, n, "Computation")
<1>0. ChanInv /\ LinksOK(Begun, Done, link) /\ BoxesOK(Done, inbox)
  BY DEF ChannelsInv
<1>1. HasObject(n, c) /\ waiting' = waiting
  BY DEF StartComputation, HasObject, Active
<1>2. CASE /\ link' = SentTo(link, n, reachable, versions, m)
           /\ chan' = [chan EXCEPT ![n][c].pc = "computing"]
           /\ UNCHANGED <<senders, inbox>>
  <2> DEFINE r == [chan[n][c] EXCEPT !.pc = "computing"]
  <2>a. "computing" \in Pc
    BY DEF Pc, Active
  <2>b. PcMoved(n, c, r, "computing")
    BY <1>0, <1>1, <1>2, <2>a, PcMoves
  <2> HIDE DEF r
  <2>1. /\ Moves(n, c, r) /\ r.pc = "computing" /\ Done \subseteq Done' /\ n \in ToSet(Participants[c])
        /\ \A p \in r.successful : p \in Others(c, Leader[c]) /\ <<p, c>> \in Done'
    BY <2>b DEF PcMoved
  <2>2. ChanOK(Done', n, c, r)
    BY <2>1 DEF ChanOK
  <2>3. LinksOK(Begun, Done', link') /\ BoxesOK(Done', inbox')
    <3>1. LinksOK(Begun, Done', link)
      BY <1>0, <2>1, LinksLater
    <3> HIDE DEF versions, reachable
    <3>2. LinksOK(Begun, Done', link')
      BY <1>2, <3>1, PlainSent
    <3> QED BY <1>0, <1>2, <2>1, <3>2, BoxesLater
  <2>4. UNCHANGED <<senders, waiting>> /\ r.pc \in Active \cup {"created"}
    BY <1>1, <1>2, <2>1 DEF Active
  <2> QED BY <1>1, <2>1, <2>2, <2>3, <2>4, GoesOn
<1>3. ASSUME NEW ps \in SUBSET reachable,
             link' = SentTo(SentTo(link, n, ps, versions, m), n, Counterparts(n, c), versions,
                            Msg(c, n, "Abort")),
             chan' = [chan EXCEPT ![n][c].pc = "failed"], Dropped(n, c)
      PROVE  ChannelsInv'
  <2> DEFINE r == [chan[n][c] EXCEPT !.pc = "failed"]
  <2>a. "failed" \in Pc
    BY DEF Pc
  <2>b. PcMoved(n, c, r, "failed")
    BY <1>0, <1>1, <1>3, <2>a, PcMoves
  <2> HIDE DEF r
  <2>1. /\ Moves(n, c, r) /\ r.pc = "failed" /\ Done \subseteq Done' /\ n \in ToSet(Participants[c])
        /\ \A p \in r.successful : p \in Others(c, Leader[c]) /\ <<p, c>> \in Done'
    BY <2>b DEF PcMoved
  <2>2. ChanOK(Done', n, c, r)
    BY <2>1 DEF ChanOK
  <2>3. LinksOK(Begun, Done', link')
    <3>1. LinksOK(Begun, Done', link)
      BY <1>0, <2>1, LinksLater
    <3> HIDE DEF versions, reachable
    <3>2. LinksOK(Begun, Done', SentTo(link, n, ps, versions, m))
      BY <3>1, PlainSent
    <3> QED BY <1>3, <3>2, PlainSent
  <2> QED BY <1>1, <1>3, <2>1, <2>2, <2>3, Ends
<1> QED BY <1>2, <1>3 DEF StartComputation

(* The message that the computation takes is put to one of its two uses, or ends it. *)
LEMMA ReceiveOneOK ==
  ASSUME ChannelsInv, NEW n \in Node, NEW c \in Channel, ReceiveOne(n, c)
  PROVE  ChannelsInv'
<1> DEFINE m == Head(inbox[n][c])
<1>0. ChanInv /\ LinksOK(Begun, Done, link) /\ BoxesOK(Done, inbox)
  BY DEF ChannelsInv
<1>1. /\ HasObject(n, c) /\ waiting' = waiting /\ inbox[n][c] # <<>>
      /\ chan[n][c].pc \in {"computing", "waiting"}
  BY DEF ReceiveOne, HasObject, Active
<1>2. /\ InboxOK(Done, c, Tail(inbox[n][c])) /\ m \in Message /\ SuccessOK(Done, m)
      /\ m.channel = c
  <2>1. InboxOK(Done, c, inbox[n][c])
    BY <1>0 DEF BoxesOK
  <2> QED BY <1>1, <2>1, BoxTail
<1>3. chan[n][c] \in Chan /\ ChanOK(Done, n, c, chan[n][c])
  BY <1>0 DEF ChanInv
<1>a. m.from \in Node
  BY <1>2 DEF Message
<1>4. ASSUME NEW r \in Chan, r.pc = chan[n][c].pc,
             \A p \in r.successful : p \in Others(c, Leader[c]) /\ <<p, c>> \in Done,
             chan' = [chan EXCEPT ![n] = [chan[n] EXCEPT ![c] = r]],
             inbox' = [inbox EXCEPT ![n] = [inbox[n] EXCEPT ![c] = Tail(inbox[n][c])]],
             UNCHANGED <<link, senders>>
      PROVE  ChannelsInv'
  <2>1. Moves(n, c, r)
    BY <1>1, <1>4 DEF Moves
  <2>2. Done \subseteq Done'
    BY <1>0, <2>1, MovesOK
  <2>3. ChanOK(Done', n, c, r)
    BY <1>1, <1>3, <1>4, <2>2 DEF ChanOK
  <2>4. LinksOK(Begun, Done', link')
    BY <1>0, <1>4, <2>2, LinksLater
  <2>5. BoxesOK(Done', inbox')
    <3>1. BoxesOK(Done, inbox')
      BY <1>0, <1>2, <1>4, BoxReplaced
    <3> QED BY <2>2, <3>1, BoxesLater
  <2>6. UNCHANGED <<senders, waiting>> /\ r.pc \in Active \cup {"created"}
    BY <1>1, <1>4 DEF Active
  <2> QED BY <1>1, <2>1, <2>3, <2>4, <2>5, <2>6, GoesOn
<1>5. CASE /\ chan' = [chan EXCEPT ![n][c].got = @ \cup {m.from}]
           /\ inbox' = [inbox EXCEPT ![n][c] = Tail(@)]
           /\ UNCHANGED <<link, senders>>
  <2> DEFINE r == [chan[n][c] EXCEPT !.got = chan[n][c].got \cup {m.from}]
  <2>1. r \in Chan /\ r.pc = chan[n][c].pc /\ r.successful = chan[n][c].successful
    <3>1. chan[n][c].got \cup {m.from} \in SUBSET Node
      BY <1>3, <1>a DEF Chan
    <3> HIDE DEF m
    <3> QED BY <1>3, <3>1 DEF Chan
  <2>2. chan' = [chan EXCEPT ![n] = [chan[n] EXCEPT ![c] = r]]
    BY <1>5
  <2>3. inbox' = [inbox EXCEPT ![n] = [inbox[n] EXCEPT ![c] = Tail(inbox[n][c])]]
    BY <1>5
  <2> HIDE DEF r
  <2>4. \A p \in r.successful : p \in Others(c, Leader[c]) /\ <<p, c>> \in Done
    BY <1>3, <2>1 DEF ChanOK
  <2> QED BY <1>4, <1>5, <2>1, <2>2, <2>3, <2>4
<1>6. CASE /\ m.kind = "Success"
           /\ chan' = [chan EXCEPT ![n][c].successful = @ \cup {m.from}]
           /\ inbox' = [inbox EXCEPT ![n][c] = Tail(@)]
           /\ UNCHANGED <<link, senders>>
  <2> DEFINE r == [chan[n][c] EXCEPT !.successful = chan[n][c].successful \cup {m.from}]
  <2>1. r \in Chan /\ r.pc = chan[n][c].pc /\ r.successful = chan[n][c].successful \cup {m.from}
    <3>1. chan[n][c].successful \cup {m.from} \in SUBSET Node
      BY <1>3, <1>a DEF Chan
    <3> HIDE DEF m
    <3> QED BY <1>3, <3>1 DEF Chan
  <2>2. chan' = [chan EXCEPT ![n] = [chan[n] EXCEPT ![c] = r]]
    BY <1>6
  <2>3. inbox' = [inbox EXCEPT ![n] = [inbox[n] EXCEPT ![c] = Tail(inbox[n][c])]]
    BY <1>6
  <2> HIDE DEF r
  <2>4. \A p \in r.successful : p \in Others(c, Leader[c]) /\ <<p, c>> \in Done
    <3>1. m.from \in Others(c, Leader[c]) /\ <<m.from, c>> \in Done
      BY <1>2, <1>6 DEF SuccessOK
    <3> HIDE DEF m
    <3> QED BY <1>3, <2>1, <3>1 DEF ChanOK
  <2> QED BY <1>4, <1>6, <2>1, <2>2, <2>3, <2>4
<1>7. CASE Fail(n, c)
  BY <1>1, <1>7, FailOK
<1> QED BY <1>5, <1>6, <1>7 DEF ReceiveOne

(* A task notices that a connection was interrupted. *)
LEMMA NoticeInterruptedOK ==
  ASSUME ChannelsInv, NEW n \in Node, NEW c \in Channel, NoticeInterrupted(n, c)
  PROVE  ChannelsInv'
<1>1. HasObject(n, c) /\ waiting' = waiting /\ Fail(n, c)
  BY DEF NoticeInterrupted, HasObject, Active
<1> QED BY <1>1, FailOK

(* A task takes too long. *)
LEMMA TimeoutOK ==
  ASSUME ChannelsInv, NEW n \in Node, NEW c \in Channel, Timeout(n, c)
  PROVE  ChannelsInv'
<1>1. HasObject(n, c) /\ waiting' = waiting /\ Fail(n, c)
  BY DEF Timeout
<1> QED BY <1>1, FailOK

(* A follower sends Success in the step in which it succeeds. *)
LEMMA FinishOK ==
  ASSUME ChannelsInv, NEW n \in Node, NEW c \in Channel, Finish(n, c)
  PROVE  ChannelsInv'
<1>0. ChanInv /\ LinksOK(Begun, Done, link) /\ BoxesOK(Done, inbox)
  BY DEF ChannelsInv
<1>1. HasObject(n, c) /\ waiting' = waiting
  BY DEF Finish, HasObject, Active
<1>2. CASE /\ n = Leader[c] /\ c \in Waits
           /\ chan' = [chan EXCEPT ![n][c].pc = "waiting"]
           /\ UNCHANGED <<link, senders, inbox>>
  <2> DEFINE r == [chan[n][c] EXCEPT !.pc = "waiting"]
  <2>a. "waiting" \in Pc
    BY DEF Pc, Active
  <2>b. PcMoved(n, c, r, "waiting")
    BY <1>0, <1>1, <1>2, <2>a, PcMoves
  <2> HIDE DEF r
  <2>1. /\ Moves(n, c, r) /\ r.pc = "waiting" /\ Done \subseteq Done' /\ n \in ToSet(Participants[c])
        /\ \A p \in r.successful : p \in Others(c, Leader[c]) /\ <<p, c>> \in Done'
    BY <2>b DEF PcMoved
  <2>2. ChanOK(Done', n, c, r)
    BY <1>2, <2>1 DEF ChanOK
  <2>3. LinksOK(Begun, Done', link') /\ BoxesOK(Done', inbox')
    BY <1>0, <1>2, <2>1, LinksLater, BoxesLater
  <2>4. UNCHANGED <<senders, waiting>> /\ r.pc \in Active \cup {"created"}
    BY <1>1, <1>2, <2>1 DEF Active
  <2> QED BY <1>1, <2>1, <2>2, <2>3, <2>4, GoesOn
<1>3. CASE /\ ~(n = Leader[c] /\ c \in Waits)
           /\ chan' = [chan EXCEPT ![n][c].pc = "succeeded"]
           /\ link' = IF n # Leader[c] /\ c \in Waits
                      THEN SentTo(link, n, {Leader[c]}, chan[n][c].versions, Msg(c, n, "Success"))
                      ELSE link
           /\ Dropped(n, c)
  <2> DEFINE r == [chan[n][c] EXCEPT !.pc = "succeeded"]
  <2>a. "succeeded" \in Pc
    BY DEF Pc
  <2>b. PcMoved(n, c, r, "succeeded")
    BY <1>0, <1>1, <1>3, <2>a, PcMoves
  <2> HIDE DEF r
  <2>1. /\ Moves(n, c, r) /\ r.pc = "succeeded" /\ Done \subseteq Done'
        /\ n \in ToSet(Participants[c])
        /\ \A p \in r.successful : p \in Others(c, Leader[c]) /\ <<p, c>> \in Done'
    BY <2>b DEF PcMoved
  <2>2. ChanOK(Done', n, c, r)
    BY <1>3, <2>1 DEF ChanOK
  <2>3. <<n, c>> \in Done'
    BY <1>0, <2>1, MovesOK
  <2>4. LinksOK(Begun, Done', link)
    BY <1>0, <2>1, LinksLater
  <2>5. LinksOK(Begun, Done', link')
    <3>1. CASE n # Leader[c] /\ c \in Waits
      <4> DEFINE m == Msg(c, n, "Success")
      <4>1. m \in Message /\ m.channel = c /\ m.from = n /\ m.kind = "Success"
        BY MsgOK
      <4>2. n \in Others(c, Leader[c])
        BY <2>1, <3>1 DEF Others
      <4>3. link' = SentTo(link, n, {Leader[c]}, chan[n][c].versions, m)
        BY <1>3, <3>1
      <4> HIDE DEF m
      <4>4. \A q \in Node \ {n} : q \in {Leader[c]} =>
              MayFollow(Begun, Done', n, q, link[n][q].pipe, m)
        BY <2>3, <4>1, <4>2 DEF MayFollow, SuccessOK, StartOK
      <4>5. LinksOK(Begun, Done', SentTo(link, n, {Leader[c]}, chan[n][c].versions, m))
        BY <2>4, <4>1, <4>4, SentOK
      <4> QED BY <4>3, <4>5
    <3>2. CASE ~(n # Leader[c] /\ c \in Waits)
      BY <1>3, <2>4, <3>2
    <3> QED BY <3>1, <3>2
  <2> QED BY <1>1, <1>3, <2>1, <2>2, <2>5, Ends
<1>4. CASE /\ chan' = [chan EXCEPT ![n][c].pc = "failed"]
           /\ link' = link /\ Dropped(n, c)
  <2> DEFINE r == [chan[n][c] EXCEPT !.pc = "failed"]
  <2>a. "failed" \in Pc
    BY DEF Pc
  <2>b. PcMoved(n, c, r, "failed")
    BY <1>0, <1>1, <1>4, <2>a, PcMoves
  <2> HIDE DEF r
  <2>1. /\ Moves(n, c, r) /\ r.pc = "failed" /\ Done \subseteq Done'
        /\ n \in ToSet(Participants[c])
        /\ \A p \in r.successful : p \in Others(c, Leader[c]) /\ <<p, c>> \in Done'
    BY <2>b DEF PcMoved
  <2>2. ChanOK(Done', n, c, r)
    BY <2>1 DEF ChanOK
  <2>3. LinksOK(Begun, Done', link')
    BY <1>0, <1>4, <2>1, LinksLater
  <2> QED BY <1>1, <1>4, <2>1, <2>2, <2>3, Ends
<1> QED BY <1>2, <1>3, <1>4 DEF Finish

(* The leader has counted as many followers as there are, so it has counted all of them. *)
LEMMA AllCounted ==
  ASSUME NEW c \in Channel, NEW T, T \subseteq Others(c, Leader[c]),
         Cardinality(T) >= Len(Participants[c]) - 1
  PROVE  T = Others(c, Leader[c])
<1> DEFINE s == Participants[c]
           all == ToSet(s)
           others == Others(c, Leader[c])
<1>1. s \in Seq(Node) /\ IsInjective(s) /\ Leader[c] \in all /\ DOMAIN s = 1..Len(s) /\ Len(s) \in Nat
  BY TaskChannelsAssumption
<1>2. s \in Bijection(1..Len(s), all)
  <2>1. s \in [1..Len(s) -> all] /\ \A i, j \in 1..Len(s) : s[i] = s[j] => i = j
    BY <1>1 DEF IsInjective, ToSet
  <2>2. \A y \in all : \E i \in 1..Len(s) : s[i] = y
    BY <1>1 DEF ToSet
  <2>3. DOMAIN s = 1..Len(s)
    BY <1>1
  <2> HIDE DEF s, all
  <2> QED BY <2>1, <2>2, <2>3 DEF Bijection, Injection, Surjection, IsInjective
<1>3. IsFiniteSet(1..Len(s)) /\ Cardinality(1..Len(s)) = Len(s)
  BY <1>1, FS_Interval
<1>4. IsFiniteSet(all) /\ Cardinality(all) = Len(s)
  <2>1. ExistsBijection(1..Len(s), all)
    BY <1>2 DEF ExistsBijection
  <2> QED BY <1>3, <2>1, FS_Bijection
<1>5. others = all \ {Leader[c]}
  BY DEF Others
<1>6. IsFiniteSet(others) /\ Cardinality(others) = Len(s) - 1
  <2>1. /\ IsFiniteSet(all \ {Leader[c]})
        /\ Cardinality(all \ {Leader[c]})
             = IF Leader[c] \in all THEN Cardinality(all) - 1 ELSE Cardinality(all)
    <3>1. IsFiniteSet(all)
      BY <1>4
    <3> HIDE DEF all
    <3> QED BY <3>1, FS_RemoveElement
  <2>2. Leader[c] \in all
    BY <1>1
  <2> HIDE DEF all, s
  <2> QED BY <1>4, <1>5, <2>1, <2>2
<1>7. Cardinality(T) <= Cardinality(others) /\ (Cardinality(T) = Cardinality(others) => T = others)
      /\ Cardinality(T) \in Nat
  BY <1>6, FS_Subset, FS_CardinalityType
<1> HIDE DEF s, others
<1>8. Cardinality(T) = Cardinality(others)
  BY <1>1, <1>6, <1>7 DEF s
<1> QED BY <1>7, <1>8 DEF others

(* The leader has heard of everybody's success. *)
LEMMA AllSucceededOK ==
  ASSUME ChannelsInv, NEW n \in Node, NEW c \in Channel, AllSucceeded(n, c)
  PROVE  ChannelsInv'
<1> DEFINE r == [chan[n][c] EXCEPT !.pc = "succeeded"]
<1>0. ChanInv /\ LinksOK(Begun, Done, link) /\ BoxesOK(Done, inbox)
  BY DEF ChannelsInv
<1>1. HasObject(n, c) /\ waiting' = waiting /\ Dropped(n, c)
  BY DEF AllSucceeded, HasObject, Active
<1>2. chan' = [chan EXCEPT ![n][c].pc = "succeeded"] /\ "succeeded" \in Pc
  BY DEF AllSucceeded, Pc
<1>3. PcMoved(n, c, r, "succeeded")
  BY <1>0, <1>1, <1>2, PcMoves
<1> HIDE DEF r
<1>4. /\ Moves(n, c, r) /\ r.pc = "succeeded" /\ Done \subseteq Done' /\ n \in ToSet(Participants[c])
      /\ r.successful = chan[n][c].successful
      /\ \A p \in r.successful : p \in Others(c, Leader[c]) /\ <<p, c>> \in Done'
  BY <1>3 DEF PcMoved
<1>5. r.successful = Others(c, Leader[c])
  BY <1>4, AllCounted DEF AllSucceeded
<1>6. ChanOK(Done', n, c, r)
  BY <1>4, <1>5 DEF ChanOK
<1>7. LinksOK(Begun, Done', link')
  BY <1>0, <1>4, LinksLater DEF AllSucceeded
<1> QED BY <1>1, <1>4, <1>6, <1>7, Ends

-----------------------------------------------------------------------------
(* A task starts. *)

(* The leader of a channel that has not begun finds no Start for it anywhere. *)
LEMMA NewChannelOK ==
  ASSUME ChannelsInv, NEW c \in Channel, NewChannel(c)
  PROVE  ChannelsInv'
<1> DEFINE n == Leader[c]
           e == Entered(n, c)
           versions == ConnectionVersions(n, c)
           recipients == {i \in DOMAIN Participants[c] : Participants[c][i] # n}
           failing == {i \in recipients : ~CanSend(link, n, Participants[c][i], versions)}
           ok == failing = {}
           reached == {Participants[c][i] : i \in {j \in recipients : \A f \in failing : j < f}}
           m == Msg(c, n, "Start")
           r == [NoChannel EXCEPT !.pc = IF ok THEN "created" ELSE "failed", !.versions = versions]
<1>0. ChanInv /\ TablesInv /\ LinksOK(Begun, Done, link) /\ BoxesOK(Done, inbox)
  BY DEF ChannelsInv
<1>1. /\ n \in Node /\ n \in ToSet(Participants[c])
      /\ \A q \in Node : Others(c, q) = ToSet(Participants[c]) \ {q}
      /\ Others(c, n) \subseteq Node \ {n}
  BY MembersOK
<1>2. /\ chan[n][c].pc = "none"
      /\ link' = SentTo(link, n, reached, versions, m)
      /\ waiting' = [waiting EXCEPT ![n] = Without(e.waiting, c)]
      /\ senders' = [senders EXCEPT ![n] = IF ok THEN e.senders ELSE e.senders \ {c}]
      /\ inbox' = [inbox EXCEPT ![n] =
                     [x \in Channel |-> IF x \in e.evicted THEN <<>> ELSE inbox[n][x]]]
      /\ chan' = [chan EXCEPT ![n] = [chan[n] EXCEPT ![c] = r]]
  BY DEF NewChannel
<1>3. reached \subseteq Others(c, n)
  BY <1>1 DEF ToSet
<1>4. versions \in Versions
  BY <1>0, <1>1, VersionsOK
<1>5. r \in Chan /\ r.pc = (IF ok THEN "created" ELSE "failed") /\ r.successful = {}
  <2> HIDE DEF ok, versions
  <2> QED BY <1>4 DEF NoChannel, Chan, Pc
<1>6. m \in Message /\ m.channel = c /\ m.from = n /\ m.kind = "Start"
  BY <1>1, MsgOK
<1>7. /\ Tables(e.senders, e.waiting, Objects(n)) /\ c \in ToSet(e.waiting) /\ c \notin Objects(n)
  <2>1. c \notin Objects(n)
    BY <1>2 DEF Objects, HasObject, Active
  <2>2. Tables(senders[n], waiting[n], Objects(n))
    BY <1>0, <1>1 DEF TablesInv
  <2>3. e = EnteredOf(senders[n], waiting[n], c)
    BY EnteredIs
  <2> HIDE DEF e
  <2> QED BY <2>1, <2>2, <2>3, EnteredOK
<1> HIDE DEF n, e, versions, recipients, failing, ok, reached, m, r
<1>8. Moves(n, c, r)
  BY <1>2, <1>5 DEF Moves
<1>9. /\ Begun' = Begun \cup {<<n, c>>} /\ Objects(n)' = ObjectAfter(Objects(n), c, r)
      /\ Done \subseteq Done' /\ \A q \in Node \ {n} : Objects(q)' = Objects(q)
  BY <1>0, <1>1, <1>8, MovesOK
<1>10. ChanInv'
  <2>1. ChanOK(Done', n, c, r)
    BY <1>1, <1>5 DEF ChanOK
  <2>2. LeaderFirst(n, c)'
    BY DEF LeaderFirst, n
  <2> QED BY <1>0, <1>1, <1>8, <2>1, <2>2, ChanKept
<1>11. TablesInv'
  <2>1. CASE ok
    <3>1. Objects(n)' = Objects(n) \cup {c}
      BY <1>5, <1>9, <2>1 DEF ObjectAfter
    <3>a. Tables(e.senders, Without(e.waiting, c), Objects(n) \cup {c})
      BY <1>7, StartedOK
    <3>2. Tables(e.senders, Without(e.waiting, c), Objects(n)')
      BY <3>1, <3>a
    <3>3. senders' = [senders EXCEPT ![n] = e.senders]
      BY <1>2, <2>1
    <3> QED BY <1>0, <1>1, <1>2, <1>9, <3>2, <3>3, TablesMove
  <2>2. CASE ~ok
    <3>1. Objects(n)' = Objects(n)
      BY <1>5, <1>7, <1>9, <2>2 DEF ObjectAfter, Active
    <3>2. Tables(e.senders \ {c}, Without(e.waiting, c), Objects(n)')
      BY <1>7, <3>1, StartedOK
    <3>3. senders' = [senders EXCEPT ![n] = e.senders \ {c}]
      BY <1>2, <2>2
    <3> QED BY <1>0, <1>1, <1>2, <1>9, <3>2, <3>3, TablesMove
  <2> QED BY <2>1, <2>2
<1>12. <<n, c>> \notin Begun
  BY <1>1, <1>2, InBegun
<1>13. ASSUME NEW p \in Node, NEW q \in Node \ {p}, NEW i \in 1..Len(link[p][q].pipe),
              link[p][q].pipe[i].kind = "Start"
       PROVE  link[p][q].pipe[i].channel # c /\ <<q, link[p][q].pipe[i].channel>> \notin Begun'
  <2> DEFINE x == link[p][q].pipe[i]
  <2>1. StartOK(Begun, p, q, x)
    BY <1>0 DEF LinksOK, PipeOK
  <2>2. /\ p = Leader[x.channel] /\ <<p, x.channel>> \in Begun /\ <<q, x.channel>> \notin Begun
    BY <1>13, <2>1 DEF StartOK
  <2> HIDE DEF x
  <2>3. x.channel # c
    BY <1>12, <2>2 DEF n
  <2>4. <<q, x.channel>> # <<n, c>>
    BY <2>3
  <2> QED BY <1>9, <2>2, <2>3, <2>4 DEF x
<1>14. LinksOK(Begun', Done', link)
  <2>1. ASSUME NEW p \in Node, NEW q \in Node \ {p}
        PROVE  PipeOK(Begun', Done', p, q, link[p][q].pipe)
    <3>1. PipeOK(Begun, Done, p, q, link[p][q].pipe)
      BY <1>0 DEF LinksOK
    <3> QED BY <1>9, <1>13, <3>1, PipeLater
  <2> QED BY <1>0, <2>1 DEF LinksOK
<1>15. LinksOK(Begun', Done', link')
  <2>1. ASSUME NEW q \in Node \ {n}, q \in reached
        PROVE  MayFollow(Begun', Done', n, q, link[n][q].pipe, m)
    <3>1. q \in Others(c, n)
      BY <1>3, <2>1
    <3>2. <<n, c>> \in Begun'
      BY <1>9
    <3>3. <<q, c>> \notin Begun'
      <4>1. <<q, c>> # <<n, c>>
        BY <2>1
      <4>2. <<q, c>> \notin Begun
        <5>1. LeaderFirst(q, c)
          BY <1>0 DEF ChanInv
        <5> QED BY <1>2, <5>1, InBegun DEF LeaderFirst, n
      <4> QED BY <1>9, <4>1, <4>2
    <3>4. StartOK(Begun', n, q, m)
      BY <1>6, <3>1, <3>2, <3>3 DEF StartOK, n
    <3>5. SuccessOK(Done', m)
      BY <1>6 DEF SuccessOK
    <3> QED BY <1>1, <1>6, <1>13, <3>4, <3>5 DEF MayFollow
  <2> QED BY <1>1, <1>2, <1>6, <1>14, <2>1, SentOK
<1>16. BoxesOK(Done', inbox')
  <2>1. BoxesOK(Done', inbox)
    BY <1>0, <1>9, BoxesLater
  <2> DEFINE gone == e.evicted
  <2>2. inbox' = [inbox EXCEPT ![n] = [x \in Channel |-> IF x \in gone THEN <<>> ELSE inbox[n][x]]]
    BY <1>2
  <2> HIDE DEF gone
  <2>3. BoxesOK(Done', [inbox EXCEPT ![n] =
                          [x \in Channel |-> IF x \in gone THEN <<>> ELSE inbox[n][x]]])
    BY <1>1, <2>1, BoxesEvicted
  <2> QED BY <2>2, <2>3
<1> QED BY <1>10, <1>11, <1>15, <1>16, LinksPrimed, BoxesPrimed DEF ChannelsInv

(* The Start for a channel finds it not begun, so it always starts it; any other message
   only fills an inbox. *)
LEMMA ReceiveOK ==
  ASSUME ChannelsInv, NEW p \in Node, NEW n \in Node \ {p}, Receive(p, n)
  PROVE  ChannelsInv'
<1> DEFINE pipe == link[p][n].pipe
           m == Head(pipe)
           c == m.channel
           e == Entered(n, c)
           gone == e.evicted
           buffer == [x \in Channel |-> IF x \in gone THEN <<>> ELSE inbox[n][x]]
           l == [link[p][n] EXCEPT !.pipe = Tail(pipe)]
           boxes == [inbox EXCEPT ![n] = buffer]
<1>0. ChanInv /\ TablesInv /\ LinksOK(Begun, Done, link) /\ BoxesOK(Done, inbox)
  BY DEF ChannelsInv
<1>1. /\ pipe # <<>> /\ senders' = [senders EXCEPT ![n] = e.senders]
      /\ link' = [link EXCEPT ![p] = [link[p] EXCEPT ![n] = l]]
  BY DEF Receive
<1>2. \/ /\ m.kind = "Start" /\ c \in ToSet(e.waiting)
         /\ waiting' = [waiting EXCEPT ![n] = Without(e.waiting, c)]
         /\ inbox' = boxes
         /\ chan' = [chan EXCEPT ![n] = [chan[n] EXCEPT ![c] =
                       [NoChannel EXCEPT !.pc = "connecting",
                                         !.versions = ConnectionVersions(n, c)]]]
      \/ /\ ~(m.kind = "Start" /\ c \in ToSet(e.waiting))
         /\ waiting' = [waiting EXCEPT ![n] = e.waiting]
         /\ inbox' = [inbox EXCEPT ![n] = [buffer EXCEPT ![c] = Append(inbox[n][c], m)]]
         /\ chan' = chan
  BY DEF Receive, Deliver
<1>3. PipeOK(Begun, Done, p, n, pipe) /\ link[p][n] \in Link
  BY <1>0 DEF LinksOK
<1>4. /\ PipeOK(Begun, Done, p, n, Tail(pipe)) /\ m \in Message
      /\ SuccessOK(Done, m) /\ StartOK(Begun, p, n, m)
      /\ m.kind = "Start" => \A i \in 1..Len(Tail(pipe)) :
                                ~(Tail(pipe)[i].kind = "Start" /\ Tail(pipe)[i].channel = c)
  <2> HIDE DEF pipe
  <2> QED BY <1>1, <1>3, PipeTail
<1>5. c \in Channel
  BY <1>4 DEF Message
<1>6. l \in Link /\ l.pipe = Tail(pipe)
  <2>1. Tail(pipe) \in Seq(Message)
    BY <1>4 DEF PipeOK
  <2> HIDE DEF pipe
  <2> QED BY <1>3, <2>1 DEF Link
<1>7. /\ Tables(e.senders, e.waiting, Objects(n))
      /\ c \notin Objects(n) => c \in ToSet(e.waiting)
  <2>2. Tables(senders[n], waiting[n], Objects(n))
    BY <1>0 DEF TablesInv
  <2>3. e = EnteredOf(senders[n], waiting[n], c)
    BY EnteredIs
  <2> HIDE DEF e, c
  <2> QED BY <1>5, <2>2, <2>3, EnteredOK
<1>8. BoxesOK(Done, boxes)
  <2> HIDE DEF gone
  <2> QED BY <1>0, BoxesEvicted, SMTT(60)
<1> HIDE DEF pipe, m, c, e, gone, buffer, l, boxes
<1>9. LinksOK(Begun, Done, link')
  <2>1. PipeOK(Begun, Done, p, n, l.pipe)
    BY <1>4, <1>6
  <2> QED BY <1>0, <1>1, <1>6, <2>1, LinkReplaced
<1>10. CASE m.kind = "Start"
  <2> DEFINE versions == ConnectionVersions(n, c)
             r == [NoChannel EXCEPT !.pc = "connecting", !.versions = versions]
  <2>1. /\ p = Leader[c] /\ n \in Others(c, p) /\ <<p, c>> \in Begun /\ <<n, c>> \notin Begun
    BY <1>4, <1>10 DEF StartOK, c
  <2>2. chan[n][c].pc = "none" /\ c \notin Objects(n)
    BY <1>5, <2>1, InBegun DEF Objects, HasObject, Active
  <2>3. /\ waiting' = [waiting EXCEPT ![n] = Without(e.waiting, c)]
        /\ inbox' = boxes
        /\ chan' = [chan EXCEPT ![n] = [chan[n] EXCEPT ![c] = r]]
        /\ c \in ToSet(e.waiting)
    BY <1>2, <1>7, <1>10, <2>2
  <2>4. r \in Chan /\ r.pc = "connecting" /\ r.successful = {}
    <3>1. versions \in Versions
      BY <1>0, <1>5, VersionsOK
    <3> HIDE DEF versions
    <3> QED BY <3>1 DEF NoChannel, Chan, Pc, Active
  <2> HIDE DEF versions, r
  <2>5. Moves(n, c, r)
    BY <2>2, <2>3, <2>4 DEF Moves
  <2>6. /\ Begun' = Begun \cup {<<n, c>>} /\ Objects(n)' = ObjectAfter(Objects(n), c, r)
        /\ Done \subseteq Done' /\ \A q \in Node \ {n} : Objects(q)' = Objects(q)
        /\ \A a \in Node, d \in Channel : a # n \/ d # c => chan'[a][d] = chan[a][d]
    BY <1>0, <1>5, <2>5, MovesOK
  <2>7. n \in ToSet(Participants[c])
    BY <2>1 DEF Others
  <2>8. ChanInv'
    <3>0. PICK d \in Channel : d = c
      BY <1>5
    <3>1. ChanOK(Done', n, d, r) /\ Moves(n, d, r)
      BY <2>4, <2>5, <2>7, <3>0 DEF ChanOK
    <3>2. LeaderFirst(n, d)'
      <4>1. chan[p][d].pc # "none" /\ p = Leader[d]
        BY <2>1, <3>0, InBegun
      <4>2. chan'[p][d] = chan[p][d]
        BY <2>6, <3>0
      <4> QED BY <4>1, <4>2 DEF LeaderFirst
    <3> QED BY <1>0, <3>1, <3>2, ChanKept
  <2>9. TablesInv'
    <3>1. Objects(n)' = Objects(n) \cup {c}
      BY <2>4, <2>6 DEF ObjectAfter, Active
    <3>2. Tables(e.senders, Without(e.waiting, c), Objects(n) \cup {c})
      BY <1>5, <1>7, <2>3, StartedOK
    <3>3. Tables(e.senders, Without(e.waiting, c), Objects(n)')
      BY <3>1, <3>2
    <3> QED BY <1>0, <1>1, <2>3, <2>6, <3>3, TablesMove
  <2>10. LinksOK(Begun', Done', link')
    <3>1. ASSUME NEW a \in Node, NEW b \in Node \ {a}, NEW i \in 1..Len(link'[a][b].pipe),
                 link'[a][b].pipe[i].kind = "Start"
          PROVE  <<b, link'[a][b].pipe[i].channel>> \notin Begun'
      <4> DEFINE x == link'[a][b].pipe[i]
      <4>1. StartOK(Begun, a, b, x)
        BY <1>9 DEF LinksOK, PipeOK
      <4>2. x.kind = "Start"
        BY <3>1
      <4>3. a = Leader[x.channel] /\ <<b, x.channel>> \notin Begun
        BY <4>1, <4>2 DEF StartOK
      <4>4. ~(a = p /\ b = n /\ x.channel = c)
        <5>1. link'[p][n] = l
          BY <1>0, <1>1 DEF LinksOK
        <5>2. ASSUME a = p, b = n, x.channel = c PROVE FALSE
          <6>1. i \in 1..Len(Tail(pipe)) /\ x = Tail(pipe)[i]
            BY <1>6, <5>1, <5>2
          <6> HIDE DEF x
          <6> QED BY <1>4, <1>10, <4>2, <5>2, <6>1
        <5> QED BY <5>2
      <4> HIDE DEF x
      <4>5. <<b, x.channel>> # <<n, c>>
        BY <2>1, <4>3, <4>4
      <4>6. <<b, x.channel>> \notin Begun'
        BY <2>6, <4>3, <4>5
      <4> QED BY <4>6 DEF x
    <3>2. ASSUME NEW a \in Node, NEW b \in Node \ {a}
          PROVE  PipeOK(Begun', Done', a, b, link'[a][b].pipe)
      <4>1. PipeOK(Begun, Done, a, b, link'[a][b].pipe)
        BY <1>9 DEF LinksOK
      <4> QED BY <2>6, <3>1, <4>1, PipeLater
    <3> QED BY <1>9, <3>2 DEF LinksOK
  <2>11. BoxesOK(Done', inbox')
    BY <1>8, <2>3, <2>6, BoxesLater
  <2> QED BY <2>8, <2>9, <2>10, <2>11, LinksPrimed, BoxesPrimed DEF ChannelsInv
<1>11. CASE m.kind # "Start"
  <2>1. /\ waiting' = [waiting EXCEPT ![n] = e.waiting]
        /\ inbox' = [inbox EXCEPT ![n] = [buffer EXCEPT ![c] = Append(inbox[n][c], m)]]
        /\ chan' = chan
    BY <1>2, <1>11
  <2>2. Begun' = Begun /\ Done' = Done /\ \A q \in Node : Objects(q)' = Objects(q)
    BY <2>1 DEF Begun, Done, Objects, HasObject
  <2>3. ChanInv'
    BY <1>0, <2>1 DEF ChanInv, ChanOK, LeaderFirst, Done, Others
  <2>4. TablesInv'
    <3>1. Tables(e.senders, e.waiting, Objects(n)')
      BY <1>7, <2>2
    <3> QED BY <1>0, <1>1, <2>1, <2>2, <3>1, TablesMove
  <2>5. BoxesOK(Done, inbox')
    <3>1. InboxOK(Done, c, inbox[n][c])
      BY <1>0, <1>5 DEF BoxesOK
    <3>2. InboxOK(Done, c, Append(inbox[n][c], m))
      BY <1>4, <3>1, BoxAppend DEF c
    <3>3. boxes[n] = buffer /\ inbox' = [boxes EXCEPT ![n] = [buffer EXCEPT ![c] = Append(inbox[n][c], m)]]
      <4>1. inbox \in [Node -> [Channel -> Seq(Message)]]
        BY <1>0 DEF BoxesOK
      <4> QED BY <2>1, <4>1 DEF boxes
    <3>4. BoxesOK(Done, [boxes EXCEPT ![n] = [boxes[n] EXCEPT ![c] = Append(inbox[n][c], m)]])
      BY <1>5, <1>8, <3>2, BoxReplaced
    <3> QED BY <3>3, <3>4
  <2>6. LinksOK(Begun', Done', link') /\ BoxesOK(Done', inbox')
    BY <1>9, <2>2, <2>5
  <2> QED BY <2>3, <2>4, <2>6, LinksPrimed, BoxesPrimed DEF ChannelsInv
<1> QED BY <1>10, <1>11

-----------------------------------------------------------------------------
(* The network. *)

(* A step that changes only the links. *)
LEMMA OnlyLinks ==
  ASSUME ChannelsInv, UNCHANGED <<senders, waiting, inbox, chan>>, LinksOK(Begun, Done, link')
  PROVE  ChannelsInv'
<1>0. ChanInv /\ TablesInv /\ BoxesOK(Done, inbox)
  BY DEF ChannelsInv
<1>1. Begun' = Begun /\ Done' = Done /\ \A q \in Node : Objects(q)' = Objects(q)
  BY DEF Begun, Done, Objects, HasObject
<1>2. ChanInv'
  BY <1>0 DEF ChanInv, ChanOK, LeaderFirst, Done, Others
<1>3. TablesInv'
  BY <1>0, <1>1 DEF TablesInv, Tables
<1>4. LinksOK(Begun', Done', link') /\ BoxesOK(Done', inbox')
  BY <1>0, <1>1
<1> QED BY <1>2, <1>3, <1>4, LinksPrimed, BoxesPrimed DEF ChannelsInv

(* A connection is lost. *)
LEMMA InterruptOK ==
  ASSUME ChannelsInv, NEW p \in Node, NEW q \in Node \ {p}, Interrupt(p, q)
  PROVE  ChannelsInv'
<1>0. LinksOK(Begun, Done, link)
  BY DEF ChannelsInv
<1>1. PICK i \in 0..Len(link[p][q].pipe) :
        link' = [link EXCEPT ![p][q].up = FALSE, ![p][q].pipe = SubSeq(@, 1, i)]
  BY DEF Interrupt
<1> DEFINE t == SubSeq(link[p][q].pipe, 1, i)
           l == [link[p][q] EXCEPT !.up = FALSE, !.pipe = t]
<1>2. PipeOK(Begun, Done, p, q, link[p][q].pipe) /\ link[p][q] \in Link
  BY <1>0 DEF LinksOK
<1>3. PipeOK(Begun, Done, p, q, t)
  BY <1>2, PipePrefix
<1>4. t \in Seq(Message)
  BY <1>3 DEF PipeOK
<1>5. link' = [link EXCEPT ![p] = [link[p] EXCEPT ![q] = l]]
  <2>1. link \in [Node -> UNION {[Node \ {n} -> Link] : n \in Node}] /\ link[p] \in [Node \ {p} -> Link]
    BY <1>0 DEF LinksOK
  <2> HIDE DEF t
  <2>2. link' = [link EXCEPT ![p][q].up = FALSE, ![p][q].pipe = t]
    BY <1>1, <2>1 DEF t
  <2> QED BY <1>2, <2>1, <2>2
<1> HIDE DEF t
<1>6. l \in Link /\ l.pipe = t
  BY <1>2, <1>4 DEF Link
<1> HIDE DEF l
<1>7. LinksOK(Begun, Done, link')
  BY <1>0, <1>3, <1>5, <1>6, LinkReplaced
<1> QED BY <1>7, OnlyLinks DEF Interrupt

(* A connection is made again. *)
LEMMA ReconnectOK ==
  ASSUME ChannelsInv, NEW p \in Node, NEW q \in Node \ {p}, Reconnect(p, q)
  PROVE  ChannelsInv'
<1>0. LinksOK(Begun, Done, link)
  BY DEF ChannelsInv
<1> DEFINE l == [link[p][q] EXCEPT !.up = TRUE, !.version = @ + 1]
<1>1. link' = [link EXCEPT ![p] = [link[p] EXCEPT ![q] = l]]
  <2>1. link' = [link EXCEPT ![p][q].up = TRUE, ![p][q].version = @ + 1]
    BY DEF Reconnect
  <2>2. link \in [Node -> UNION {[Node \ {n} -> Link] : n \in Node}] /\ link[p] \in [Node \ {p} -> Link]
    BY <1>0 DEF LinksOK
  <2> QED BY <2>1, <2>2
<1>2. PipeOK(Begun, Done, p, q, link[p][q].pipe) /\ link[p][q] \in Link
  BY <1>0 DEF LinksOK
<1>3. l \in Link /\ l.pipe = link[p][q].pipe
  <2>1. link[p][q].version \in Nat /\ link[p][q].version + 1 \in Nat
    BY <1>2 DEF Link
  <2> QED BY <1>2, <2>1 DEF Link
<1> HIDE DEF l
<1>4. LinksOK(Begun, Done, link')
  BY <1>0, <1>1, <1>2, <1>3, LinkReplaced
<1> QED BY <1>4, OnlyLinks DEF Reconnect

-----------------------------------------------------------------------------
(* The theorem. *)

(* The invariant holds at the start. *)
LEMMA InitOK == Init => ChannelsInv
<1> SUFFICES ASSUME Init PROVE ChannelsInv
  OBVIOUS
<1> USE DEF Init
<1>1. \A n \in Node, c \in Channel : chan[n][c] = NoChannel
  OBVIOUS
<1>2. NoChannel \in Chan /\ NoChannel.pc = "none" /\ NoChannel.successful = {}
  <2>1. [p \in {} |-> 0] \in Versions
    <3>1. [p \in {} |-> 0] \in [{} -> [outgoing : Nat, incoming : Nat]]
      OBVIOUS
    <3> QED BY <3>1 DEF Versions
  <2> QED BY <2>1 DEF NoChannel, Chan, Pc
<1>3. ChanInv
  <2>1. chan \in [Node -> [Channel -> Chan]]
    BY <1>2
  <2>2. \A n \in Node, c \in Channel : ChanOK(Done, n, c, chan[n][c]) /\ LeaderFirst(n, c)
    BY <1>1, <1>2 DEF ChanOK, LeaderFirst
  <2> QED BY <2>1, <2>2 DEF ChanInv
<1>4. TablesInv
  <2>1. \A n \in Node : Objects(n) = {}
    BY <1>1, <1>2 DEF Objects, HasObject, Active
  <2>2. <<>> \in Seq(Channel) /\ Len(<<>>) = 0 /\ ToSet(<<>>) = {} /\ IsInjective(<<>>)
    BY DEF ToSet, IsInjective
  <2>3. Tables({}, <<>>, {})
    BY <2>2, TaskChannelsAssumption DEF Tables
  <2> QED BY <2>1, <2>2, <2>3 DEF TablesInv
<1>5. LinksOK(Begun, Done, link)
  <2> DEFINE l == [version |-> 1, up |-> TRUE, pipe |-> <<>>]
  <2>1. l \in Link /\ l.pipe = <<>>
    BY DEF Link
  <2>2. \A p, q : PipeOK(Begun, Done, p, q, <<>>)
    BY DEF PipeOK
  <2>3. link = [n \in Node |-> [p \in Node \ {n} |-> l]]
    OBVIOUS
  <2> HIDE DEF l
  <2>4. ASSUME NEW n \in Node
        PROVE  link[n] \in [Node \ {n} -> Link] /\ \A q \in Node \ {n} : link[n][q] = l
    <3>1. link[n] = [p \in Node \ {n} |-> l]
      BY <2>3
    <3> QED BY <2>1, <3>1
  <2>5. link \in [Node -> UNION {[Node \ {n} -> Link] : n \in Node}]
    BY <2>3, <2>4
  <2> QED BY <2>1, <2>2, <2>4, <2>5 DEF LinksOK
<1>6. BoxesOK(Done, inbox)
  BY BoxEmpty DEF BoxesOK
<1> QED BY <1>3, <1>4, <1>5, <1>6 DEF ChannelsInv

(* Every step preserves the invariant. *)
LEMMA NextOK == ChannelsInv /\ [Next]_vars => ChannelsInv'
<1> SUFFICES ASSUME ChannelsInv, [Next]_vars PROVE ChannelsInv'
  OBVIOUS
<1>1. ASSUME NEW n \in Node, NEW c \in Channel,
             \/ Connected(n, c) \/ StartComputation(n, c) \/ ReceiveOne(n, c)
             \/ NoticeInterrupted(n, c) \/ Finish(n, c) \/ AllSucceeded(n, c)
             \/ Timeout(n, c)
      PROVE  ChannelsInv'
  BY <1>1, ConnectedOK, StartComputationOK, ReceiveOneOK, NoticeInterruptedOK, FinishOK,
     AllSucceededOK, TimeoutOK
<1>2. ASSUME NEW p \in Node, NEW q \in Node \ {p},
             Receive(p, q) \/ Interrupt(p, q) \/ Reconnect(p, q)
      PROVE  ChannelsInv'
  BY <1>2, ReceiveOK, InterruptOK, ReconnectOK
<1>3. ASSUME NEW c \in Channel, NewChannel(c) PROVE ChannelsInv'
  BY <1>3, NewChannelOK
<1>4. CASE UNCHANGED vars
  <2>1. LinksOK(Begun, Done, link) /\ UNCHANGED <<senders, waiting, inbox, chan, link>>
    BY <1>4 DEF ChannelsInv, vars
  <2> QED BY <2>1, OnlyLinks
<1> QED BY <1>1, <1>2, <1>3, <1>4 DEF Next, Step

(* The invariant contains what is claimed of channels. *)
LEMMA InvSound == ChannelsInv => ChannelsSound
<1> SUFFICES ASSUME ChannelsInv PROVE ChannelsSound
  OBVIOUS
<1>0. ChanInv /\ TablesInv /\ LinksOK(Begun, Done, link)
  BY DEF ChannelsInv
<1>1. TypeOK
  <2>1. ASSUME NEW n \in Node
        PROVE  /\ senders[n] \subseteq Channel
               /\ Len(waiting[n]) <= LruCapacity /\ IsInjective(waiting[n])
    BY <1>0 DEF TablesInv, Tables
  <2>2. ASSUME NEW n \in Node, NEW c \in Channel
        PROVE  chan[n][c].pc \in Pc /\ chan[n][c].got \subseteq Node
    <3>1. chan[n][c] \in Chan
      BY <1>0 DEF ChanInv
    <3> QED BY <3>1 DEF Chan
  <2>3. ASSUME NEW p \in Node, NEW q \in Node \ {p}
        PROVE  link[p][q].version \in Nat /\ link[p][q].up \in BOOLEAN
    <3>1. link[p][q] \in Link
      BY <1>0 DEF LinksOK
    <3> QED BY <3>1 DEF Link
  <2> QED BY <2>1, <2>2, <2>3 DEF TypeOK, Pc
<1>2. SendersInvariant
  <2> SUFFICES ASSUME NEW n \in Node, NEW c \in Channel
               PROVE  /\ c \in senders[n] <=> (c \in ToSet(waiting[n]) \/ HasObject(n, c))
                      /\ ~(c \in ToSet(waiting[n]) /\ HasObject(n, c))
    BY DEF SendersInvariant
  <2>1. Tables(senders[n], waiting[n], Objects(n))
    BY <1>0 DEF TablesInv
  <2>2. c \in Objects(n) <=> HasObject(n, c)
    BY DEF Objects
  <2> QED BY <2>1, <2>2 DEF Tables
<1>3. LeaderSuccessIsGlobal
  <2> SUFFICES ASSUME NEW c \in Waits, chan[Leader[c]][c].pc = "succeeded",
                      NEW p \in ToSet(Participants[c])
               PROVE  chan[p][c].pc = "succeeded"
    BY DEF LeaderSuccessIsGlobal
  <2>1. c \in Channel
    BY TaskChannelsAssumption
  <2>2. Leader[c] \in Node /\ p \in Node
    BY <2>1, MembersOK
  <2>3. ChanOK(Done, Leader[c], c, chan[Leader[c]][c])
    BY <1>0, <2>1, <2>2 DEF ChanInv
  <2>4. p # Leader[c] => <<p, c>> \in Done
    BY <2>3 DEF ChanOK, Others
  <2> QED BY <2>1, <2>2, <2>4, InBegun
<1> QED BY <1>1, <1>2, <1>3 DEF ChannelsSound

(* In every behaviour, whatever links break, messages are lost with them and computations
   time out, the senders map of each node holds exactly the channels that wait for their
   Start and those with a live object, no channel is both (the invariant written at
   sender_for), and a leader that waits for its followers (leader_waits_for_success)
   succeeds only after all of them have. *)
THEOREM ChannelsSoundAlways == Spec => []ChannelsSound
<1>1. Spec => []ChannelsInv
  BY InitOK, NextOK, PTL DEF Spec
<1> QED BY <1>1, InvSound, PTL
=============================================================================
