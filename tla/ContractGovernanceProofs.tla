---------------------- MODULE ContractGovernanceProofs ----------------------
(***************************************************************************)
(* Theorems about the votes and the allow lists of the contract, for any   *)
(* accounts, parameters, images, launchers and grace period.               *)
(***************************************************************************)
EXTENDS ContractGovernance, SequenceTheorems, FiniteSetTheorems, WellFoundedInduction, TLAPS

(***************************************************************************)
(* Least and greatest elements, from the well-foundedness of < on Nat.     *)
(***************************************************************************)

\* The order < of the natural numbers is well founded, as a set of pairs.
LEMMA NatOrder == \E R : R = {ss \in Nat \X Nat : ss[1] < ss[2]} /\ IsWellFoundedOn(R, Nat)
<1>1. IsWellFoundedOn(OpToRel(<, Nat), Nat)
  BY NatLessThanWellFounded
<1> QED BY <1>1 DEF OpToRel

\* A non-empty set of natural numbers has a least element.
LEMMA LeastNat ==
  ASSUME NEW T \in SUBSET Nat, T # {}
  PROVE  \E n \in T : \A m \in T : n <= m
<1>1. PICK R : R = {ss \in Nat \X Nat : ss[1] < ss[2]} /\ IsWellFoundedOn(R, Nat)
  BY NatOrder
<1>2. PICK x \in T : \A y \in T : ~ (<<y, x>> \in R)
  BY <1>1, WFMin, Zenon
<1>3. ASSUME NEW y \in T PROVE x <= y
  <2>1. ~ (<<y, x>> \in R) BY <1>2
  <2>2. x \in Nat /\ y \in Nat OBVIOUS
  <2>3. y < x => <<y, x>> \in R
    <3>1. <<y, x>> \in Nat \X Nat /\ <<y, x>>[1] = y /\ <<y, x>>[2] = x BY <2>2
    <3> QED BY <3>1, <1>1
  <2> QED BY <2>1, <2>2, <2>3
<1> QED BY <1>3

\* A non-empty set of positions has a last one.
LEMMA LastPosition ==
  ASSUME NEW N \in Nat, NEW T \in SUBSET (1 .. N), T # {}
  PROVE  \E n \in T : \A m \in T : m <= n
<1> DEFINE U == {k \in Nat : \E m \in T : k = N - m}
<1>1. U \in SUBSET Nat BY DEF U
<1>2. \A m \in T : N - m \in U BY DEF U
<1>3. PICK u \in U : \A m \in U : u <= m
  <2>1. U # {} BY <1>2
  <2> HIDE DEF U
  <2> QED BY <1>1, <2>1, LeastNat
<1>4. PICK n \in T : u = N - n BY DEF U
<1>5. ASSUME NEW m \in T PROVE m <= n
  <2>1. u <= N - m BY <1>2, <1>3
  <2>2. m \in Int /\ n \in Int OBVIOUS
  <2> QED BY <2>1, <2>2, <1>4
<1> QED BY <1>5

(***************************************************************************)
(* The list of allowed images.                                             *)
(***************************************************************************)
Entry == [image_hash : Images, added : Nat]

SortedByAge(list) == \A i, j \in 1 .. Len(list) : i < j => list[i].added <= list[j].added

NothingYounger(list, t) == \A i \in 1 .. Len(list) : list[i].added <= t

\* The cutoff of a list that is not empty is one of its positions: the first
\* one or an enforced one, and no later entry is enforced.
LEMMA CutoffShape ==
  ASSUME NEW list \in Seq(Entry), list # <<>>, NEW t \in Nat
  PROVE  /\ Cutoff(list, t) \in 1 .. Len(list)
         /\ Cutoff(list, t) = 1 \/ Enforced(list[Cutoff(list, t)], t)
         /\ \A j \in 1 .. Len(list) : Cutoff(list, t) < j => ~Enforced(list[j], t)
<1> DEFINE E == {i \in 1 .. Len(list) : Enforced(list[i], t)}
<1>1. Len(list) \in Nat /\ Len(list) >= 1
  BY EmptySeq, LenProperties
<1>2. Cutoff(list, t) = IF E = {} THEN 1 ELSE CHOOSE i \in E : \A j \in E : j <= i
  BY DEF Cutoff
<1>3. \A i \in 1 .. Len(list) : i \in E <=> Enforced(list[i], t)
  OBVIOUS
<1>4. E \in SUBSET (1 .. Len(list))
  OBVIOUS
<1> HIDE DEF E
<1>5. CASE E = {}
  BY <1>1, <1>2, <1>3, <1>5
<1>6. CASE E # {}
  <2>1. \E i \in E : \A j \in E : j <= i
    BY <1>1, <1>4, <1>6, LastPosition
  <2>2. Cutoff(list, t) \in E /\ \A j \in E : j <= Cutoff(list, t)
    BY <2>1, <1>2, <1>6
  <2>3. Cutoff(list, t) \in 1 .. Len(list)
    BY <2>2, <1>4
  <2> QED BY <2>2, <2>3, <1>3, <1>1
<1> QED BY <1>5, <1>6

\* What ValidEntries returns, position by position.
LEMMA ValidShape ==
  ASSUME NEW list \in Seq(Entry), list # <<>>, NEW t \in Nat
  PROVE  /\ ValidEntries(list, t) \in Seq(Entry)
         /\ Len(ValidEntries(list, t)) = Len(list) - Cutoff(list, t) + 1
         /\ \A i \in 1 .. Len(list) - Cutoff(list, t) + 1 :
              ValidEntries(list, t)[i] = list[Cutoff(list, t) + i - 1]
<1> DEFINE c == Cutoff(list, t)
<1>1. c \in 1 .. Len(list) /\ Len(list) \in Nat
  BY CutoffShape, LenProperties
<1>2. \A i \in c .. Len(list) : list[i] \in Entry
  BY <1>1, ElementOfSeq
<1>3. ValidEntries(list, t) = SubSeq(list, c, Len(list))
  BY DEF ValidEntries
<1>4. c \in Int /\ Len(list) \in Int /\ c <= Len(list)
  BY <1>1
<1> HIDE DEF c
<1>5. /\ SubSeq(list, c, Len(list)) \in Seq(Entry)
      /\ Len(SubSeq(list, c, Len(list))) = IF c <= Len(list) THEN Len(list) - c + 1 ELSE 0
      /\ \A i \in 1 .. Len(list) - c + 1 : SubSeq(list, c, Len(list))[i] = list[c + i - 1]
  BY <1>2, <1>4, SubSeqProperties
<1> QED BY <1>3, <1>4, <1>5 DEF c

\* The images allowed are those of the entries from the cutoff on.
LEMMA AllowedShape ==
  ASSUME NEW list \in Seq(Entry), list # <<>>, NEW t \in Nat, NEW x
  PROVE  x \in AllowedImages(list, t) <=>
           \E k \in 1 .. Len(list) : Cutoff(list, t) <= k /\ list[k].image_hash = x
<1> DEFINE c == Cutoff(list, t)
           v == ValidEntries(list, t)
<1>1. c \in 1 .. Len(list) /\ Len(list) \in Nat
  BY CutoffShape, LenProperties
<1>2. Len(v) = Len(list) - c + 1 /\ \A i \in 1 .. Len(list) - c + 1 : v[i] = list[c + i - 1]
  BY ValidShape
<1>3. x \in AllowedImages(list, t) <=> \E i \in 1 .. Len(v) : v[i].image_hash = x
  BY DEF AllowedImages, ImagesOf
<1> HIDE DEF c, v
<1>4. ASSUME NEW i \in 1 .. Len(v), v[i].image_hash = x
      PROVE  \E k \in 1 .. Len(list) : c <= k /\ list[k].image_hash = x
  <2>1. c + i - 1 \in 1 .. Len(list) /\ c <= c + i - 1 BY <1>1, <1>2
  <2>2. v[i] = list[c + i - 1] BY <1>2
  <2> QED BY <2>1, <2>2, <1>4
<1>5. ASSUME NEW k \in 1 .. Len(list), c <= k, list[k].image_hash = x
      PROVE  \E i \in 1 .. Len(v) : v[i].image_hash = x
  <2>1. k - c + 1 \in 1 .. Len(list) - c + 1 /\ c + (k - c + 1) - 1 = k BY <1>1, <1>5
  <2>2. v[k - c + 1] = list[k] BY <1>2, <2>1
  <2> QED BY <2>1, <2>2, <1>2, <1>5
<1> QED BY <1>3, <1>4, <1>5 DEF c

\* Removing the first entry of an image: nothing changes, or the entries
\* after it move up by one.
LEMMA WithoutShape ==
  ASSUME NEW v \in Seq(Entry), NEW image \in Images
  PROVE  \/ WithoutImage(v, image) = v
         \/ \E p \in 1 .. Len(v) :
              /\ v[p].image_hash = image
              /\ WithoutImage(v, image) \in Seq(Entry)
              /\ Len(WithoutImage(v, image)) = Len(v) - 1
              /\ \A i \in 1 .. Len(v) - 1 :
                   WithoutImage(v, image)[i] = IF i < p THEN v[i] ELSE v[i + 1]
<1> DEFINE at == {i \in 1 .. Len(v) : v[i].image_hash = image}
           p == CHOOSE i \in at : \A j \in at : i <= j
<1>1. WithoutImage(v, image) = IF at = {} THEN v ELSE RemoveAt(v, p)
  BY DEF WithoutImage
<1>2. Len(v) \in Nat
  BY LenProperties
<1>3. CASE at = {}
  BY <1>1, <1>3
<1>4. CASE at # {}
  <2>1. at \in SUBSET Nat
    BY <1>2
  <2>2. \E i \in at : \A j \in at : i <= j
    <3> HIDE DEF at
    <3> QED BY <1>4, <2>1, LeastNat
  <2>3. p \in at
    <3> HIDE DEF at
    <3> QED BY <2>2
  <2>4. p \in 1 .. Len(v) /\ v[p].image_hash = image
    <3> HIDE DEF p
    <3> QED BY <2>3
  <2>5. WithoutImage(v, image) = RemoveAt(v, p)
    BY <1>1, <1>4
  <2> HIDE DEF p, at
  <2>6. \A i \in 1 .. Len(v) : v[i] \in Entry
    BY ElementOfSeq
  <2>7. /\ SubSeq(v, 1, p - 1) \in Seq(Entry)
        /\ Len(SubSeq(v, 1, p - 1)) = p - 1
        /\ \A i \in 1 .. p - 1 : SubSeq(v, 1, p - 1)[i] = v[i]
    <3>1. 1 \in Int /\ p - 1 \in Int /\ \A i \in 1 .. p - 1 : v[i] \in Entry
      BY <2>4, <2>6, <1>2
    <3>2. /\ SubSeq(v, 1, p - 1) \in Seq(Entry)
          /\ Len(SubSeq(v, 1, p - 1)) = IF 1 <= p - 1 THEN p - 1 - 1 + 1 ELSE 0
          /\ \A i \in 1 .. p - 1 - 1 + 1 : SubSeq(v, 1, p - 1)[i] = v[1 + i - 1]
      BY <3>1, SubSeqProperties
    <3> QED BY <3>2, <2>4, <1>2
  <2>8. /\ SubSeq(v, p + 1, Len(v)) \in Seq(Entry)
        /\ Len(SubSeq(v, p + 1, Len(v))) = Len(v) - p
        /\ \A i \in 1 .. Len(v) - p : SubSeq(v, p + 1, Len(v))[i] = v[p + i]
    <3>1. p + 1 \in Int /\ Len(v) \in Int /\ \A i \in p + 1 .. Len(v) : v[i] \in Entry
      BY <2>4, <2>6, <1>2
    <3>2. /\ SubSeq(v, p + 1, Len(v)) \in Seq(Entry)
          /\ Len(SubSeq(v, p + 1, Len(v))) = IF p + 1 <= Len(v) THEN Len(v) - (p + 1) + 1 ELSE 0
          /\ \A i \in 1 .. Len(v) - (p + 1) + 1 : SubSeq(v, p + 1, Len(v))[i] = v[p + 1 + i - 1]
      BY <3>1, SubSeqProperties
    <3> QED BY <3>2, <2>4, <1>2
  <2> DEFINE l == SubSeq(v, 1, p - 1)
             r == SubSeq(v, p + 1, Len(v))
  <2>9. RemoveAt(v, p) = l \o r
    BY DEF RemoveAt
  <2> HIDE DEF l, r
  <2>10. /\ l \o r \in Seq(Entry)
         /\ Len(l \o r) = Len(l) + Len(r)
         /\ \A i \in 1 .. Len(l) + Len(r) : (l \o r)[i] = IF i <= Len(l) THEN l[i] ELSE r[i - Len(l)]
    BY <2>7, <2>8, ConcatProperties DEF l, r
  <2>11. Len(l) + Len(r) = Len(v) - 1
    <3>1. Len(l) = p - 1 /\ Len(r) = Len(v) - p BY <2>7, <2>8 DEF l, r
    <3>2. p - 1 + (Len(v) - p) = Len(v) - 1 BY <2>4, <1>2
    <3> QED BY <3>1, <3>2
  <2>12. ASSUME NEW i \in 1 .. Len(v) - 1
         PROVE  (l \o r)[i] = IF i < p THEN v[i] ELSE v[i + 1]
    <3>1. (l \o r)[i] = IF i <= p - 1 THEN l[i] ELSE r[i - (p - 1)]
      BY <2>10, <2>11, <2>7 DEF l
    <3>2. CASE i < p
      <4>1. i \in 1 .. p - 1 BY <3>2, <2>4
      <4> QED BY <4>1, <3>1, <3>2, <2>7 DEF l
    <3>3. CASE ~(i < p)
      <4>1. i - (p - 1) \in 1 .. Len(v) - p /\ ~(i <= p - 1) /\ p + (i - (p - 1)) = i + 1
        BY <3>3, <2>4, <1>2
      <4>2. r[i - (p - 1)] = v[i + 1] BY <4>1, <2>8 DEF r
      <4> QED BY <4>1, <4>2, <3>1, <3>3
    <3> QED BY <3>2, <3>3
  <2> QED BY <2>4, <2>5, <2>9, <2>10, <2>11, <2>12
<1> QED BY <1>3, <1>4

\* An entry that nothing is younger than goes to the end of the list.
LEMMA InsertShape ==
  ASSUME NEW w \in Seq(Entry), NEW e \in Entry, NothingYounger(w, e.added)
  PROVE  /\ InsertSorted(w, e) \in Seq(Entry)
         /\ Len(InsertSorted(w, e)) = Len(w) + 1
         /\ \A i \in 1 .. Len(w) : InsertSorted(w, e)[i] = w[i]
         /\ InsertSorted(w, e)[Len(w) + 1] = e
<1>1. Len(w) \in Nat
  BY LenProperties
<1>2. \A i \in 1 .. Len(w) : w[i].added \in Nat /\ e.added \in Nat /\ w[i].added <= e.added
  <2>1. \A i \in 1 .. Len(w) : w[i] \in Entry BY ElementOfSeq
  <2>2. \A x \in Entry : x.added \in Nat BY DEF Entry
  <2> QED BY <2>1, <2>2 DEF NothingYounger
<1>3. {i \in 1 .. Len(w) : e.added < w[i].added} = {}
  BY <1>2
<1>4. InsertSorted(w, e) = InsertAt(w, Len(w) + 1, e)
  BY <1>3 DEF InsertSorted
<1>5. SubSeq(w, 1, Len(w) + 1 - 1) = w
  <2>1. Len(w) + 1 - 1 = Len(w) BY <1>1
  <2>2. SubSeq(w, 1, Len(w)) = w BY SubSeqFull
  <2> QED BY <2>1, <2>2
<1>6. SubSeq(w, Len(w) + 1, Len(w)) = <<>>
  BY <1>1, SubSeqEmpty
<1>7. InsertSorted(w, e) = w \o <<e>> \o <<>>
  <2>1. InsertAt(w, Len(w) + 1, e) =
          SubSeq(w, 1, Len(w) + 1 - 1) \o <<e>> \o SubSeq(w, Len(w) + 1, Len(w))
    BY DEF InsertAt
  <2> QED BY <2>1, <1>4, <1>5, <1>6
<1>8. w \o <<e>> = Append(w, e)
  BY AppendIsConcat
<1>9. Append(w, e) \in Seq(Entry)
  BY AppendProperties
<1>10. InsertSorted(w, e) = Append(w, e)
  BY <1>7, <1>8, <1>9, ConcatEmptySeq
<1> QED BY <1>10, AppendProperties

\* What InsertSorted does after the old entry of the image is removed: the
\* new entry is the last one, the list stays sorted, and the entries of all
\* other images are kept.
InsertedAfter(v, r, image, t) ==
  /\ r \in Seq(Entry) /\ r # <<>>
  /\ r[Len(r)] = [image_hash |-> image, added |-> t]
  /\ \A i \in 1 .. Len(r) - 1 : \E k \in 1 .. Len(v) : r[i] = v[k]
  /\ SortedByAge(r) /\ NothingYounger(r, t)
  /\ \A k \in 1 .. Len(v) : v[k].image_hash # image => \E i \in 1 .. Len(r) : r[i] = v[k]

\* InsertSorted after WithoutImage on a sorted list with nothing younger.
LEMMA InsertedShape ==
  ASSUME NEW v \in Seq(Entry), NEW image \in Images, NEW t \in Nat,
         SortedByAge(v), NothingYounger(v, t)
  PROVE  InsertedAfter(v, InsertSorted(WithoutImage(v, image), [image_hash |-> image, added |-> t]), image, t)
<1> DEFINE w == WithoutImage(v, image)
           e == [image_hash |-> image, added |-> t]
           r == InsertSorted(w, e)
<1>1. Len(v) \in Nat /\ \A i \in 1 .. Len(v) : v[i] \in Entry /\ v[i].added \in Nat
  <2>1. Len(v) \in Nat /\ \A i \in 1 .. Len(v) : v[i] \in Entry BY LenProperties, ElementOfSeq
  <2>2. \A x \in Entry : x.added \in Nat BY DEF Entry
  <2> QED BY <2>1, <2>2
<1>2. e \in Entry /\ e.added = t
  BY DEF Entry
<1>3. /\ w \in Seq(Entry)
      /\ \A i \in 1 .. Len(w) : \E k \in 1 .. Len(v) : w[i] = v[k]
      /\ \A i, j \in 1 .. Len(w) : i < j => w[i].added <= w[j].added
      /\ \A k \in 1 .. Len(v) : v[k].image_hash # image => \E i \in 1 .. Len(w) : w[i] = v[k]
  <2>1. CASE w = v
    BY <2>1 DEF SortedByAge
  <2>2. ASSUME NEW p \in 1 .. Len(v), v[p].image_hash = image, w \in Seq(Entry), Len(w) = Len(v) - 1,
               \A i \in 1 .. Len(v) - 1 : w[i] = IF i < p THEN v[i] ELSE v[i + 1]
        PROVE  <1>3!:
    <3> HIDE DEF w
    <3>1. \A i \in 1 .. Len(w) : \E k \in 1 .. Len(v) : w[i] = v[k]
      <4> SUFFICES ASSUME NEW i \in 1 .. Len(w) PROVE \E k \in 1 .. Len(v) : w[i] = v[k]
        OBVIOUS
      <4>1. i \in 1 .. Len(v) /\ i + 1 \in 1 .. Len(v) BY <2>2, <1>1
      <4> QED BY <4>1, <2>2, <1>1
    <3>2. \A i, j \in 1 .. Len(w) : i < j => w[i].added <= w[j].added
      <4> SUFFICES ASSUME NEW i \in 1 .. Len(w), NEW j \in 1 .. Len(w), i < j
                   PROVE  w[i].added <= w[j].added
        OBVIOUS
      <4>1. /\ i \in 1 .. Len(v) /\ i + 1 \in 1 .. Len(v) /\ j \in 1 .. Len(v) /\ j + 1 \in 1 .. Len(v)
            /\ i < j + 1 /\ i + 1 < j + 1 /\ (~(i < p) => ~(j < p)) /\ i \in 1 .. Len(v) - 1 /\ j \in 1 .. Len(v) - 1
        BY <2>2, <1>1
      <4>2. /\ v[i].added <= v[j].added /\ v[i].added <= v[j + 1].added
            /\ v[i + 1].added <= v[j + 1].added
        BY <4>1 DEF SortedByAge
      <4>3. w[i] = (IF i < p THEN v[i] ELSE v[i + 1]) /\ w[j] = (IF j < p THEN v[j] ELSE v[j + 1])
        BY <4>1, <2>2
      <4> QED BY <4>1, <4>2, <4>3
    <3>3. ASSUME NEW k \in 1 .. Len(v), v[k].image_hash # image
          PROVE  \E i \in 1 .. Len(w) : w[i] = v[k]
      <4>1. k # p BY <3>3, <2>2
      <4>2. CASE k < p
        <5>1. k \in 1 .. Len(v) - 1 BY <4>2, <1>1, <2>2
        <5>2. w[k] = v[k] BY <5>1, <4>2, <2>2
        <5> QED BY <5>1, <5>2, <2>2
      <4>3. CASE k > p
        <5>1. k - 1 \in 1 .. Len(v) - 1 /\ ~(k - 1 < p) /\ k - 1 + 1 = k BY <4>3, <1>1, <2>2
        <5>2. w[k - 1] = v[k] BY <5>1, <2>2
        <5> QED BY <5>1, <5>2, <2>2
      <4> QED BY <4>1, <4>2, <4>3, <1>1, <2>2
    <3> QED BY <2>2, <3>1, <3>2, <3>3
  <2>3. \/ w = v
        \/ \E p \in 1 .. Len(v) : /\ v[p].image_hash = image
                                  /\ w \in Seq(Entry)
                                  /\ Len(w) = Len(v) - 1
                                  /\ \A i \in 1 .. Len(v) - 1 : w[i] = IF i < p THEN v[i] ELSE v[i + 1]
    BY WithoutShape
  <2> HIDE DEF w
  <2> QED BY <2>1, <2>2, <2>3
<1>4. Len(w) \in Nat
  BY <1>3, LenProperties
<1>5. NothingYounger(w, t)
  BY <1>3 DEF NothingYounger
<1>6. /\ r \in Seq(Entry)
      /\ Len(r) = Len(w) + 1
      /\ \A i \in 1 .. Len(w) : r[i] = w[i]
      /\ r[Len(w) + 1] = e
  <2> HIDE DEF w, e
  <2> QED BY <1>2, <1>3, <1>5, InsertShape
<1> HIDE DEF r, w, e
<1>7. r # <<>> /\ Len(r) - 1 = Len(w) /\ r[Len(r)] = e
  <2>1. Len(r) # 0 BY <1>4, <1>6
  <2> QED BY <2>1, <1>4, <1>6, EmptySeq
<1>8. \A i \in 1 .. Len(r) - 1 : \E k \in 1 .. Len(v) : r[i] = v[k]
  BY <1>3, <1>4, <1>6, <1>7
<1>9. NothingYounger(r, t)
  <2> SUFFICES ASSUME NEW i \in 1 .. Len(r) PROVE r[i].added <= t
    BY DEF NothingYounger
  <2>1. CASE i = Len(w) + 1 BY <2>1, <1>2, <1>6
  <2>2. CASE i # Len(w) + 1
    <3>1. i \in 1 .. Len(w) BY <2>2, <1>4, <1>6
    <3> QED BY <3>1, <1>5, <1>6 DEF NothingYounger
  <2> QED BY <2>1, <2>2
<1>10. SortedByAge(r)
  <2> SUFFICES ASSUME NEW i \in 1 .. Len(r), NEW j \in 1 .. Len(r), i < j
               PROVE  r[i].added <= r[j].added
    BY DEF SortedByAge
  <2>1. i \in 1 .. Len(w) BY <1>4, <1>6
  <2>2. CASE j = Len(w) + 1
    BY <2>1, <2>2, <1>2, <1>5, <1>6 DEF NothingYounger
  <2>3. CASE j # Len(w) + 1
    <3>1. j \in 1 .. Len(w) BY <2>3, <1>4, <1>6
    <3> QED BY <2>1, <3>1, <1>3, <1>6
  <2> QED BY <2>2, <2>3
<1>11. ASSUME NEW k \in 1 .. Len(v), v[k].image_hash # image
       PROVE  \E i \in 1 .. Len(r) : r[i] = v[k]
  <2>1. PICK i \in 1 .. Len(w) : w[i] = v[k] BY <1>3, <1>11
  <2>2. i \in 1 .. Len(r) BY <1>4, <1>6
  <2> QED BY <2>1, <2>2, <1>6
<1>12. InsertedAfter(v, r, image, t)
  BY <1>6, <1>7, <1>8, <1>9, <1>10, <1>11 DEF InsertedAfter, e
<1> QED BY <1>12 DEF r, w, e

\* Cleaning up a list changes nothing about what it allows: the first entry
\* that is left is the cutoff.
LEMMA CleanedUp ==
  ASSUME NEW list \in Seq(Entry), list # <<>>, NEW t \in Nat
  PROVE  /\ ValidEntries(list, t) # <<>>
         /\ Cutoff(ValidEntries(list, t), t) = 1
         /\ \A x : x \in AllowedImages(ValidEntries(list, t), t) <=> x \in AllowedImages(list, t)
<1> DEFINE c == Cutoff(list, t)
           v == ValidEntries(list, t)
<1>1. /\ c \in 1 .. Len(list) /\ Len(list) \in Nat
      /\ \A j \in 1 .. Len(list) : c < j => ~Enforced(list[j], t)
  BY CutoffShape, LenProperties
<1>2. /\ v \in Seq(Entry) /\ Len(v) = Len(list) - c + 1
      /\ \A i \in 1 .. Len(list) - c + 1 : v[i] = list[c + i - 1]
  BY ValidShape
<1>3. v # <<>>
  <2>1. Len(v) # 0 BY <1>1, <1>2
  <2> HIDE DEF v
  <2> QED BY <2>1, EmptySeq
<1> DEFINE d == Cutoff(v, t)
<1>4. d \in 1 .. Len(v) /\ (d = 1 \/ Enforced(v[d], t))
  <2> HIDE DEF v
  <2> QED BY <1>2, <1>3, CutoffShape
<1> HIDE DEF c, v, d
<1>5. d = 1
  <2> SUFFICES ASSUME d # 1 PROVE FALSE
    OBVIOUS
  <2>1. d \in 1 .. Len(list) - c + 1 /\ c + d - 1 \in 1 .. Len(list) /\ c < c + d - 1
    BY <1>1, <1>2, <1>4
  <2>2. v[d] = list[c + d - 1] BY <2>1, <1>2
  <2> QED BY <2>1, <2>2, <1>1, <1>4
<1>6. ASSUME NEW x PROVE x \in AllowedImages(v, t) <=> x \in AllowedImages(list, t)
  <2>1. x \in AllowedImages(v, t) <=> \E k \in 1 .. Len(v) : d <= k /\ v[k].image_hash = x
    BY <1>2, <1>3, AllowedShape DEF d
  <2>2. x \in AllowedImages(list, t) <=> \E k \in 1 .. Len(list) : c <= k /\ list[k].image_hash = x
    BY AllowedShape DEF c
  <2>3. ASSUME NEW k \in 1 .. Len(v), v[k].image_hash = x
        PROVE  \E j \in 1 .. Len(list) : c <= j /\ list[j].image_hash = x
    <3>1. c + k - 1 \in 1 .. Len(list) /\ c <= c + k - 1 /\ k \in 1 .. Len(list) - c + 1 BY <1>1, <1>2
    <3>2. v[k] = list[c + k - 1] BY <3>1, <1>2
    <3> QED BY <3>1, <3>2, <2>3
  <2>4. ASSUME NEW k \in 1 .. Len(list), c <= k, list[k].image_hash = x
        PROVE  \E j \in 1 .. Len(v) : d <= j /\ v[j].image_hash = x
    <3>1. k - c + 1 \in 1 .. Len(list) - c + 1 /\ c + (k - c + 1) - 1 = k /\ d <= k - c + 1
      BY <1>1, <1>5, <2>4
    <3>2. v[k - c + 1] = list[k] BY <3>1, <1>2
    <3> QED BY <3>1, <3>2, <1>2, <2>4
  <2> QED BY <2>1, <2>2, <2>3, <2>4
<1> QED BY <1>3, <1>5, <1>6 DEF v, d

\* As time passes the cutoff only moves towards the younger entries.
LEMMA CutoffMonotone ==
  ASSUME NEW list \in Seq(Entry), list # <<>>, NEW t \in Nat
  PROVE  Cutoff(list, t) <= Cutoff(list, t + 1)
<1> DEFINE c == Cutoff(list, t)
           d == Cutoff(list, t + 1)
<1>1. c \in 1 .. Len(list) /\ (c = 1 \/ Enforced(list[c], t)) /\ Len(list) \in Nat
  BY CutoffShape, LenProperties
<1>2. d \in 1 .. Len(list) /\ \A j \in 1 .. Len(list) : d < j => ~Enforced(list[j], t + 1)
  <2>1. t + 1 \in Nat OBVIOUS
  <2> QED BY <2>1, CutoffShape
<1>3. list[c] \in Entry
  BY <1>1, ElementOfSeq
<1>4. list[c].added \in Nat
  BY <1>3 DEF Entry
<1> HIDE DEF c, d
<1>5. Enforced(list[c], t) => Enforced(list[c], t + 1)
  BY <1>4, DeadlineAssumption DEF Enforced
<1>6. c <= d
  BY <1>1, <1>2, <1>5
<1> QED BY <1>6 DEF c, d

\* An empty list allows nothing.
LEMMA EmptyAllowsNothing ==
  ASSUME NEW t \in Nat
  PROVE  ValidEntries(<<>>, t) = <<>> /\ AllowedImages(<<>>, t) = {}
<1>1. Len(<<>>) = 0
  OBVIOUS
<1>2. {i \in 1 .. Len(<<>>) : Enforced(<<>>[i], t)} = {}
  BY <1>1
<1>3. Cutoff(<<>>, t) = 1
  BY <1>2 DEF Cutoff
<1>4. SubSeq(<<>>, 1, 0) = <<>>
  BY SubSeqEmpty
<1>5. ValidEntries(<<>>, t) = <<>>
  BY <1>1, <1>3, <1>4 DEF ValidEntries
<1> QED BY <1>1, <1>5 DEF AllowedImages, ImagesOf

(***************************************************************************)
(* The inductive invariant of the allow lists: the list of images is       *)
(* sorted, nothing in it is younger than the block, and every launcher has *)
(* the compose hashes of all allowed images.                               *)
(***************************************************************************)
ListInv ==
  /\ now \in Nat
  /\ images \in Seq(Entry)
  /\ SortedByAge(images)
  /\ NothingYounger(images, now)
  /\ InitImages # <<>> => images # <<>>
  /\ ComposeHashesComplete

\* What a step may do to images, launchers and the clock.
ListStep ==
  \/ images' = images /\ now' = now /\ launchers' = launchers
  \/ /\ now' = now
     /\ \E image \in Images : /\ launchers' = AddMpcImageComposeHashes(launchers, image)
                              /\ images' = InsertImage(images, image, now)
  \/ /\ now' = now /\ images' = images
     /\ \E l \in Launchers : \/ launchers' = AddLauncher(launchers, l, AllowedImages(images, now))
                             \/ launchers' = RemoveLauncher(launchers, l)
  \/ now' = now /\ launchers' = launchers /\ images' = ValidEntries(images, now)
  \/ now' = now + 1 /\ launchers' = launchers /\ images' = images

\* Every step is a ListStep.
LEMMA ListShape == [Next]_vars => ListStep
<1> SUFFICES ASSUME [Next]_vars PROVE ListStep
  OBVIOUS
<1>1. ASSUME NEW a \in Accounts, ProposeUpdate(a) PROVE ListStep
  BY <1>1 DEF ProposeUpdate, teeVars, ListStep
<1>2. ASSUME NEW a \in Accounts, NEW id \in 0 .. MaxUpdates, VoteUpdate(a, id) PROVE ListStep
  BY <1>2 DEF VoteUpdate, teeVars, ListStep
<1>3. ASSUME NEW a \in Accounts, RemoveUpdateVote(a) PROVE ListStep
  BY <1>3 DEF RemoveUpdateVote, RemoveUpdateVotesOf, teeVars, ListStep
<1>4. ASSUME RemoveNonParticipantUpdateVotes PROVE ListStep
  BY <1>4 DEF RemoveNonParticipantUpdateVotes, RemoveUpdateVotesOf, teeVars, ListStep
<1>5. ASSUME NEW a \in Accounts, NEW policy \in Policies, VoteForeignChainPolicy(a, policy) PROVE ListStep
  BY <1>5 DEF VoteForeignChainPolicy, teeVars, ListStep
<1>6. ASSUME NEW a \in Accounts, NEW image \in Images, VoteCodeHash(a, image) PROVE ListStep
  BY <1>6 DEF VoteCodeHash, ListStep
<1>7. ASSUME NEW a \in Accounts, NEW l \in Launchers, VoteAddLauncherHash(a, l) PROVE ListStep
  BY <1>7 DEF VoteAddLauncherHash, ListStep
<1>8. ASSUME NEW a \in Accounts, NEW l \in Launchers, VoteRemoveLauncherHash(a, l) PROVE ListStep
  BY <1>8 DEF VoteRemoveLauncherHash, ListStep
<1>9. ASSUME NEW a \in Accounts, VerifyTee(a) PROVE ListStep
  BY <1>9 DEF VerifyTee, ListStep
<1>10. ASSUME Tick PROVE ListStep
  BY <1>10 DEF Tick, ListStep
<1>11. ASSUME ProtocolStep PROVE ListStep
  BY <1>11 DEF ProtocolStep, teeVars, ListStep
<1>12. ASSUME UNCHANGED vars PROVE ListStep
  BY <1>12 DEF vars, teeVars, ListStep
<1> QED BY <1>1, <1>2, <1>3, <1>4, <1>5, <1>6, <1>7, <1>8, <1>9, <1>10, <1>11, <1>12 DEF Next

\* InsertImage on the list of the state.
LEMMA InsertImageShape ==
  ASSUME NEW image \in Images, ListInv
  PROVE  InsertedAfter(ValidEntries(images, now), InsertImage(images, image, now), image, now)
<1> DEFINE v == ValidEntries(images, now)
<1>1. now \in Nat /\ images \in Seq(Entry) /\ SortedByAge(images) /\ NothingYounger(images, now)
  BY DEF ListInv
<1>2. v \in Seq(Entry) /\ SortedByAge(v) /\ NothingYounger(v, now)
  <2>1. CASE images = <<>>
    <3>1. v = <<>> BY <1>1, <2>1, EmptyAllowsNothing
    <3>2. v \in Seq(Entry) /\ Len(v) = 0 BY <3>1, EmptySeq
    <3> QED BY <3>2 DEF SortedByAge, NothingYounger
  <2>2. CASE images # <<>>
    <3> DEFINE c == Cutoff(images, now)
    <3>1. c \in 1 .. Len(images) /\ Len(images) \in Nat
      BY <1>1, <2>2, CutoffShape, LenProperties
    <3>2. /\ v \in Seq(Entry) /\ Len(v) = Len(images) - c + 1
          /\ \A i \in 1 .. Len(images) - c + 1 : v[i] = images[c + i - 1]
      BY <1>1, <2>2, ValidShape
    <3> HIDE DEF c, v
    <3>3. \A i \in 1 .. Len(v) : c + i - 1 \in 1 .. Len(images) /\ v[i] = images[c + i - 1]
      <4>1. ASSUME NEW i \in 1 .. Len(images) - c + 1 PROVE c + i - 1 \in 1 .. Len(images)
        BY <3>1
      <4> QED BY <4>1, <3>2
    <3>4. SortedByAge(v)
      <4> SUFFICES ASSUME NEW i \in 1 .. Len(v), NEW j \in 1 .. Len(v), i < j
                   PROVE  v[i].added <= v[j].added
        BY DEF SortedByAge
      <4>1. c + i - 1 < c + j - 1 BY <3>1
      <4> QED BY <4>1, <3>3, <1>1 DEF SortedByAge
    <3>5. NothingYounger(v, now)
      BY <3>3, <1>1 DEF NothingYounger
    <3> QED BY <3>2, <3>4, <3>5
  <2> QED BY <2>1, <2>2
<1>3. InsertImage(images, image, now) =
        InsertSorted(WithoutImage(v, image), [image_hash |-> image, added |-> now])
  BY DEF InsertImage
<1> HIDE DEF v
<1>4. InsertedAfter(v, InsertSorted(WithoutImage(v, image), [image_hash |-> image, added |-> now]), image, now)
  BY <1>1, <1>2, InsertedShape
<1> QED BY <1>3, <1>4 DEF v

\* The images allowed after a step were allowed before, except one that the
\* step votes in; the launchers then have its compose hashes.
LEMMA AllowedAfter ==
  ASSUME ListInv, ListStep, NEW x \in AllowedImages(images', now')
  PROVE  \/ x \in AllowedImages(images, now) /\ now' \in {now, now + 1}
         \/ /\ images'[Len(images')] = [image_hash |-> x, added |-> now]
            /\ launchers' = AddMpcImageComposeHashes(launchers, x)
<1>1. now \in Nat /\ images \in Seq(Entry)
  BY DEF ListInv
<1>2. CASE images' = images /\ now' = now
  BY <1>2
<1>3. ASSUME NEW image \in Images, now' = now, launchers' = AddMpcImageComposeHashes(launchers, image),
             images' = InsertImage(images, image, now)
      PROVE  \/ x \in AllowedImages(images, now)
             \/ x = image /\ images'[Len(images')] = [image_hash |-> image, added |-> now]
  <2> DEFINE v == ValidEntries(images, now)
  <2>1. InsertedAfter(v, images', image, now)
    BY <1>3, InsertImageShape
  <2>2. PICK k \in 1 .. Len(images') : images'[k].image_hash = x
    <3>1. images' \in Seq(Entry) /\ images' # <<>> BY <2>1 DEF InsertedAfter
    <3> QED BY <3>1, <1>1, <1>3, AllowedShape
  <2>3. CASE k = Len(images')
    BY <2>1, <2>2, <2>3 DEF InsertedAfter
  <2>4. CASE k # Len(images')
    <3>1. Len(images') \in Nat BY <2>1, LenProperties DEF InsertedAfter
    <3>2. k \in 1 .. Len(images') - 1 BY <2>4, <3>1
    <3>3. PICK j \in 1 .. Len(v) : images'[k] = v[j] BY <2>1, <3>2 DEF InsertedAfter
    <3>4. x \in ImagesOf(v) BY <2>2, <3>3 DEF ImagesOf
    <3> QED BY <3>4 DEF AllowedImages
  <2> QED BY <2>3, <2>4
<1>4. CASE now' = now /\ images' = ValidEntries(images, now)
  <2>1. CASE images = <<>>
    <3>1. images' = images BY <1>1, <1>4, <2>1, EmptyAllowsNothing
    <3> QED BY <3>1, <1>4
  <2>2. CASE images # <<>>
    <3>1. x \in AllowedImages(ValidEntries(images, now), now) BY <1>4
    <3> QED BY <3>1, <1>1, <1>4, <2>2, CleanedUp
  <2> QED BY <2>1, <2>2
<1>5. CASE now' = now + 1 /\ images' = images
  <2>1. now + 1 \in Nat BY <1>1
  <2>2. CASE images = <<>>
    <3>1. AllowedImages(images', now') = {} BY <1>5, <2>1, <2>2, EmptyAllowsNothing
    <3> QED BY <3>1
  <2>3. CASE images # <<>>
    <3>1. PICK k \in 1 .. Len(images) : Cutoff(images, now + 1) <= k /\ images[k].image_hash = x
      BY <1>1, <1>5, <2>1, <2>3, AllowedShape
    <3>2. Cutoff(images, now) <= Cutoff(images, now + 1) BY <1>1, <2>3, CutoffMonotone
    <3>3. /\ Cutoff(images, now) \in 1 .. Len(images) /\ Cutoff(images, now + 1) \in 1 .. Len(images)
          /\ Len(images) \in Nat
      BY <1>1, <2>1, <2>3, CutoffShape, LenProperties
    <3>4. Cutoff(images, now) <= k BY <3>1, <3>2, <3>3
    <3>5. x \in AllowedImages(images, now) BY <1>1, <2>3, <3>1, <3>4, AllowedShape
    <3> QED BY <3>5, <1>5
  <2> QED BY <2>2, <2>3
<1> QED BY <1>2, <1>3, <1>4, <1>5 DEF ListStep

\* The list and the clock keep their types and the list stays sorted.
LEMMA ListTypes ==
  ASSUME ListInv, ListStep
  PROVE  /\ now' \in Nat
         /\ images' \in Seq(Entry) /\ SortedByAge(images') /\ NothingYounger(images', now')
         /\ (images # <<>> => images' # <<>>)
<1>1. /\ now \in Nat /\ images \in Seq(Entry)
      /\ SortedByAge(images) /\ NothingYounger(images, now)
  BY DEF ListInv
<1>2. CASE images' = images /\ now' = now
  BY <1>1, <1>2
<1>3. ASSUME NEW image \in Images, now' = now, images' = InsertImage(images, image, now)
      PROVE  /\ images' \in Seq(Entry) /\ SortedByAge(images') /\ NothingYounger(images', now')
             /\ images' # <<>>
  <2>1. InsertedAfter(ValidEntries(images, now), images', image, now)
    BY <1>3, InsertImageShape
  <2> QED BY <2>1, <1>3 DEF InsertedAfter
<1>4. CASE now' = now /\ images' = ValidEntries(images, now)
  <2>1. CASE images = <<>>
    <3>1. images' = images BY <1>1, <1>4, <2>1, EmptyAllowsNothing
    <3> QED BY <3>1, <1>1, <1>4
  <2>2. CASE images # <<>>
    <3> DEFINE c == Cutoff(images, now)
    <3>1. c \in 1 .. Len(images) /\ Len(images) \in Nat
      BY <1>1, <2>2, CutoffShape, LenProperties
    <3>2. /\ images' \in Seq(Entry) /\ Len(images') = Len(images) - c + 1
          /\ \A i \in 1 .. Len(images) - c + 1 : images'[i] = images[c + i - 1]
      BY <1>1, <1>4, <2>2, ValidShape
    <3> HIDE DEF c
    <3>3. \A i \in 1 .. Len(images') : c + i - 1 \in 1 .. Len(images) /\ images'[i] = images[c + i - 1]
      <4>1. ASSUME NEW i \in 1 .. Len(images) - c + 1 PROVE c + i - 1 \in 1 .. Len(images)
        BY <3>1
      <4> QED BY <4>1, <3>2
    <3>4. SortedByAge(images')
      <4> SUFFICES ASSUME NEW i \in 1 .. Len(images'), NEW j \in 1 .. Len(images'), i < j
                   PROVE  images'[i].added <= images'[j].added
        BY DEF SortedByAge
      <4>1. c + i - 1 < c + j - 1 BY <3>1
      <4> QED BY <4>1, <3>3, <1>1 DEF SortedByAge
    <3>5. NothingYounger(images', now')
      BY <3>3, <1>1, <1>4 DEF NothingYounger
    <3>6. images' # <<>> BY <1>1, <1>4, <2>2, CleanedUp
    <3> QED BY <3>2, <3>4, <3>5, <3>6, <1>1, <1>4
  <2> QED BY <2>1, <2>2
<1>5. CASE now' = now + 1 /\ images' = images
  <2>1. \A i \in 1 .. Len(images) : images[i] \in Entry BY <1>1, ElementOfSeq
  <2>2. \A e \in Entry : e.added \in Nat BY DEF Entry
  <2>3. NothingYounger(images', now') BY <2>1, <2>2, <1>1, <1>5 DEF NothingYounger
  <2> QED BY <2>3, <1>1, <1>5
<1> QED BY <1>1, <1>2, <1>3, <1>4, <1>5 DEF ListStep

\* The compose hashes stay complete.
LEMMA ComposeHashesStep ==
  ASSUME ListInv, ListStep
  PROVE  ComposeHashesComplete'
<1> SUFFICES ASSUME NEW l \in DOMAIN launchers', NEW x \in AllowedImages(images', now')
             PROVE  ComposeHash(l, x) \in launchers'[l]
  BY DEF ComposeHashesComplete
<1>1. ComposeHashesComplete
  BY DEF ListInv
<1>2. CASE images'[Len(images')] = [image_hash |-> x, added |-> now]
           /\ launchers' = AddMpcImageComposeHashes(launchers, x)
  BY <1>2 DEF AddMpcImageComposeHashes
<1>3. CASE x \in AllowedImages(images, now)
  <2>1. CASE launchers' = launchers
    BY <2>1, <1>1, <1>3 DEF ComposeHashesComplete
  <2>2. ASSUME NEW image \in Images, launchers' = AddMpcImageComposeHashes(launchers, image)
        PROVE  ComposeHash(l, x) \in launchers'[l]
    BY <2>2, <1>1, <1>3 DEF ComposeHashesComplete, AddMpcImageComposeHashes
  <2>3. ASSUME NEW m \in Launchers, launchers' = AddLauncher(launchers, m, AllowedImages(images, now))
        PROVE  ComposeHash(l, x) \in launchers'[l]
    <3>1. CASE m \in DOMAIN launchers
      BY <3>1, <2>3, <1>1, <1>3 DEF ComposeHashesComplete, AddLauncher
    <3>2. CASE m \notin DOMAIN launchers
      <4>1. launchers' = [k \in DOMAIN launchers \union {m} |->
                            IF k = m THEN {ComposeHash(k, i) : i \in AllowedImages(images, now)}
                            ELSE launchers[k]]
        BY <3>2, <2>3 DEF AddLauncher
      <4> QED BY <4>1, <1>1, <1>3 DEF ComposeHashesComplete
    <3> QED BY <3>1, <3>2
  <2>4. ASSUME NEW m \in Launchers, launchers' = RemoveLauncher(launchers, m)
        PROVE  ComposeHash(l, x) \in launchers'[l]
    BY <2>4, <1>1, <1>3 DEF ComposeHashesComplete, RemoveLauncher
  <2> QED BY <2>1, <2>2, <2>3, <2>4 DEF ListStep
<1> QED BY <1>2, <1>3, AllowedAfter

\* The newest image of a list that is not empty is allowed.
LEMMA NewestAllowed == ListInv => AllowListsSound
<1> SUFFICES ASSUME ListInv PROVE AllowListsSound
  OBVIOUS
<1>1. now \in Nat /\ images \in Seq(Entry) /\ SortedByAge(images)
  BY DEF ListInv
<1>2. ASSUME images # <<>> PROVE images[Len(images)].image_hash \in AllowedImages(images, now)
  <2>1. Cutoff(images, now) \in 1 .. Len(images) /\ Len(images) \in Nat
    BY <1>1, <1>2, CutoffShape, LenProperties
  <2>2. Len(images) \in 1 .. Len(images) /\ Cutoff(images, now) <= Len(images)
    BY <2>1
  <2> QED BY <2>2, <1>1, <1>2, AllowedShape
<1>3. NewestImageAllowed
  BY <1>1, <1>2 DEF NewestImageAllowed, SortedByAge, ListInv
<1> QED BY <1>3 DEF AllowListsSound, ListInv

\* The initial lists satisfy the invariant.
LEMMA ListInit == Init => ListInv
<1> SUFFICES ASSUME Init PROVE ListInv
  OBVIOUS
<1>1. now = 0 /\ images = InitImages
  BY DEF Init
<1>2. InitImages \in Seq([image_hash : Images, added : {0}])
  BY GovernanceAssumption
<1>3. [image_hash : Images, added : {0}] \subseteq Entry
  BY DEF Entry
<1>4. InitImages \in Seq(Entry)
  BY <1>2, <1>3, SeqMonotonic
<1>5. \A i \in 1 .. Len(InitImages) : InitImages[i].added = 0
  <2>1. \A i \in 1 .. Len(InitImages) : InitImages[i] \in [image_hash : Images, added : {0}]
    BY <1>2, ElementOfSeq
  <2> QED BY <2>1
<1>6. SortedByAge(images) /\ NothingYounger(images, now)
  BY <1>1, <1>5 DEF SortedByAge, NothingYounger
<1>7. ComposeHashesComplete
  BY <1>1 DEF Init, ComposeHashesComplete
<1> QED BY <1>1, <1>4, <1>6, <1>7 DEF ListInv

\* In every reachable state a node that runs an allowed image under an
\* allowed launcher can attest, and the newest image is allowed.
THEOREM AllowListsSoundAlways == Spec => []AllowListsSound
<1>1. Init => ListInv
  BY ListInit
<1>2. ListInv /\ [Next]_vars => ListInv'
  <2> SUFFICES ASSUME ListInv, [Next]_vars PROVE ListInv'
    OBVIOUS
  <2>1. ListStep BY ListShape
  <2>2. ComposeHashesComplete' BY <2>1, ComposeHashesStep
  <2> QED BY <2>1, <2>2, ListTypes DEF ListInv
<1> QED BY <1>1, <1>2, NewestAllowed, PTL DEF Spec

\* An image that was allowed before a step still has an entry after it.
LEMMA StillListed ==
  ASSUME ListInv, ListStep, NEW x \in AllowedImages(images, now)
  PROVE  \E k \in 1 .. Len(images') : images'[k].image_hash = x
<1>1. now \in Nat /\ images \in Seq(Entry)
  BY DEF ListInv
<1>2. images # <<>>
  BY <1>1, EmptyAllowsNothing
<1>3. PICK k \in 1 .. Len(images) : images[k].image_hash = x
  BY <1>1, <1>2, AllowedShape
<1> DEFINE v == ValidEntries(images, now)
<1>4. PICK j \in 1 .. Len(v) : v[j].image_hash = x
  BY DEF AllowedImages, ImagesOf
<1>5. ASSUME NEW image \in Images, images' = InsertImage(images, image, now)
      PROVE  \E e \in 1 .. Len(images') : images'[e].image_hash = x
  <2>1. InsertedAfter(v, images', image, now)
    BY <1>5, InsertImageShape
  <2>2. CASE x = image
    <3>1. Len(images') \in Nat \ {0} BY <2>1, EmptySeq DEF InsertedAfter
    <3> QED BY <2>1, <2>2, <3>1 DEF InsertedAfter
  <2>3. CASE x # image
    <3>1. PICK e \in 1 .. Len(images') : images'[e] = v[j] BY <1>4, <2>1, <2>3 DEF InsertedAfter
    <3> QED BY <3>1, <1>4
  <2> QED BY <2>2, <2>3
<1>6. CASE images' = v
  BY <1>4, <1>6
<1>7. CASE images' = images
  BY <1>3, <1>7
<1> QED BY <1>5, <1>6, <1>7 DEF ListStep

\* One step of ExpiredImagesStayOut.
LEMMA ExpiredStep == ListInv /\ ListStep => ExpiredImagesStayOutStep
<1> SUFFICES ASSUME ListInv, ListStep PROVE ExpiredImagesStayOutStep
  OBVIOUS
<1>1. ASSUME NEW x \in AllowedImages(images', now') \ AllowedImages(images, now)
      PROVE  images'[Len(images')] = [image_hash |-> x, added |-> now]
  BY AllowedAfter
<1>2. ASSUME NEW x \in AllowedImages(images, now) \ AllowedImages(images', now')
      PROVE  \E e \in 1 .. Len(images') : images'[e].image_hash # x /\ Enforced(images'[e], now')
  <2>1. PICK k \in 1 .. Len(images') : images'[k].image_hash = x
    BY StillListed
  <2>2. now' \in Nat /\ images' \in Seq(Entry)
    BY ListTypes
  <2>3. images' # <<>> /\ Len(images') \in Nat
    <3>1. Len(images') \in Nat BY <2>2, LenProperties
    <3>2. Len(images') # 0 BY <2>1, <3>1
    <3> QED BY <3>1, <3>2, EmptySeq
  <2> DEFINE c == Cutoff(images', now')
  <2>4. c \in 1 .. Len(images') /\ (c = 1 \/ Enforced(images'[c], now'))
    BY <2>2, <2>3, CutoffShape
  <2>5. ~(c <= k)
    BY <2>1, <2>2, <2>3, AllowedShape
  <2>6. Enforced(images'[c], now')
    <3> HIDE DEF c
    <3> QED BY <2>3, <2>4, <2>5
  <2>7. images'[c].image_hash \in AllowedImages(images', now')
    <3>1. c <= c BY <2>3, <2>4
    <3> QED BY <2>2, <2>3, <2>4, <3>1, AllowedShape
  <2> HIDE DEF c
  <2> QED BY <2>4, <2>6, <2>7
<1> QED BY <1>1, <1>2 DEF ExpiredImagesStayOutStep

\* An image that is no longer allowed comes back only by a new vote, and one
\* goes only because a younger one is past its grace period.
THEOREM ExpiredImagesStayOutAlways == Spec => ExpiredImagesStayOut
<1>1. Init => ListInv
  BY ListInit
<1>2. ListInv /\ [Next]_vars => ListInv'
  <2> SUFFICES ASSUME ListInv, [Next]_vars PROVE ListInv'
    OBVIOUS
  <2>1. ListStep BY ListShape
  <2>2. ComposeHashesComplete' BY <2>1, ComposeHashesStep
  <2> QED BY <2>1, <2>2, ListTypes DEF ListInv
<1>3. ListInv /\ [Next]_vars => [ExpiredImagesStayOutStep]_vars
  BY ListShape, ExpiredStep
<1> QED BY <1>1, <1>2, <1>3, PTL DEF Spec, ExpiredImagesStayOut

(***************************************************************************)
(* Votes for updates and policies.                                         *)
(***************************************************************************)
VotesInv ==
  /\ IsThresholdParameters(parameters)
  /\ entries \subseteq Nat /\ next_update_id \in Nat
  /\ VotesBacked

\* The participants of valid parameters are finitely many.
LEMMA MembersFinite ==
  ASSUME NEW p, IsThresholdParameters(p)
  PROVE  IsFiniteSet(Members(p)) /\ p.threshold \in Nat
<1>1. Members(p) \subseteq Accounts /\ p.threshold \in Nat
  BY DEF IsThresholdParameters
<1> QED BY <1>1, GovernanceAssumption, FS_Subset

\* Whatever the protocol changes the parameters to is a parameter record.
LEMMA ParametersStep ==
  ASSUME IsThresholdParameters(parameters), [Next]_vars
  PROVE  IsThresholdParameters(parameters')
<1>1. ASSUME NEW S \in SUBSET Members(parameters)
      PROVE  IsThresholdParameters(RestrictTo(parameters, S))
  <2>1. Members(parameters) \intersect S \subseteq Members(parameters)
    OBVIOUS
  <2>2. RestrictTo(parameters, S) =
          [ids |-> [a \in Members(parameters) \intersect S |-> parameters.ids[a]],
           next_id |-> parameters.next_id, threshold |-> parameters.threshold]
    BY DEF RestrictTo, IsThresholdParameters
  <2>3. Members(RestrictTo(parameters, S)) = Members(parameters) \intersect S
    BY <2>2 DEF Members
  <2>4. [a \in Members(parameters) \intersect S |-> parameters.ids[a]] \in
          [Members(parameters) \intersect S -> Nat]
    BY DEF IsThresholdParameters
  <2> QED BY <2>1, <2>2, <2>3, <2>4 DEF IsThresholdParameters
<1>2. ASSUME NEW a \in Accounts, VerifyTee(a) PROVE IsThresholdParameters(parameters')
  <2>1. CASE parameters' = parameters BY <2>1
  <2>2. ASSUME NEW S \in SUBSET Members(parameters), parameters' = RestrictTo(parameters, S)
        PROVE  IsThresholdParameters(parameters')
    BY <2>2, <1>1
  <2>3. parameters' = parameters \/ \E S \in SUBSET Members(parameters) : parameters' = RestrictTo(parameters, S)
    BY <1>2 DEF VerifyTee, BeginResharing, ChangeParameters
  <2> QED BY <2>1, <2>2, <2>3
<1>3. ASSUME ProtocolStep PROVE IsThresholdParameters(parameters')
  <2>1. parameters' = parameters \/ \E p \in Proposals : parameters' = p
    BY <1>3 DEF ProtocolStep, BeginResharing, CancelResharing, ChangeParameters
  <2> QED BY <2>1, GovernanceAssumption
<1>4. ASSUME ~(\E a \in Accounts : VerifyTee(a)), ~ProtocolStep PROVE parameters' = parameters
  BY <1>4 DEF Next, vars, ProposeUpdate, VoteUpdate, RemoveUpdateVote, RemoveUpdateVotesOf,
              RemoveNonParticipantUpdateVotes, VoteForeignChainPolicy, VoteCodeHash,
              VoteAddLauncherHash, VoteRemoveLauncherHash, Tick
<1> QED BY <1>2, <1>3, <1>4

\* What a step may do to the votes for updates and to the record of the last
\* vote that passed.
VotesStep ==
  \/ /\ UNCHANGED updateVars
     /\ enacted' = enacted \/ enacted'.topic \notin {"update", "policy"}
  \/ /\ entries' = entries \union {next_update_id}
     /\ next_update_id' = next_update_id + 1
     /\ UNCHANGED <<vote_by_participant, enacted>>
  \/ \E a, id : /\ id \in entries
                /\ vote_by_participant' = Cast(vote_by_participant, a, id)
                /\ UNCHANGED <<entries, next_update_id, enacted>>
  \/ \E cast, id : /\ ~(Cardinality(VotersFor(cast, id)) < parameters.threshold)
                   /\ DoUpdate(id, cast) /\ UNCHANGED next_update_id
  \/ \E S : /\ vote_by_participant' = [b \in DOMAIN vote_by_participant \ S |-> vote_by_participant[b]]
            /\ UNCHANGED <<entries, next_update_id, enacted>>
  \/ \E cast, policy : /\ Cardinality(VotersFor(cast, policy)) = Size(parameters)
                       /\ Enact("policy", AllVotersFor(cast, policy)) /\ UNCHANGED updateVars

\* Every step is a VotesStep.
LEMMA VotesShape == [Next]_vars => VotesStep
<1> SUFFICES ASSUME [Next]_vars PROVE VotesStep
  OBVIOUS
<1>1. ASSUME NEW a \in Accounts, ProposeUpdate(a) PROVE VotesStep
  BY <1>1 DEF ProposeUpdate, VotesStep
<1>2. ASSUME NEW a \in Accounts, NEW id \in 0 .. MaxUpdates, VoteUpdate(a, id) PROVE VotesStep
  <2> DEFINE cast == Cast(vote_by_participant, a, id)
  <2>1. CASE Cardinality(VotersFor(cast, id)) < parameters.threshold
    BY <1>2, <2>1 DEF VoteUpdate, VotesStep
  <2>2. CASE ~(Cardinality(VotersFor(cast, id)) < parameters.threshold)
    <3>1. DoUpdate(id, cast) /\ UNCHANGED next_update_id BY <1>2, <2>2 DEF VoteUpdate
    <3> HIDE DEF cast
    <3> QED BY <3>1, <2>2 DEF VotesStep
  <2> QED BY <2>1, <2>2
<1>3. ASSUME NEW a \in Accounts, RemoveUpdateVote(a) PROVE VotesStep
  BY <1>3 DEF RemoveUpdateVote, RemoveUpdateVotesOf, VotesStep
<1>4. ASSUME RemoveNonParticipantUpdateVotes PROVE VotesStep
  BY <1>4 DEF RemoveNonParticipantUpdateVotes, RemoveUpdateVotesOf, VotesStep
<1>5. ASSUME NEW a \in Accounts, NEW policy \in Policies, VoteForeignChainPolicy(a, policy) PROVE VotesStep
  <2> DEFINE cast == Cast(policy_votes, a, policy)
  <2>1. CASE Cardinality(VotersFor(cast, policy)) = Size(parameters)
    <3>1. Enact("policy", AllVotersFor(cast, policy)) /\ UNCHANGED updateVars
      BY <1>5, <2>1 DEF VoteForeignChainPolicy
    <3> HIDE DEF cast
    <3> QED BY <3>1, <2>1 DEF VotesStep
  <2>2. CASE ~(Cardinality(VotersFor(cast, policy)) = Size(parameters))
    BY <1>5, <2>2 DEF VoteForeignChainPolicy, VotesStep
  <2> QED BY <2>1, <2>2
<1>6. ASSUME NEW a \in Accounts, NEW image \in Images, VoteCodeHash(a, image) PROVE VotesStep
  <2>1. UNCHANGED updateVars /\ (enacted' = enacted \/ enacted'.topic = "code_hash")
    BY <1>6 DEF VoteCodeHash, Enact
  <2> QED BY <2>1 DEF VotesStep
<1>7. ASSUME NEW a \in Accounts, NEW l \in Launchers, VoteAddLauncherHash(a, l) PROVE VotesStep
  <2>1. UNCHANGED updateVars /\ (enacted' = enacted \/ enacted'.topic = "add_launcher")
    BY <1>7 DEF VoteAddLauncherHash, Enact
  <2> QED BY <2>1 DEF VotesStep
<1>8. ASSUME NEW a \in Accounts, NEW l \in Launchers, VoteRemoveLauncherHash(a, l) PROVE VotesStep
  <2>1. UNCHANGED updateVars /\ (enacted' = enacted \/ enacted'.topic = "remove_launcher")
    BY <1>8 DEF VoteRemoveLauncherHash, Enact
  <2> QED BY <2>1 DEF VotesStep
<1>9. ASSUME NEW a \in Accounts, VerifyTee(a) PROVE VotesStep
  BY <1>9 DEF VerifyTee, VotesStep
<1>10. ASSUME Tick PROVE VotesStep
  BY <1>10 DEF Tick, VotesStep
<1>11. ASSUME ProtocolStep PROVE VotesStep
  BY <1>11 DEF ProtocolStep, VotesStep
<1>12. ASSUME UNCHANGED vars PROVE VotesStep
  BY <1>12 DEF vars, VotesStep
<1> QED BY <1>1, <1>2, <1>3, <1>4, <1>5, <1>6, <1>7, <1>8, <1>9, <1>10, <1>11, <1>12 DEF Next

\* An update that passes is backed by threshold many current participants.
LEMMA UpdateBacked ==
  ASSUME VotesInv, NEW cast, NEW id, ~(Cardinality(VotersFor(cast, id)) < parameters.threshold),
         DoUpdate(id, cast)
  PROVE  VotesForLiveUpdates' /\ UpdatesBackedByThreshold' /\ PoliciesUnanimous'
<1>1. IsFiniteSet(Members(parameters)) /\ parameters.threshold \in Nat
  BY MembersFinite DEF VotesInv
<1>2. VotersFor(cast, id) = AllVotersFor(cast, id) \intersect Members(parameters)
  BY DEF VotersFor, AllVotersFor
<1>3. VotersFor(cast, id) \subseteq Members(parameters)
  BY DEF VotersFor
<1>4. Cardinality(VotersFor(cast, id)) \in Nat
  BY <1>1, <1>3, FS_Subset, FS_CardinalityType
<1>5. Cardinality(VotersFor(cast, id)) >= parameters.threshold
  BY <1>1, <1>4
<1>6. /\ enacted'.topic = "update" /\ enacted'.supporters = AllVotersFor(cast, id)
      /\ enacted'.members = Members(parameters) /\ enacted'.threshold = parameters.threshold
  BY DEF DoUpdate, Enact
<1>7. UpdatesBackedByThreshold' /\ PoliciesUnanimous'
  BY <1>2, <1>5, <1>6 DEF UpdatesBackedByThreshold, PoliciesUnanimous
<1>8. VotesForLiveUpdates'
  <2>1. entries' = {} /\ DOMAIN vote_by_participant' = {} BY DEF DoUpdate, NoVotes
  <2> QED BY <2>1 DEF VotesForLiveUpdates
<1> QED BY <1>7, <1>8

\* A policy that passes has the votes of all current participants.
LEMMA PolicyBacked ==
  ASSUME VotesInv, NEW cast, NEW policy, Cardinality(VotersFor(cast, policy)) = Size(parameters),
         Enact("policy", AllVotersFor(cast, policy))
  PROVE  UpdatesBackedByThreshold' /\ PoliciesUnanimous'
<1>1. IsFiniteSet(Members(parameters))
  BY MembersFinite DEF VotesInv
<1>2. VotersFor(cast, policy) \subseteq Members(parameters)
  BY DEF VotersFor
<1>3. VotersFor(cast, policy) = Members(parameters)
  BY <1>1, <1>2, FS_Subset DEF Size
<1>4. Members(parameters) \subseteq AllVotersFor(cast, policy)
  BY <1>3 DEF VotersFor, AllVotersFor
<1>5. /\ enacted'.topic = "policy" /\ enacted'.supporters = AllVotersFor(cast, policy)
      /\ enacted'.members = Members(parameters)
  BY DEF Enact
<1> QED BY <1>4, <1>5 DEF UpdatesBackedByThreshold, PoliciesUnanimous

\* Every step preserves the invariant of the votes.
LEMMA VotesNext == VotesInv /\ [Next]_vars => VotesInv'
<1> SUFFICES ASSUME VotesInv, [Next]_vars PROVE VotesInv'
  OBVIOUS
<1>1. VotesStep
  BY VotesShape
<1>2. IsThresholdParameters(parameters')
  BY ParametersStep DEF VotesInv
<1>3. entries \subseteq Nat /\ next_update_id \in Nat /\ VotesForLiveUpdates
      /\ UpdatesBackedByThreshold /\ PoliciesUnanimous
  BY DEF VotesInv, VotesBacked
<1>4. entries' \subseteq Nat /\ next_update_id' \in Nat
  <2>1. \/ UNCHANGED <<entries, next_update_id>>
        \/ entries' = entries \union {next_update_id} /\ next_update_id' = next_update_id + 1
        \/ entries' = {} /\ next_update_id' = next_update_id
    BY <1>1 DEF VotesStep, updateVars, DoUpdate
  <2>2. CASE UNCHANGED <<entries, next_update_id>> BY <2>2, <1>3
  <2>3. CASE entries' = entries \union {next_update_id} /\ next_update_id' = next_update_id + 1
    BY <2>3, <1>3
  <2>4. CASE entries' = {} /\ next_update_id' = next_update_id BY <2>4, <1>3
  <2> QED BY <2>1, <2>2, <2>3, <2>4
<1>5. ASSUME enacted' = enacted PROVE UpdatesBackedByThreshold' /\ PoliciesUnanimous'
  BY <1>3, <1>5 DEF UpdatesBackedByThreshold, PoliciesUnanimous
<1>6. CASE UNCHANGED updateVars /\ (enacted' = enacted \/ enacted'.topic \notin {"update", "policy"})
  <2>1. VotesForLiveUpdates' BY <1>3, <1>6 DEF VotesForLiveUpdates, updateVars
  <2>2. UpdatesBackedByThreshold' /\ PoliciesUnanimous'
    BY <1>5, <1>6 DEF UpdatesBackedByThreshold, PoliciesUnanimous
  <2> QED BY <2>1, <2>2, <1>2, <1>4 DEF VotesInv, VotesBacked
<1>7. CASE entries' = entries \union {next_update_id} /\ next_update_id' = next_update_id + 1
           /\ UNCHANGED <<vote_by_participant, enacted>>
  <2>1. VotesForLiveUpdates' BY <1>3, <1>7 DEF VotesForLiveUpdates
  <2> QED BY <2>1, <1>2, <1>4, <1>5, <1>7 DEF VotesInv, VotesBacked
<1>8. ASSUME NEW a, NEW id \in entries, vote_by_participant' = Cast(vote_by_participant, a, id),
             UNCHANGED <<entries, next_update_id, enacted>>
      PROVE  VotesInv'
  <2>1. VotesForLiveUpdates' BY <1>3, <1>8 DEF VotesForLiveUpdates, Cast
  <2> QED BY <2>1, <1>2, <1>4, <1>5, <1>8 DEF VotesInv, VotesBacked
<1>9. ASSUME NEW cast, NEW id, ~(Cardinality(VotersFor(cast, id)) < parameters.threshold), DoUpdate(id, cast)
      PROVE  VotesInv'
  BY <1>2, <1>4, <1>9, UpdateBacked DEF VotesInv, VotesBacked
<1>10. ASSUME NEW S, vote_by_participant' = [b \in DOMAIN vote_by_participant \ S |-> vote_by_participant[b]],
              UNCHANGED <<entries, next_update_id, enacted>>
       PROVE  VotesInv'
  <2>1. VotesForLiveUpdates' BY <1>3, <1>10 DEF VotesForLiveUpdates
  <2> QED BY <2>1, <1>2, <1>4, <1>5, <1>10 DEF VotesInv, VotesBacked
<1>11. ASSUME NEW cast, NEW policy, Cardinality(VotersFor(cast, policy)) = Size(parameters),
              Enact("policy", AllVotersFor(cast, policy)), UNCHANGED updateVars
       PROVE  VotesInv'
  <2>1. VotesForLiveUpdates' BY <1>3, <1>11 DEF VotesForLiveUpdates, updateVars
  <2>2. UpdatesBackedByThreshold' /\ PoliciesUnanimous' BY <1>11, PolicyBacked
  <2> QED BY <2>1, <2>2, <1>2, <1>4 DEF VotesInv, VotesBacked
<1> QED BY <1>1, <1>6, <1>7, <1>8, <1>9, <1>10, <1>11 DEF VotesStep

\* In every reachable state the stored votes are for live updates, and what
\* was enacted had the votes of those who participated at that moment.
THEOREM VotesBackedAlways == Spec => []VotesBacked
<1>1. Init => VotesInv
  <2> SUFFICES ASSUME Init PROVE VotesInv
    OBVIOUS
  <2>1. IsThresholdParameters(parameters) BY GovernanceAssumption DEF Init
  <2>2. entries = {} /\ next_update_id = 0 /\ DOMAIN vote_by_participant = {} /\ enacted.topic = "none"
    BY DEF Init, NoVotes, Nothing
  <2>3. VotesBacked
    BY <2>2 DEF VotesBacked, VotesForLiveUpdates, UpdatesBackedByThreshold, PoliciesUnanimous
  <2> QED BY <2>1, <2>2, <2>3 DEF VotesInv
<1>2. VotesInv => VotesBacked
  BY DEF VotesInv
<1> QED BY <1>1, <1>2, VotesNext, PTL DEF Spec
=============================================================================
