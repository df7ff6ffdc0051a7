---------------------------- MODULE SupportProofs ---------------------------
(***************************************************************************)
(* Proofs about five components that stand on their own. The reliable      *)
(* broadcast never splits the honest participants, never blames an honest  *)
(* owner and arrives, as long as the faulty ones are at most the third     *)
(* that the thresholds are made for. Whoever takes part in the contract is *)
(* attested, and a dstack attestation on the contract is true. A backup of *)
(* key shares serves only peers that showed the key that was expected, and *)
(* carries only keysets the contract has adopted. What the nodes sign      *)
(* about a foreign transaction is a place it really had. The request queue *)
(* of a node follows the forks and the finality of the chain, forgets no   *)
(* request that can still be answered, and starts no attempt that is known *)
(* to be futile.                                                           *)
(***************************************************************************)
EXTENDS EchoBroadcast, Attestations, BackupService, ForeignChains, RequestQueue,
        SequenceTheorems, FiniteSetTheorems, FunctionTheorems, WellFoundedInduction, TLAPS

-----------------------------------------------------------------------------
(***************************************************************************)
(* The reliable broadcast: thresholds and counting.                        *)
(***************************************************************************)

\* The arithmetic of the thresholds: two echo quorums overlap in more than
\* the faulty participants, and the honest ones alone are an echo quorum.
LEMMA ThresholdArithmetic ==
  ASSUME NEW n \in Nat, n > 0
  PROVE  /\ BroadcastThreshold(n) \in Nat /\ EchoThreshold(n) \in Nat
         /\ BroadcastThreshold(n) <= EchoThreshold(n)
         /\ EchoThreshold(n) < n - BroadcastThreshold(n)
         /\ n <= 3 => BroadcastThreshold(n) = 0 /\ EchoThreshold(n) = 0
         /\ n > 3 => 2 * EchoThreshold(n) + 2 > n + BroadcastThreshold(n)
<1>1. CASE n <= 3
  BY <1>1 DEF BroadcastThreshold, EchoThreshold
<1>2. CASE n > 3
  <2> DEFINE t == (n - 1) \div 3
             e == (n + t) \div 2
  <2>1. BroadcastThreshold(n) = t /\ EchoThreshold(n) = e
    BY <1>2 DEF BroadcastThreshold, EchoThreshold
  <2>2. t \in Nat /\ 3 * t <= n - 1
    BY <1>2
  <2> HIDE DEF t
  <2>3. e \in Nat /\ 2 * e <= n + t /\ n + t < 2 * e + 2
    BY <2>2
  <2> HIDE DEF e
  <2> QED BY <2>1, <2>2, <2>3, <1>2
<1> QED BY <1>1, <1>2

SetupOK ==
  /\ IsFiniteSet(Members) /\ Cardinality(Members) \in Nat /\ Cardinality(Members) > 0
  /\ setup.faulty \subseteq Members
  /\ IsFiniteSet(setup.faulty) /\ Cardinality(setup.faulty) \in Nat
  /\ Cardinality(setup.faulty) <= BroadcastThreshold(Cardinality(Members))
  /\ setup.owner \in Members
  /\ setup.sends \in [Members -> Values]
  /\ setup.owner \in HonestMembers => \A p, q \in Members : setup.sends[p] = setup.sends[q]

\* Every session is one that the thresholds are made for.
LEMMA SetupsOK == setup \in Setups => SetupOK
<1> SUFFICES ASSUME setup \in Setups PROVE SetupOK
  OBVIOUS
<1>1. /\ IsFiniteSet(setup.group)
      /\ setup.faulty \subseteq setup.group
      /\ Cardinality(setup.faulty) <= BroadcastThreshold(Cardinality(setup.group))
      /\ setup.owner \in setup.group
      /\ setup.sends \in [setup.group -> Values]
      /\ setup.owner \notin setup.faulty => \A p, q \in setup.group : setup.sends[p] = setup.sends[q]
  BY SetupAssumption
<1>2. IsFiniteSet(setup.faulty)
  BY <1>1, FS_Subset
<1>3. Cardinality(setup.faulty) \in Nat /\ Cardinality(setup.group) \in Nat
  BY <1>1, <1>2, FS_CardinalityType
<1>4. Cardinality(setup.group) > 0
  <2>1. Cardinality(setup.group) # 0 BY <1>1, FS_EmptySet
  <2> QED BY <2>1, <1>3
<1> QED BY <1>1, <1>2, <1>3, <1>4 DEF SetupOK, Members, HonestMembers

\* More participants than may be faulty include an honest one.
LEMMA HonestAmong ==
  ASSUME SetupOK, NEW A \in SUBSET Members, Cardinality(A) > BroadcastThreshold(Cardinality(Members))
  PROVE  \E q \in A : q \in HonestMembers
<1> SUFFICES ASSUME \A q \in A : q \notin HonestMembers PROVE FALSE
  OBVIOUS
<1>1. A \subseteq setup.faulty
  BY DEF HonestMembers
<1>2. Cardinality(A) <= Cardinality(setup.faulty) /\ IsFiniteSet(A)
  BY <1>1, FS_Subset DEF SetupOK
<1>3. Cardinality(A) \in Nat
  BY <1>2, FS_CardinalityType
<1>4. BroadcastThreshold(Cardinality(Members)) \in Nat
  BY ThresholdArithmetic DEF SetupOK
<1>5. /\ Cardinality(setup.faulty) \in Nat
      /\ Cardinality(setup.faulty) <= BroadcastThreshold(Cardinality(Members))
  BY DEF SetupOK
<1> QED BY <1>2, <1>3, <1>4, <1>5

\* A smaller set of participants has fewer elements.
LEMMA Fewer ==
  ASSUME SetupOK, NEW A \in SUBSET Members, NEW B \in SUBSET A
  PROVE  /\ IsFiniteSet(A) /\ IsFiniteSet(B)
         /\ Cardinality(A) \in Nat /\ Cardinality(B) \in Nat
         /\ Cardinality(B) <= Cardinality(A)
         /\ Cardinality(A) <= Cardinality(Members)
<1>1. IsFiniteSet(A) /\ Cardinality(A) <= Cardinality(Members)
  BY FS_Subset DEF SetupOK
<1>2. IsFiniteSet(B) /\ Cardinality(B) <= Cardinality(A)
  BY <1>1, FS_Subset
<1> QED BY <1>1, <1>2, FS_CardinalityType

(***************************************************************************)
(* The inductive invariant, of the states rs of the honest participants.   *)
(* A value is backed when so many have echoed it, the faulty ones counted  *)
(* as if they had, that no other value can be.                             *)
(***************************************************************************)
Support(rs, d) == {q \in Members : q \in HonestMembers => d \in rs[q].sentEcho}

Backed(rs, d) == EchoQuorum(Cardinality(Support(rs, d)))

LocalOK(l, p) ==
  /\ l \in LocalStates
  /\ \A d, e \in l.sentEcho : d = e
  /\ l.sentEcho # {} => l.finishSend
  /\ l.output # NoValue => l.output \in l.sentReady
  /\ l.finishAmplification => l.sentReady # {}
  /\ setup.owner \in HonestMembers => ~l.alarmed /\ l.sentEcho \subseteq {setup.sends[p]}

VotesOK(l, rs) ==
  \A q \in HonestMembers : /\ l.echo[q] # NoValue => l.echo[q] \in rs[q].sentEcho
                           /\ l.ready[q] # NoValue => l.ready[q] \in rs[q].sentReady

ReadyBacked(l, rs) == \A d \in l.sentReady : Backed(rs, d)

EchoInv(rs) ==
  /\ rs \in [HonestMembers -> LocalStates]
  /\ \A p \in HonestMembers : LocalOK(rs[p], p) /\ VotesOK(rs[p], rs) /\ ReadyBacked(rs[p], rs)

\* With an honest owner only its value is backed.
LEMMA BackedByOwner ==
  ASSUME SetupOK, NEW rs, EchoInv(rs), NEW d, Backed(rs, d), setup.owner \in HonestMembers
  PROVE  \A p \in Members : d = setup.sends[p]
<1> DEFINE n == Cardinality(Members)
<1>1. BroadcastThreshold(n) <= EchoThreshold(n) /\ BroadcastThreshold(n) \in Nat /\ EchoThreshold(n) \in Nat
  BY ThresholdArithmetic DEF SetupOK
<1>2. Support(rs, d) \subseteq Members
  BY DEF Support
<1>3. Cardinality(Support(rs, d)) \in Nat
  BY <1>2, Fewer
<1>4. Cardinality(Support(rs, d)) > EchoThreshold(n)
  BY DEF Backed, EchoQuorum
<1> HIDE DEF n
<1>5. Cardinality(Support(rs, d)) > BroadcastThreshold(n)
  BY <1>1, <1>3, <1>4
<1>6. PICK q \in Support(rs, d) : q \in HonestMembers
  BY <1>2, <1>5, HonestAmong DEF n
<1>7. d \in rs[q].sentEcho
  BY <1>6 DEF Support
<1>8. d = setup.sends[q]
  BY <1>6, <1>7 DEF EchoInv, LocalOK
<1> QED BY <1>6, <1>8 DEF SetupOK, HonestMembers

\* No two values are backed.
LEMMA BackedOnce ==
  ASSUME SetupOK, NEW rs, EchoInv(rs), NEW d, NEW e, Backed(rs, d), Backed(rs, e)
  PROVE  d = e
<1> DEFINE n == Cardinality(Members)
           t == BroadcastThreshold(n)
           A == Support(rs, d)
           B == Support(rs, e)
<1>1. n \in Nat /\ n > 0 /\ t \in Nat /\ EchoThreshold(n) \in Nat
  BY ThresholdArithmetic DEF SetupOK
<1>2. CASE n <= 3
  <2>1. t = 0 BY <1>1, <1>2, ThresholdArithmetic
  <2>2. setup.faulty = {}
    <3>1. Cardinality(setup.faulty) = 0 BY <2>1 DEF SetupOK
    <3> QED BY <3>1, FS_EmptySet DEF SetupOK
  <2>3. setup.owner \in HonestMembers BY <2>2 DEF SetupOK, HonestMembers
  <2> QED BY <2>3, BackedByOwner DEF SetupOK
<1>3. CASE n > 3
  <2> SUFFICES ASSUME d # e PROVE FALSE
    OBVIOUS
  <2>1. 2 * EchoThreshold(n) + 2 > n + t
    BY <1>1, <1>3, ThresholdArithmetic
  <2>2. Cardinality(A) > EchoThreshold(n) /\ Cardinality(B) > EchoThreshold(n)
    BY DEF Backed, EchoQuorum
  <2>3. A \subseteq Members /\ B \subseteq Members
    BY DEF Support
  <2>4. A \intersect B \subseteq setup.faulty
    <3> SUFFICES ASSUME NEW q \in A, q \in B, q \notin setup.faulty PROVE FALSE
      OBVIOUS
    <3>1. q \in HonestMembers BY <2>3 DEF HonestMembers
    <3>2. d \in rs[q].sentEcho /\ e \in rs[q].sentEcho BY <3>1 DEF Support
    <3> QED BY <3>1, <3>2 DEF EchoInv, LocalOK
  <2> HIDE DEF n, t, A, B
  <2>5. IsFiniteSet(A) /\ IsFiniteSet(B) /\ Cardinality(A) \in Nat /\ Cardinality(B) \in Nat
    BY <2>3, Fewer
  <2>6. Cardinality(A \union B) <= n /\ Cardinality(A \union B) \in Nat
    <3>1. A \union B \subseteq Members BY <2>3
    <3> QED BY <3>1, Fewer DEF n
  <2>7. Cardinality(A \intersect B) <= t /\ Cardinality(A \intersect B) \in Nat
    <3>1. Cardinality(A \intersect B) <= Cardinality(setup.faulty) /\ IsFiniteSet(A \intersect B)
      BY <2>4, FS_Subset DEF SetupOK
    <3>2. Cardinality(A \intersect B) \in Nat BY <3>1, FS_CardinalityType
    <3>3. Cardinality(setup.faulty) \in Nat /\ Cardinality(setup.faulty) <= t BY DEF SetupOK, t, n
    <3> QED BY <3>1, <3>2, <3>3, <1>1
  <2>8. Cardinality(A \union B) = Cardinality(A) + Cardinality(B) - Cardinality(A \intersect B)
    BY <2>5, FS_Union
  <2> QED BY <1>1, <2>1, <2>2, <2>5, <2>6, <2>7, <2>8
<1> QED BY <1>1, <1>2, <1>3

\* A participant's state may be replaced by one that has sent at least as
\* much and is sound by itself.
LEMMA Replace ==
  ASSUME SetupOK, NEW rs, EchoInv(rs), NEW p \in HonestMembers, NEW l, LocalOK(l, p),
         rs[p].sentEcho \subseteq l.sentEcho, rs[p].sentReady \subseteq l.sentReady,
         VotesOK(l, [rs EXCEPT ![p] = l]), ReadyBacked(l, [rs EXCEPT ![p] = l])
  PROVE  EchoInv([rs EXCEPT ![p] = l])
<1> DEFINE ss == [rs EXCEPT ![p] = l]
<1>1. rs \in [HonestMembers -> LocalStates]
  BY DEF EchoInv
<1>2. ss \in [HonestMembers -> LocalStates]
  BY <1>1 DEF LocalOK
<1>3. ss[p] = l /\ \A q \in HonestMembers : q # p => ss[q] = rs[q]
  BY <1>1
<1>4. \A q \in HonestMembers : rs[q].sentEcho \subseteq ss[q].sentEcho /\ rs[q].sentReady \subseteq ss[q].sentReady
  BY <1>3
<1> HIDE DEF ss
<1>5. ASSUME NEW d, Backed(rs, d) PROVE Backed(ss, d)
  <2>1. Support(rs, d) \subseteq Support(ss, d)
    BY <1>4 DEF Support
  <2>2. Support(ss, d) \subseteq Members
    BY DEF Support
  <2>3. /\ Cardinality(Support(rs, d)) <= Cardinality(Support(ss, d))
        /\ Cardinality(Support(rs, d)) \in Nat /\ Cardinality(Support(ss, d)) \in Nat
    BY <2>1, <2>2, Fewer
  <2>4. EchoThreshold(Cardinality(Members)) \in Nat
    BY ThresholdArithmetic DEF SetupOK
  <2> QED BY <1>5, <2>3, <2>4 DEF Backed, EchoQuorum
<1>6. ASSUME NEW q \in HonestMembers, q # p
      PROVE  LocalOK(ss[q], q) /\ VotesOK(ss[q], ss) /\ ReadyBacked(ss[q], ss)
  <2>1. LocalOK(rs[q], q) /\ VotesOK(rs[q], rs) /\ ReadyBacked(rs[q], rs) /\ ss[q] = rs[q]
    BY <1>3, <1>6 DEF EchoInv
  <2>2. VotesOK(rs[q], ss)
    BY <2>1, <1>4 DEF VotesOK
  <2>3. ReadyBacked(rs[q], ss)
    BY <2>1, <1>5 DEF ReadyBacked
  <2> QED BY <2>1, <2>2, <2>3
<1>7. LocalOK(ss[p], p) /\ VotesOK(ss[p], ss) /\ ReadyBacked(ss[p], ss)
  BY <1>3 DEF ss
<1>8. EchoInv(ss)
  BY <1>2, <1>6, <1>7 DEF EchoInv
<1> QED BY <1>8 DEF ss

\* Support depends on the echoes only.
LEMMA SameEchoes ==
  ASSUME NEW rs, rs \in [HonestMembers -> LocalStates], NEW p \in HonestMembers, NEW l,
         l.sentEcho = rs[p].sentEcho, NEW d, Backed(rs, d)
  PROVE  Backed([rs EXCEPT ![p] = l], d)
<1>1. \A q \in HonestMembers : [rs EXCEPT ![p] = l][q].sentEcho = rs[q].sentEcho
  OBVIOUS
<1>2. Support([rs EXCEPT ![p] = l], d) = Support(rs, d)
  BY <1>1 DEF Support
<1> QED BY <1>2 DEF Backed

(***************************************************************************)
(* The arm for Ready.                                                      *)
(***************************************************************************)

\* What one pass for a ready vote does to the state.
LEMMA OnReadyShape ==
  ASSUME NEW l \in LocalStates, NEW p, NEW from \in Members, NEW d \in Values,
         l.ready[from] = NoValue, ~l.finishReady
  PROVE  LET box == [l.ready EXCEPT ![from] = d]
             votes == Votes(box, d)
             m == OnReady(l, p, from, d)
         IN /\ m \in LocalStates
            /\ m.sentEcho = l.sentEcho
            /\ m.echo \in {l.echo, NoVotes} /\ m.ready \in {box, NoVotes}
            /\ l.finishSend => m.finishSend
            /\ m.sentReady = IF Amplifies(votes) /\ ~l.finishAmplification
                             THEN l.sentReady \union {d} ELSE l.sentReady
            /\ m.finishAmplification => l.finishAmplification \/ Amplifies(votes)
            /\ m.output = IF ReadyQuorum(votes) THEN d ELSE l.output
            /\ m.alarmed => IF ReadyQuorum(votes) THEN p = setup.owner /\ d # setup.sends[p] ELSE l.alarmed
<1> DEFINE box == [l.ready EXCEPT ![from] = d]
           votes == Votes(box, d)
           a == IF Amplifies(votes) /\ ~l.finishAmplification THEN Amplified(l, d) ELSE l
           m == OnReady(l, p, from, d)
<1>1. m = IF ReadyQuorum(votes)
          THEN [a EXCEPT !.finishSend = TRUE, !.finishEcho = TRUE, !.finishReady = TRUE,
                         !.echo = NoVotes, !.ready = NoVotes, !.output = d,
                         !.alarmed = p = setup.owner /\ d # setup.sends[p]]
          ELSE [a EXCEPT !.ready = box]
  BY DEF OnReady
<1>2. box \in [Members -> Values \union {NoValue}] /\ NoVotes \in [Members -> Values \union {NoValue}]
  BY DEF LocalStates, NoVotes
<1> HIDE DEF box, votes, m
<1>3. /\ a \in LocalStates
      /\ a.sentEcho = l.sentEcho /\ a.echo = l.echo /\ a.output = l.output
      /\ a.sentReady = IF Amplifies(votes) /\ ~l.finishAmplification THEN l.sentReady \union {d} ELSE l.sentReady
  BY DEF Amplified, LocalStates
<1>4. a.finishSend = l.finishSend /\ a.alarmed = l.alarmed
  BY DEF Amplified, LocalStates
<1>5. a.finishAmplification => l.finishAmplification \/ Amplifies(votes)
  <2>1. CASE Amplifies(votes) BY <2>1
  <2>2. CASE ~Amplifies(votes) BY <2>2
  <2> QED BY <2>1, <2>2
<1> HIDE DEF a
<1>6. CASE ReadyQuorum(votes)
  <2>1. m = [a EXCEPT !.finishSend = TRUE, !.finishEcho = TRUE, !.finishReady = TRUE,
                      !.echo = NoVotes, !.ready = NoVotes, !.output = d,
                      !.alarmed = p = setup.owner /\ d # setup.sends[p]]
    BY <1>1, <1>6
  <2>2. (p = setup.owner /\ d # setup.sends[p]) \in BOOLEAN
    OBVIOUS
  <2> DEFINE alarm == p = setup.owner /\ d # setup.sends[p]
  <2>3. m = [a EXCEPT !.finishSend = TRUE, !.finishEcho = TRUE, !.finishReady = TRUE,
                      !.echo = NoVotes, !.ready = NoVotes, !.output = d, !.alarmed = alarm]
    BY <2>1
  <2>4. alarm \in BOOLEAN
    OBVIOUS
  <2> HIDE DEF alarm
  <2>5. /\ m \in LocalStates /\ m.sentEcho = a.sentEcho /\ m.echo = NoVotes /\ m.ready = NoVotes
        /\ m.sentReady = a.sentReady /\ m.output = d
    BY <2>3, <2>4, <1>2, <1>3 DEF LocalStates
  <2>6. m.finishSend = TRUE /\ m.finishAmplification = a.finishAmplification /\ m.alarmed = alarm
    BY <2>3, <1>3 DEF LocalStates
  <2>7. m.alarmed => p = setup.owner /\ d # setup.sends[p]
    BY <2>6 DEF alarm
  <2>8. m.finishAmplification => l.finishAmplification \/ Amplifies(votes)
    BY <2>6, <1>5
  <2> QED BY <2>5, <2>6, <2>7, <2>8, <1>3, <1>6 DEF m, votes, box
<1>7. CASE ~ReadyQuorum(votes)
  <2>1. m = [a EXCEPT !.ready = box]
    BY <1>1, <1>7
  <2>2. /\ m \in LocalStates /\ m.sentEcho = a.sentEcho /\ m.echo = a.echo /\ m.ready = box
        /\ m.sentReady = a.sentReady /\ m.output = a.output
    BY <2>1, <1>2, <1>3 DEF LocalStates
  <2>3. /\ m.finishSend = a.finishSend /\ m.finishAmplification = a.finishAmplification
        /\ m.alarmed = a.alarmed
    BY <2>1, <1>3 DEF LocalStates
  <2>4. m.finishAmplification => l.finishAmplification \/ Amplifies(votes)
    BY <2>3, <1>5
  <2>5. (m.alarmed => l.alarmed) /\ (l.finishSend => m.finishSend)
    BY <2>3, <1>4
  <2> QED BY <2>2, <2>4, <2>5, <1>3, <1>7 DEF m, votes, box
<1> QED BY <1>6, <1>7

\* The state rs with that of p replaced, seen through its parts.
LEMMA Replaced ==
  ASSUME NEW rs \in [HonestMembers -> LocalStates], NEW p \in HonestMembers, NEW l
  PROVE  /\ [rs EXCEPT ![p] = l][p] = l
         /\ \A q \in HonestMembers : q # p => [rs EXCEPT ![p] = l][q] = rs[q]
         /\ \A m : [[rs EXCEPT ![p] = l] EXCEPT ![p] = m] = [rs EXCEPT ![p] = m]
         /\ [rs EXCEPT ![p] = rs[p]] = rs
OBVIOUS

\* One pass for a ready vote that was really sent keeps the invariant.
LEMMA OnReadyInv ==
  ASSUME SetupOK, NEW rs, EchoInv(rs), NEW p \in HonestMembers, NEW from \in Members, NEW d \in Values,
         from \in HonestMembers => d \in rs[from].sentReady
  PROVE  LET m == OnReady(rs[p], p, from, d)
         IN /\ EchoInv([rs EXCEPT ![p] = m])
            /\ rs[p].sentReady \subseteq m.sentReady
            /\ m.finishAmplification /\ ~rs[p].finishAmplification => d \in m.sentReady
<1> DEFINE l == rs[p]
           m == OnReady(l, p, from, d)
           ss == [rs EXCEPT ![p] = m]
           box == [l.ready EXCEPT ![from] = d]
           voters == {q \in DOMAIN box : box[q] = d}
           n == Cardinality(Members)
<1>1. rs \in [HonestMembers -> LocalStates] /\ l \in LocalStates
  BY DEF EchoInv
<1>2. LocalOK(l, p) /\ VotesOK(l, rs) /\ ReadyBacked(l, rs)
  BY DEF EchoInv
<1>3. CASE l.ready[from] # NoValue \/ l.finishReady
  <2>1. m = l BY <1>3 DEF OnReady
  <2>2. ss = rs BY <2>1, <1>1, Replaced
  <2> QED BY <2>1, <2>2
<1>4. CASE l.ready[from] = NoValue /\ ~l.finishReady
  <2>1. /\ m \in LocalStates
        /\ m.sentEcho = l.sentEcho
        /\ m.echo \in {l.echo, NoVotes} /\ m.ready \in {box, NoVotes}
        /\ l.finishSend => m.finishSend
        /\ m.sentReady = IF Amplifies(Votes(box, d)) /\ ~l.finishAmplification
                         THEN l.sentReady \union {d} ELSE l.sentReady
        /\ m.finishAmplification => l.finishAmplification \/ Amplifies(Votes(box, d))
        /\ m.output = IF ReadyQuorum(Votes(box, d)) THEN d ELSE l.output
        /\ m.alarmed => IF ReadyQuorum(Votes(box, d)) THEN p = setup.owner /\ d # setup.sends[p] ELSE l.alarmed
    BY <1>1, <1>4, OnReadyShape
  <2>2. box \in [Members -> Values \union {NoValue}] /\ box[from] = d /\ \A q \in Members : q # from => box[q] = l.ready[q]
    BY <1>1 DEF LocalStates
  <2>3. \A q \in HonestMembers : box[q] # NoValue => box[q] \in rs[q].sentReady
    BY <2>2, <1>2 DEF VotesOK, HonestMembers
  <2>4. Votes(box, d) = Cardinality(voters) /\ voters \subseteq Members
    BY <2>2 DEF Votes
  <2>5. d # NoValue
    BY ValueAssumption
  <2> HIDE DEF m, box, voters
  <2>6. ASSUME Amplifies(Votes(box, d)) PROVE Backed(rs, d)
    <3>1. PICK q \in voters : q \in HonestMembers
      BY <2>4, <2>6, HonestAmong DEF Amplifies
    <3>2. box[q] = d BY <3>1 DEF voters
    <3>3. d \in rs[q].sentReady BY <3>1, <3>2, <2>3, <2>5
    <3> QED BY <3>1, <3>3 DEF EchoInv, ReadyBacked
  <2>7. ReadyQuorum(Votes(box, d)) => Amplifies(Votes(box, d))
    <3>1. BroadcastThreshold(n) \in Nat BY ThresholdArithmetic DEF SetupOK
    <3>2. Votes(box, d) \in Nat BY <2>4, Fewer
    <3> HIDE DEF n
    <3>3. Votes(box, d) > 2 * BroadcastThreshold(n) => Votes(box, d) > BroadcastThreshold(n) BY <3>1, <3>2
    <3> QED BY <3>3 DEF ReadyQuorum, Amplifies, n
  <2>8. l.sentReady \subseteq m.sentReady /\ m.sentReady \subseteq l.sentReady \union {d}
    BY <2>1
  <2>9. ReadyQuorum(Votes(box, d)) => d \in m.sentReady
    <3> SUFFICES ASSUME ReadyQuorum(Votes(box, d)) PROVE d \in m.sentReady
      OBVIOUS
    <3>1. Amplifies(Votes(box, d)) /\ Backed(rs, d) BY <2>6, <2>7
    <3>2. CASE ~l.finishAmplification BY <3>1, <3>2, <2>1
    <3>3. CASE l.finishAmplification
      <4>1. PICK e : e \in l.sentReady BY <3>3, <1>2 DEF LocalOK
      <4>2. Backed(rs, e) BY <4>1, <1>2 DEF ReadyBacked
      <4>3. e = d BY <3>1, <4>2, BackedOnce
      <4> QED BY <4>1, <4>3, <2>8
    <3> QED BY <3>2, <3>3
  <2>10. m.finishAmplification /\ ~l.finishAmplification => d \in m.sentReady
    <3>1. CASE Amplifies(Votes(box, d)) /\ ~l.finishAmplification BY <3>1, <2>1
    <3>2. CASE ~(Amplifies(Votes(box, d)) /\ ~l.finishAmplification) BY <3>2, <2>1
    <3> QED BY <3>1, <3>2
  <2>11. setup.owner \in HonestMembers => ~m.alarmed
    <3> SUFFICES ASSUME setup.owner \in HonestMembers, m.alarmed PROVE FALSE
      OBVIOUS
    <3>1. ~l.alarmed BY <1>2 DEF LocalOK
    <3>2. ReadyQuorum(Votes(box, d)) /\ p = setup.owner /\ d # setup.sends[p] BY <2>1, <3>1
    <3>3. Backed(rs, d) BY <3>2, <2>6, <2>7
    <3> QED BY <3>2, <3>3, BackedByOwner DEF HonestMembers
  <2>12. LocalOK(m, p)
    <3>1. (\A x, y \in m.sentEcho : x = y) /\ (m.sentEcho # {} => m.finishSend)
      BY <1>2, <2>1 DEF LocalOK
    <3>2. m.output # NoValue => m.output \in m.sentReady
      <4>1. CASE ReadyQuorum(Votes(box, d)) BY <4>1, <2>1, <2>9
      <4>2. CASE ~ReadyQuorum(Votes(box, d)) BY <4>2, <2>1, <2>8, <1>2 DEF LocalOK
      <4> QED BY <4>1, <4>2
    <3>3. m.finishAmplification => m.sentReady # {}
      <4>1. CASE l.finishAmplification BY <4>1, <2>8, <1>2 DEF LocalOK
      <4>2. CASE ~l.finishAmplification BY <4>2, <2>10
      <4> QED BY <4>1, <4>2
    <3>4. setup.owner \in HonestMembers => m.sentEcho \subseteq {setup.sends[p]}
      BY <1>2, <2>1 DEF LocalOK
    <3> QED BY <3>1, <3>2, <3>3, <3>4, <2>1, <2>11 DEF LocalOK
  <2>13. /\ ss[p] = m /\ \A q \in HonestMembers : q # p => ss[q] = rs[q]
    BY <1>1, Replaced
  <2>14. VotesOK(m, ss)
    <3> SUFFICES ASSUME NEW q \in HonestMembers
                 PROVE  /\ m.echo[q] # NoValue => m.echo[q] \in ss[q].sentEcho
                        /\ m.ready[q] # NoValue => m.ready[q] \in ss[q].sentReady
      BY DEF VotesOK
    <3>1. rs[q].sentEcho \subseteq ss[q].sentEcho /\ rs[q].sentReady \subseteq ss[q].sentReady
      BY <2>1, <2>8, <2>13
    <3>2. NoVotes[q] = NoValue BY DEF NoVotes, HonestMembers
    <3>3. l.echo[q] # NoValue => l.echo[q] \in rs[q].sentEcho BY <1>2 DEF VotesOK
    <3>4. m.echo[q] # NoValue => m.echo[q] \in ss[q].sentEcho BY <3>1, <3>2, <3>3, <2>1
    <3>5. m.ready[q] # NoValue => m.ready[q] \in ss[q].sentReady BY <3>1, <3>2, <2>1, <2>3
    <3> QED BY <3>4, <3>5
  <2>15. ReadyBacked(m, ss)
    <3> SUFFICES ASSUME NEW e \in m.sentReady PROVE Backed(ss, e)
      BY DEF ReadyBacked
    <3>1. Backed(rs, e)
      <4>1. CASE e \in l.sentReady BY <4>1, <1>2 DEF ReadyBacked
      <4>2. CASE e \notin l.sentReady BY <4>2, <2>1, <2>6
      <4> QED BY <4>1, <4>2
    <3> QED BY <3>1, <1>1, <2>1, SameEchoes
  <2>16. EchoInv(ss)
    BY <2>1, <2>8, <2>12, <2>14, <2>15, Replace
  <2> QED BY <2>8, <2>10, <2>16 DEF m
<1> QED BY <1>3, <1>4

\* A ready vote with the vote it may simulate.
LEMMA HandleReadyInv ==
  ASSUME SetupOK, NEW rs, EchoInv(rs), NEW p \in HonestMembers, NEW from \in Members, NEW d \in Values,
         from \in HonestMembers => d \in rs[from].sentReady
  PROVE  EchoInv([rs EXCEPT ![p] = HandleReady(rs[p], p, from, d)])
<1> DEFINE l == rs[p]
           once == OnReady(l, p, from, d)
           ss == [rs EXCEPT ![p] = once]
<1>1. rs \in [HonestMembers -> LocalStates]
  BY DEF EchoInv
<1>2. EchoInv(ss) /\ (once.finishAmplification /\ ~l.finishAmplification => d \in once.sentReady)
  BY OnReadyInv
<1>3. HandleReady(l, p, from, d) =
        IF once.finishAmplification /\ ~l.finishAmplification /\ Running(once)
        THEN OnReady(once, p, p, d) ELSE once
  BY DEF HandleReady
<1> HIDE DEF once
<1>4. CASE once.finishAmplification /\ ~l.finishAmplification /\ Running(once)
  <2>1. ss[p] = once /\ \A x : [ss EXCEPT ![p] = x] = [rs EXCEPT ![p] = x]
    BY <1>1, Replaced
  <2>2. p \in Members BY DEF HonestMembers
  <2> HIDE DEF ss
  <2>3. EchoInv([ss EXCEPT ![p] = OnReady(ss[p], p, p, d)])
    BY <1>2, <1>4, <2>1, <2>2, OnReadyInv
  <2> QED BY <2>1, <2>3, <1>3, <1>4
<1>5. CASE ~(once.finishAmplification /\ ~l.finishAmplification /\ Running(once))
  BY <1>2, <1>3, <1>5
<1> QED BY <1>4, <1>5

(***************************************************************************)
(* The arms for Echo and Send.                                             *)
(***************************************************************************)

\* With an honest owner a quorum for its value stays possible: the votes for
\* other values come from faulty participants only.
LEMMA QuorumStaysPossible ==
  ASSUME SetupOK, NEW box \in [Members -> Values \union {NoValue}], NEW from \in Members, box[from] # NoValue,
         NEW v, \A q \in HonestMembers : box[q] # NoValue => box[q] = v
  PROVE  QuorumPossible(box)
<1> DEFINE n == Cardinality(Members)
           t == BroadcastThreshold(n)
           C == Counted(box)
           H == C \intersect HonestMembers
<1>1. /\ n \in Nat /\ t \in Nat /\ EchoThreshold(n) \in Nat /\ EchoThreshold(n) < n - t
      /\ Cardinality(setup.faulty) \in Nat /\ Cardinality(setup.faulty) <= t /\ IsFiniteSet(setup.faulty)
  BY ThresholdArithmetic DEF SetupOK
<1>2. C \subseteq Members /\ from \in C /\ \A q \in C : box[q] # NoValue
  BY DEF Counted
<1>3. QuorumPossible(box) <=> \E q \in C : Votes(box, box[q]) + (n - Cardinality(C)) > EchoThreshold(n)
  BY DEF QuorumPossible, EchoQuorum
<1> HIDE DEF n, t, C
<1>4. IsFiniteSet(C) /\ Cardinality(C) \in Nat /\ Cardinality(C) <= n
  BY <1>2, Fewer DEF n
<1>5. \A x : Votes(box, x) \in Nat
  <2> TAKE x
  <2>1. {q \in DOMAIN box : box[q] = x} \subseteq Members OBVIOUS
  <2> QED BY <2>1, Fewer DEF Votes
<1>6. CASE H = {}
  <2>1. C \subseteq setup.faulty
    BY <1>2, <1>6 DEF HonestMembers
  <2>2. Cardinality(C) <= Cardinality(setup.faulty)
    BY <1>1, <2>1, FS_Subset
  <2>3. Votes(box, box[from]) \in Nat
    BY <1>5
  <2>4. Votes(box, box[from]) + (n - Cardinality(C)) > EchoThreshold(n)
    BY <1>1, <1>4, <2>2, <2>3
  <2> QED BY <1>2, <1>3, <2>4
<1>7. CASE H # {}
  <2>1. PICK q \in H : TRUE
    BY <1>7
  <2>2. q \in C /\ box[q] = v
    BY <1>2, <2>1
  <2> DEFINE A == {x \in DOMAIN box : box[x] = v}
  <2>3. H \subseteq A /\ A \subseteq Members /\ Votes(box, v) = Cardinality(A)
    BY <1>2 DEF Votes
  <2> HIDE DEF A
  <2>4. Cardinality(H) <= Cardinality(A) /\ Cardinality(H) \in Nat
    BY <2>3, Fewer
  <2>5. Cardinality(C) <= Cardinality(H) + t
    <3> DEFINE F == C \intersect setup.faulty
    <3>1. C = H \union F
      BY <1>2 DEF HonestMembers
    <3>2. IsFiniteSet(F) /\ Cardinality(F) <= Cardinality(setup.faulty)
      <4>1. F \subseteq setup.faulty OBVIOUS
      <4> QED BY <4>1, <1>1, FS_Subset
    <3>3. IsFiniteSet(H)
      BY <1>4, FS_Subset
    <3>4. /\ Cardinality(F) \in Nat
          /\ Cardinality(H \intersect F) \in Nat
      <4>1. H \intersect F \subseteq H OBVIOUS
      <4>2. IsFiniteSet(H \intersect F) BY <4>1, <3>3, FS_Subset
      <4> QED BY <3>2, <4>2, FS_CardinalityType
    <3>5. Cardinality(H \union F) = Cardinality(H) + Cardinality(F) - Cardinality(H \intersect F)
      BY <3>2, <3>3, FS_Union
    <3> HIDE DEF H, F
    <3> QED BY <3>1, <3>2, <3>4, <3>5, <2>4, <1>1
  <2>6. Votes(box, v) \in Nat
    BY <1>5
  <2>7. Votes(box, v) + (n - Cardinality(C)) > EchoThreshold(n)
    <3> HIDE DEF H
    <3> QED BY <1>1, <1>4, <2>3, <2>4, <2>5, <2>6
  <2> QED BY <1>3, <2>2, <2>7
<1> QED BY <1>6, <1>7

\* An echo that was really sent.
LEMMA HandleEchoInv ==
  ASSUME SetupOK, NEW rs, EchoInv(rs), NEW p \in HonestMembers, NEW from \in Members, NEW d \in Values,
         from \in HonestMembers => d \in rs[from].sentEcho
  PROVE  EchoInv([rs EXCEPT ![p] = HandleEcho(rs[p], p, from, d)])
<1> DEFINE l == rs[p]
           box == [l.echo EXCEPT ![from] = d]
           voters == {q \in DOMAIN box : box[q] = d}
<1>1. rs \in [HonestMembers -> LocalStates] /\ l \in LocalStates /\ p \in Members
  BY DEF EchoInv, HonestMembers
<1>2. LocalOK(l, p) /\ VotesOK(l, rs) /\ ReadyBacked(l, rs)
  BY DEF EchoInv
<1>3. d # NoValue
  BY ValueAssumption
<1>4. box \in [Members -> Values \union {NoValue}] /\ box[from] = d /\ \A q \in Members : q # from => box[q] = l.echo[q]
  BY <1>1 DEF LocalStates
<1>5. \A q \in HonestMembers : box[q] # NoValue => box[q] \in rs[q].sentEcho
  BY <1>2, <1>4 DEF VotesOK, HonestMembers
<1>6. CASE l.finishEcho
  <2>1. HandleEcho(l, p, from, d) = l BY <1>6 DEF HandleEcho
  <2> QED BY <2>1, <1>1, Replaced
<1>7. CASE ~l.finishEcho /\ EchoQuorum(Votes(box, d))
  <2> DEFINE m == [l EXCEPT !.echo = NoVotes, !.finishEcho = TRUE, !.sentReady = @ \union {d}]
             ss == [rs EXCEPT ![p] = m]
  <2>1. HandleEcho(l, p, from, d) = HandleReady(m, p, p, d)
    BY <1>7 DEF HandleEcho
  <2>2. NoVotes \in [Members -> Values \union {NoValue}] /\ \A q \in Members : NoVotes[q] = NoValue
    BY DEF NoVotes
  <2>3. /\ m \in LocalStates /\ m.echo = NoVotes /\ m.ready = l.ready /\ m.sentEcho = l.sentEcho
        /\ m.sentReady = l.sentReady \union {d} /\ m.output = l.output
    BY <1>1, <2>2 DEF LocalStates
  <2>4. m.finishSend = l.finishSend /\ m.finishAmplification = l.finishAmplification /\ m.alarmed = l.alarmed
    BY <1>1 DEF LocalStates
  <2>5. Backed(rs, d)
    <3>1. Votes(box, d) = Cardinality(voters) BY DEF Votes
    <3>2. voters \subseteq Support(rs, d)
      BY <1>3, <1>4, <1>5 DEF Support
    <3>3. Support(rs, d) \subseteq Members BY DEF Support
    <3> HIDE DEF voters
    <3>4. /\ Cardinality(voters) <= Cardinality(Support(rs, d))
          /\ Cardinality(voters) \in Nat /\ Cardinality(Support(rs, d)) \in Nat
      BY <3>2, <3>3, Fewer
    <3>5. EchoThreshold(Cardinality(Members)) \in Nat BY ThresholdArithmetic DEF SetupOK
    <3>6. Cardinality(voters) > EchoThreshold(Cardinality(Members)) BY <1>7, <3>1 DEF EchoQuorum
    <3>7. Cardinality(Support(rs, d)) > EchoThreshold(Cardinality(Members)) BY <3>4, <3>5, <3>6
    <3> QED BY <3>7 DEF Backed, EchoQuorum
  <2> HIDE DEF m
  <2>6. LocalOK(m, p)
    <3>1. (\A x, y \in m.sentEcho : x = y) /\ (m.sentEcho # {} => m.finishSend)
      BY <1>2, <2>3, <2>4 DEF LocalOK
    <3>2. m.output # NoValue => m.output \in m.sentReady
      BY <1>2, <2>3 DEF LocalOK
    <3>3. m.finishAmplification => m.sentReady # {}
      BY <2>3
    <3>4. setup.owner \in HonestMembers => ~m.alarmed /\ m.sentEcho \subseteq {setup.sends[p]}
      BY <1>2, <2>3, <2>4 DEF LocalOK
    <3> QED BY <3>1, <3>2, <3>3, <3>4, <2>3 DEF LocalOK
  <2>7. ss[p] = m /\ (\A q \in HonestMembers : q # p => ss[q] = rs[q])
        /\ \A x : [ss EXCEPT ![p] = x] = [rs EXCEPT ![p] = x]
    BY <1>1, Replaced
  <2>8. VotesOK(m, ss)
    <3> SUFFICES ASSUME NEW q \in HonestMembers
                 PROVE  /\ m.echo[q] # NoValue => m.echo[q] \in ss[q].sentEcho
                        /\ m.ready[q] # NoValue => m.ready[q] \in ss[q].sentReady
      BY DEF VotesOK
    <3>1. rs[q].sentReady \subseteq ss[q].sentReady BY <2>3, <2>7
    <3>2. m.echo[q] = NoValue BY <2>2, <2>3 DEF HonestMembers
    <3> QED BY <3>1, <3>2, <2>3, <1>2 DEF VotesOK
  <2>9. ReadyBacked(m, ss)
    <3> SUFFICES ASSUME NEW e \in m.sentReady PROVE Backed(ss, e)
      BY DEF ReadyBacked
    <3>1. Backed(rs, e) BY <2>3, <2>5, <1>2 DEF ReadyBacked
    <3> QED BY <3>1, <1>1, <2>3, SameEchoes
  <2>10. EchoInv(ss)
    BY <2>3, <2>6, <2>8, <2>9, Replace
  <2>11. d \in ss[p].sentReady
    BY <2>3, <2>7
  <2> HIDE DEF ss
  <2>12. EchoInv([ss EXCEPT ![p] = HandleReady(ss[p], p, p, d)])
    BY <1>1, <2>10, <2>11, HandleReadyInv
  <2> QED BY <2>1, <2>7, <2>12
<1>8. CASE ~l.finishEcho /\ ~EchoQuorum(Votes(box, d))
  <2> DEFINE alarm == ~l.finishAmplification /\ ~QuorumPossible(box)
             m == [l EXCEPT !.echo = box, !.alarmed = alarm]
             ss == [rs EXCEPT ![p] = m]
  <2>1. HandleEcho(l, p, from, d) = m
    BY <1>8 DEF HandleEcho
  <2>2. alarm \in BOOLEAN
    OBVIOUS
  <2>3. setup.owner \in HonestMembers => ~alarm
    <3> SUFFICES ASSUME setup.owner \in HonestMembers PROVE QuorumPossible(box)
      OBVIOUS
    <3> DEFINE v == setup.sends[setup.owner]
    <3>1. \A q \in HonestMembers : box[q] # NoValue => box[q] = v
      <4>1. \A q \in HonestMembers : rs[q].sentEcho \subseteq {v}
        BY DEF EchoInv, LocalOK, SetupOK, HonestMembers
      <4> QED BY <4>1, <1>5
    <3> HIDE DEF v, box
    <3> QED BY <3>1, <1>3, <1>4, QuorumStaysPossible
  <2> HIDE DEF alarm, box
  <2>4. /\ m \in LocalStates /\ m.echo = box /\ m.ready = l.ready /\ m.sentEcho = l.sentEcho
        /\ m.sentReady = l.sentReady /\ m.output = l.output
    BY <1>1, <1>4, <2>2 DEF LocalStates
  <2>5. m.finishSend = l.finishSend /\ m.finishAmplification = l.finishAmplification /\ m.alarmed = alarm
    BY <1>1 DEF LocalStates
  <2> HIDE DEF m
  <2>6. LocalOK(m, p)
    <3>1. (\A x, y \in m.sentEcho : x = y) /\ (m.sentEcho # {} => m.finishSend)
      BY <1>2, <2>4, <2>5 DEF LocalOK
    <3>2. m.output # NoValue => m.output \in m.sentReady
      BY <1>2, <2>4 DEF LocalOK
    <3>3. m.finishAmplification => m.sentReady # {}
      BY <1>2, <2>4, <2>5 DEF LocalOK
    <3>4. setup.owner \in HonestMembers => m.sentEcho \subseteq {setup.sends[p]}
      BY <1>2, <2>4 DEF LocalOK
    <3>5. setup.owner \in HonestMembers => ~m.alarmed
      BY <2>3, <2>5
    <3> QED BY <3>1, <3>2, <3>3, <3>4, <3>5, <2>4 DEF LocalOK
  <2>7. ss[p] = m /\ \A q \in HonestMembers : q # p => ss[q] = rs[q]
    BY <1>1, Replaced
  <2>8. VotesOK(m, ss)
    <3> SUFFICES ASSUME NEW q \in HonestMembers
                 PROVE  /\ m.echo[q] # NoValue => m.echo[q] \in ss[q].sentEcho
                        /\ m.ready[q] # NoValue => m.ready[q] \in ss[q].sentReady
      BY DEF VotesOK
    <3>1. rs[q].sentReady \subseteq ss[q].sentReady /\ rs[q].sentEcho \subseteq ss[q].sentEcho
      BY <2>4, <2>7
    <3>2. m.echo[q] # NoValue => m.echo[q] \in rs[q].sentEcho BY <2>4, <1>5
    <3> QED BY <3>1, <3>2, <2>4, <1>2 DEF VotesOK
  <2>9. ReadyBacked(m, ss)
    <3> SUFFICES ASSUME NEW e \in m.sentReady PROVE Backed(ss, e)
      BY DEF ReadyBacked
    <3>1. Backed(rs, e) BY <2>4, <1>2 DEF ReadyBacked
    <3> QED BY <3>1, <1>1, <2>4, SameEchoes
  <2>10. EchoInv(ss)
    BY <2>4, <2>6, <2>8, <2>9, Replace
  <2> QED BY <2>1, <2>10
<1> QED BY <1>6, <1>7, <1>8

\* The Send of the owner, which is handled once.
LEMMA HandleSendInv ==
  ASSUME SetupOK, NEW rs, EchoInv(rs), NEW p \in HonestMembers, ~rs[p].finishSend
  PROVE  EchoInv([rs EXCEPT ![p] = HandleSend(rs[p], p, setup.sends[p])])
<1> DEFINE l == rs[p]
           d == setup.sends[p]
           m == [l EXCEPT !.finishSend = TRUE, !.sentEcho = @ \union {d}]
           ss == [rs EXCEPT ![p] = m]
<1>1. rs \in [HonestMembers -> LocalStates] /\ l \in LocalStates /\ p \in Members /\ d \in Values
  BY DEF EchoInv, HonestMembers, SetupOK
<1>2. LocalOK(l, p) /\ VotesOK(l, rs) /\ ReadyBacked(l, rs)
  BY DEF EchoInv
<1>3. HandleSend(l, p, d) = HandleEcho(m, p, p, d)
  BY DEF HandleSend
<1>4. l.sentEcho = {}
  BY <1>2 DEF LocalOK
<1>5. /\ m \in LocalStates /\ m.echo = l.echo /\ m.ready = l.ready /\ m.sentEcho = {d}
      /\ m.sentReady = l.sentReady /\ m.output = l.output
  BY <1>1, <1>4 DEF LocalStates
<1>6. m.finishSend = TRUE /\ m.finishAmplification = l.finishAmplification /\ m.alarmed = l.alarmed
  BY <1>1 DEF LocalStates
<1> HIDE DEF m
<1>7. LocalOK(m, p)
  <2>1. (\A x, y \in m.sentEcho : x = y) /\ m.finishSend
    BY <1>5, <1>6
  <2>2. m.output # NoValue => m.output \in m.sentReady
    BY <1>2, <1>5 DEF LocalOK
  <2>3. m.finishAmplification => m.sentReady # {}
    BY <1>2, <1>5, <1>6 DEF LocalOK
  <2>4. setup.owner \in HonestMembers => ~m.alarmed /\ m.sentEcho \subseteq {setup.sends[p]}
    BY <1>2, <1>5, <1>6 DEF LocalOK
  <2> QED BY <2>1, <2>2, <2>3, <2>4, <1>5 DEF LocalOK
<1>8. ss[p] = m /\ (\A q \in HonestMembers : q # p => ss[q] = rs[q])
      /\ \A x : [ss EXCEPT ![p] = x] = [rs EXCEPT ![p] = x]
  BY <1>1, Replaced
<1>9. \A q \in HonestMembers : rs[q].sentReady \subseteq ss[q].sentReady /\ rs[q].sentEcho \subseteq ss[q].sentEcho
  BY <1>4, <1>5, <1>8
<1>10. VotesOK(m, ss)
  BY <1>2, <1>5, <1>9 DEF VotesOK
<1>11. ReadyBacked(m, ss)
  <2> SUFFICES ASSUME NEW e \in m.sentReady PROVE Backed(ss, e)
    BY DEF ReadyBacked
  <2>1. Backed(rs, e) BY <1>2, <1>5 DEF ReadyBacked
  <2>2. Support(rs, e) \subseteq Support(ss, e) /\ Support(ss, e) \subseteq Members
    BY <1>9 DEF Support
  <2>3. /\ Cardinality(Support(rs, e)) <= Cardinality(Support(ss, e))
        /\ Cardinality(Support(rs, e)) \in Nat /\ Cardinality(Support(ss, e)) \in Nat
    BY <2>2, Fewer
  <2>4. EchoThreshold(Cardinality(Members)) \in Nat BY ThresholdArithmetic DEF SetupOK
  <2> QED BY <2>1, <2>3, <2>4 DEF Backed, EchoQuorum
<1>12. EchoInv(ss)
  BY <1>4, <1>5, <1>7, <1>10, <1>11, Replace
<1>13. d \in ss[p].sentEcho
  BY <1>5, <1>8
<1> HIDE DEF ss
<1>14. EchoInv([ss EXCEPT ![p] = HandleEcho(ss[p], p, p, d)])
  BY <1>1, <1>12, <1>13, HandleEchoInv
<1> QED BY <1>3, <1>8, <1>14

(***************************************************************************)
(* The invariant of the specification.                                     *)
(***************************************************************************)
BroadcastInv == setup \in Setups /\ stopped \subseteq HonestMembers /\ EchoInv(receivers)

\* The states in which the protocol starts.
LEMMA BroadcastInit == EchoInit => BroadcastInv
<1> SUFFICES ASSUME EchoInit PROVE BroadcastInv
  OBVIOUS
<1>1. setup \in Setups /\ SetupOK
  BY SetupsOK DEF EchoInit
<1> DEFINE rs == [p \in HonestMembers |-> NewState]
<1>2. /\ NewState \in LocalStates /\ NewState.sentEcho = {} /\ NewState.sentReady = {}
      /\ NewState.output = NoValue /\ NewState.echo = NoVotes /\ NewState.ready = NoVotes
  BY DEF NewState, LocalStates, NoVotes
<1>3. ~NewState.finishAmplification /\ ~NewState.alarmed /\ ~NewState.finishSend
  BY DEF NewState
<1>4. \A q \in HonestMembers : NoVotes[q] = NoValue
  BY DEF NoVotes, HonestMembers
<1>5. EchoInv(rs)
  <2>1. rs \in [HonestMembers -> LocalStates] BY <1>2
  <2>2. ASSUME NEW p \in HonestMembers
        PROVE  LocalOK(rs[p], p) /\ VotesOK(rs[p], rs) /\ ReadyBacked(rs[p], rs)
    <3>1. rs[p] = NewState OBVIOUS
    <3>2. LocalOK(NewState, p) BY <1>2, <1>3 DEF LocalOK
    <3> HIDE DEF rs
    <3>3. VotesOK(NewState, rs) BY <1>2, <1>4 DEF VotesOK
    <3>4. ReadyBacked(NewState, rs) BY <1>2 DEF ReadyBacked
    <3> QED BY <3>1, <3>2, <3>3, <3>4
  <2> HIDE DEF rs
  <2> QED BY <2>1, <2>2 DEF EchoInv
<1>6. CASE setup.owner \in HonestMembers
  <2> DEFINE o == setup.owner
  <2>1. rs[o] = NewState BY <1>6
  <2>2. receivers = [rs EXCEPT ![o] = HandleSend(rs[o], o, setup.sends[o])]
    BY <1>6 DEF EchoInit
  <2> HIDE DEF rs
  <2>3. EchoInv([rs EXCEPT ![o] = HandleSend(rs[o], o, setup.sends[o])])
    BY <1>1, <1>3, <1>5, <1>6, <2>1, HandleSendInv
  <2> QED BY <1>1, <2>2, <2>3 DEF BroadcastInv, EchoInit
<1>7. CASE setup.owner \notin HonestMembers
  <2>1. receivers = rs BY <1>7 DEF EchoInit
  <2> QED BY <1>1, <1>5, <2>1 DEF BroadcastInv, EchoInit
<1> QED BY <1>6, <1>7

\* Every message that is handled keeps the invariant.
LEMMA BroadcastNext ==
  BroadcastInv /\ [EchoNext]_echoVars =>
    setup' = setup /\ EchoInv(receivers') /\ stopped' \subseteq HonestMembers
<1> SUFFICES ASSUME BroadcastInv, [EchoNext]_echoVars PROVE  setup' = setup /\ EchoInv(receivers') /\ stopped' \subseteq HonestMembers
  OBVIOUS
<1>1. SetupOK /\ EchoInv(receivers) /\ stopped \subseteq HonestMembers
  BY SetupsOK DEF BroadcastInv
<1>2. CASE UNCHANGED echoVars
  BY <1>1, <1>2 DEF echoVars
<1>3. ASSUME NEW p \in HonestMembers, NEW q \in Members, NEW d \in Values, ReceiveSend(p, q, d)
      PROVE  setup' = setup /\ EchoInv(receivers') /\ stopped' \subseteq HonestMembers
  <2>1. /\ d = setup.sends[p] /\ ~receivers[p].finishSend /\ setup' = setup /\ stopped' = stopped
        /\ receivers' = [receivers EXCEPT ![p] = HandleSend(receivers[p], p, d)]
    BY <1>3 DEF ReceiveSend, SentSend, Handle
  <2>2. EchoInv([receivers EXCEPT ![p] = HandleSend(receivers[p], p, setup.sends[p])])
    BY <1>1, <2>1, HandleSendInv
  <2> QED BY <1>1, <2>1, <2>2
<1>4. ASSUME NEW p \in HonestMembers, NEW q \in Members, NEW d \in Values, ReceiveEcho(p, q, d)
      PROVE  setup' = setup /\ EchoInv(receivers') /\ stopped' \subseteq HonestMembers
  <2>1. /\ q \in HonestMembers => d \in receivers[q].sentEcho
        /\ setup' = setup /\ stopped' = stopped /\ receivers' = [receivers EXCEPT ![p] = HandleEcho(receivers[p], p, q, d)]
    BY <1>4 DEF ReceiveEcho, SentEcho, Handle
  <2>2. EchoInv([receivers EXCEPT ![p] = HandleEcho(receivers[p], p, q, d)])
    BY <1>1, <2>1, HandleEchoInv
  <2> QED BY <1>1, <2>1, <2>2
<1>5. ASSUME NEW p \in HonestMembers, NEW q \in Members, NEW d \in Values, ReceiveReady(p, q, d)
      PROVE  setup' = setup /\ EchoInv(receivers') /\ stopped' \subseteq HonestMembers
  <2>1. /\ q \in HonestMembers => d \in receivers[q].sentReady
        /\ setup' = setup /\ stopped' = stopped /\ receivers' = [receivers EXCEPT ![p] = HandleReady(receivers[p], p, q, d)]
    BY <1>5 DEF ReceiveReady, SentReady, Handle
  <2>2. EchoInv([receivers EXCEPT ![p] = HandleReady(receivers[p], p, q, d)])
    BY <1>1, <2>1, HandleReadyInv
  <2> QED BY <1>1, <2>1, <2>2
<1>6. ASSUME NEW p \in HonestMembers, StopForOtherSession(p)
      PROVE  setup' = setup /\ EchoInv(receivers') /\ stopped' \subseteq HonestMembers
  BY <1>1, <1>6 DEF StopForOtherSession
<1> QED BY <1>2, <1>3, <1>4, <1>5, <1>6 DEF EchoNext, Receive

\* The invariant implies the property.
LEMMA InvSound == BroadcastInv => BroadcastSound
<1> SUFFICES ASSUME BroadcastInv PROVE BroadcastSound
  OBVIOUS
<1>1. setup \in Setups /\ stopped \subseteq HonestMembers /\ SetupOK /\ EchoInv(receivers)
  BY SetupsOK DEF BroadcastInv
<1>2. ASSUME NEW p \in HonestMembers
      PROVE  /\ receivers[p] \in LocalStates
             /\ Cardinality(receivers[p].sentEcho) <= 1
             /\ receivers[p].output # NoValue =>
                  receivers[p].output \in receivers[p].sentReady /\ Backed(receivers, receivers[p].output)
  <2>1. LocalOK(receivers[p], p) /\ ReadyBacked(receivers[p], receivers)
    BY <1>1 DEF EchoInv
  <2>2. \A x, y \in receivers[p].sentEcho : x = y
    BY <2>1 DEF LocalOK
  <2>3. CASE receivers[p].sentEcho = {}
    <3>1. Cardinality(receivers[p].sentEcho) = 0 BY <2>3, FS_EmptySet
    <3> QED BY <3>1, <2>1 DEF LocalOK, ReadyBacked
  <2>4. CASE receivers[p].sentEcho # {}
    <3>1. PICK x : x \in receivers[p].sentEcho BY <2>4
    <3>2. receivers[p].sentEcho = {x} BY <3>1, <2>2
    <3>3. Cardinality(receivers[p].sentEcho) = 1 BY <3>2, FS_Singleton
    <3> QED BY <3>3, <2>1 DEF LocalOK, ReadyBacked
  <2> QED BY <2>3, <2>4
<1>3. EchoTypeOK
  BY <1>1, <1>2 DEF EchoTypeOK
<1>4. Consistency
  BY <1>1, <1>2, BackedOnce DEF Consistency
<1>5. HonestOwnerTrusted
  <2> SUFFICES ASSUME setup.owner \in HonestMembers, NEW p \in HonestMembers
               PROVE  ~receivers[p].alarmed /\ receivers[p].output \in {NoValue, setup.sends[p]}
    BY DEF HonestOwnerTrusted
  <2>1. ~receivers[p].alarmed BY <1>1 DEF EchoInv, LocalOK
  <2>2. receivers[p].output # NoValue => receivers[p].output = setup.sends[p]
    BY <1>1, <1>2, BackedByOwner DEF HonestMembers
  <2> QED BY <2>1, <2>2
<1> QED BY <1>3, <1>4, <1>5 DEF BroadcastSound

\* Every step keeps the invariant.
LEMMA BroadcastStep == BroadcastInv /\ [EchoNext]_echoVars => BroadcastInv'
<1> SUFFICES ASSUME BroadcastInv, [EchoNext]_echoVars PROVE BroadcastInv'
  OBVIOUS
<1>1. setup' = setup /\ EchoInv(receivers') /\ stopped' \subseteq HonestMembers
  BY BroadcastNext
<1>2. Members' = Members /\ HonestMembers' = HonestMembers
  BY <1>1 DEF Members, HonestMembers
<1>3. LocalStates' = LocalStates
  BY <1>2 DEF LocalStates
<1>4. \A d : Support(receivers, d)' = Support(receivers', d)
  BY <1>2 DEF Support
<1>5. \A d : Backed(receivers', d) => Backed(receivers, d)'
  BY <1>2, <1>4 DEF Backed, EchoQuorum
<1>6. ASSUME NEW p \in HonestMembers
      PROVE  (LocalOK(receivers[p], p) /\ VotesOK(receivers[p], receivers) /\ ReadyBacked(receivers[p], receivers))'
  <2>1. LocalOK(receivers'[p], p) /\ VotesOK(receivers'[p], receivers') /\ ReadyBacked(receivers'[p], receivers')
    BY <1>1 DEF EchoInv
  <2>2. LocalOK(receivers[p], p)' BY <2>1, <1>1, <1>2, <1>3 DEF LocalOK
  <2>3. VotesOK(receivers[p], receivers)' BY <2>1, <1>2 DEF VotesOK
  <2>4. ReadyBacked(receivers[p], receivers)' BY <2>1, <1>5 DEF ReadyBacked
  <2> QED BY <2>2, <2>3, <2>4
<1>7. receivers' \in [HonestMembers -> LocalStates]
  BY <1>1 DEF EchoInv
<1>8. EchoInv(receivers)'
  BY <1>2, <1>3, <1>6, <1>7 DEF EchoInv
<1>9. (setup \in Setups /\ stopped \subseteq HonestMembers)'
  BY <1>1, <1>2 DEF BroadcastInv
<1> QED BY <1>8, <1>9 DEF BroadcastInv

\* No two honest participants take different values from a session, and an
\* honest owner is neither blamed nor misquoted.
THEOREM BroadcastSoundAlways == EchoSpec => []BroadcastSound
<1> QED BY BroadcastStep, BroadcastInit, InvSound, PTL DEF EchoSpec

(***************************************************************************)
(* The broadcast arrives.  What counts as a quorum is acted upon at once,  *)
(* and whoever has sent something has counted it as a vote of its own.     *)
(***************************************************************************)
ReadyQuiet(l) ==
  \A d \in Values : /\ ~ReadyQuorum(Votes(l.ready, d))
                    /\ Amplifies(Votes(l.ready, d)) => l.finishAmplification

EchoQuiet(l, p) ==
  ~l.finishEcho => /\ l.sentEcho # {} => l.echo[p] # NoValue
                   /\ \A d \in Values : ~EchoQuorum(Votes(l.echo, d))

Prompt(l, p) ==
  /\ l.output = NoValue => /\ ~l.finishReady
                           /\ l.finishSend => l.sentEcho # {}
                           /\ l.finishEcho => l.sentReady # {}
                           /\ l.sentReady # {} => l.ready[p] # NoValue
                           /\ ReadyQuiet(l)
  /\ EchoQuiet(l, p)

\* Those of whom an honest participant may have the ready vote d.
ReadySupport(rs, d) == {q \in Members : q \in HonestMembers => d \in rs[q].sentReady}

TakenBacked(l, rs) ==
  l.output # NoValue => ReadyQuorum(Cardinality(ReadySupport(rs, l.output)))

PromptAll(rs) == \A p \in HonestMembers : Prompt(rs[p], p) /\ TakenBacked(rs[p], rs)

OwnerSent(rs) == setup.owner \in HonestMembers => rs[setup.owner].finishSend

\* What handling a vote of `from` for d makes of the state l.
Handled(l, m, p, from, d) ==
  /\ Prompt(m, p)
  /\ l.finishSend => m.finishSend
  /\ l.sentReady \subseteq m.sentReady
  /\ m.output # NoValue =>
       /\ m.output = d
       /\ \E B \in SUBSET Members :
            ReadyQuorum(Cardinality(B)) /\ \A q \in B : l.ready[q] = d \/ q = from \/ q = p

\* More votes reach every threshold that fewer reach.
LEMMA MoreVotes ==
  ASSUME SetupOK, NEW a \in Nat, NEW b \in Nat, a <= b
  PROVE  /\ EchoQuorum(a) => EchoQuorum(b)
         /\ Amplifies(a) => Amplifies(b)
         /\ ReadyQuorum(a) => ReadyQuorum(b)
<1> DEFINE n == Cardinality(Members)
<1>1. BroadcastThreshold(n) \in Nat /\ EchoThreshold(n) \in Nat
  BY ThresholdArithmetic DEF SetupOK
<1> QED BY <1>1 DEF EchoQuorum, Amplifies, ReadyQuorum

\* A vote for d adds none to another value.
LEMMA OtherVotes ==
  ASSUME SetupOK, NEW box \in [Members -> Values \union {NoValue}], NEW from \in Members,
         NEW d \in Values, NEW e \in Values, e # d, NEW new, new = [box EXCEPT ![from] = d]
  PROVE  /\ EchoQuorum(Votes(new, e)) => EchoQuorum(Votes(box, e))
         /\ Amplifies(Votes(new, e)) => Amplifies(Votes(box, e))
         /\ ReadyQuorum(Votes(new, e)) => ReadyQuorum(Votes(box, e))
<1> DEFINE A == {q \in DOMAIN box : box[q] = e}
           B == {q \in DOMAIN new : new[q] = e}
<1>1. A \subseteq Members /\ B \subseteq A
  OBVIOUS
<1>2. Votes(box, e) = Cardinality(A) /\ Votes(new, e) = Cardinality(B)
  BY DEF Votes
<1> HIDE DEF A, B
<1>3. Cardinality(A) \in Nat /\ Cardinality(B) \in Nat /\ Cardinality(B) <= Cardinality(A)
  BY <1>1, Fewer
<1> QED BY <1>2, <1>3, MoreVotes

\* One pass for a ready vote that completes no quorum.
LEMMA OnReadyCounts ==
  ASSUME SetupOK, NEW l \in LocalStates, NEW p, NEW from \in Members, NEW d \in Values,
         l.ready[from] = NoValue, ~l.finishReady, l.output = NoValue, ReadyQuiet(l),
         NEW box, box = [l.ready EXCEPT ![from] = d], ~ReadyQuorum(Votes(box, d)),
         NEW m, m = OnReady(l, p, from, d)
  PROVE  /\ m \in LocalStates /\ m.ready = box /\ m.echo = l.echo /\ m.output = NoValue
         /\ m.sentEcho = l.sentEcho
         /\ ~m.finishReady /\ (m.alarmed <=> l.alarmed)
         /\ (m.finishSend <=> l.finishSend) /\ (m.finishEcho <=> l.finishEcho)
         /\ l.finishAmplification => m.finishAmplification
         /\ l.sentReady \subseteq m.sentReady
         /\ IF m.finishAmplification /\ ~l.finishAmplification
            THEN m.sentReady = l.sentReady \union {d} ELSE m.sentReady = l.sentReady
         /\ ReadyQuiet(m)
<1> DEFINE a == IF Amplifies(Votes(box, d)) /\ ~l.finishAmplification THEN Amplified(l, d) ELSE l
<1>1. m = [a EXCEPT !.ready = box]
  BY DEF OnReady
<1>2. box \in [Members -> Values \union {NoValue}] /\ l.ready \in [Members -> Values \union {NoValue}]
  BY DEF LocalStates
<1>3. CASE Amplifies(Votes(box, d)) /\ ~l.finishAmplification
  <2>1. PICK b : b = Amplified(l, d)
    OBVIOUS
  <2>2. /\ b \in LocalStates /\ b.echo = l.echo /\ b.output = NoValue
        /\ b.sentEcho = l.sentEcho /\ b.sentReady = l.sentReady \union {d}
    BY <2>1 DEF Amplified, LocalStates
  <2>3. /\ b.finishReady = l.finishReady /\ b.alarmed = l.alarmed /\ b.finishSend = l.finishSend
        /\ b.finishEcho = l.finishEcho /\ b.finishAmplification = TRUE
    BY <2>1 DEF Amplified, LocalStates
  <2>4. m = [b EXCEPT !.ready = box]
    BY <1>1, <1>3, <2>1
  <2>5. /\ m \in LocalStates /\ m.ready = box /\ m.echo = l.echo /\ m.output = NoValue
        /\ m.sentEcho = l.sentEcho /\ m.sentReady = l.sentReady \union {d}
    BY <1>2, <2>2, <2>4 DEF LocalStates
  <2>6. /\ m.finishReady = l.finishReady /\ m.alarmed = l.alarmed /\ m.finishSend = l.finishSend
        /\ m.finishEcho = l.finishEcho /\ m.finishAmplification = TRUE
    BY <2>2, <2>3, <2>4 DEF LocalStates
  <2>7. ReadyQuiet(m)
    <3>1. \A e \in Values : e # d => ~ReadyQuorum(Votes(box, e))
      BY <1>2, OtherVotes DEF ReadyQuiet
    <3> QED BY <2>5, <2>6, <3>1 DEF ReadyQuiet
  <2> QED BY <1>3, <2>5, <2>6, <2>7
<1>4. CASE ~(Amplifies(Votes(box, d)) /\ ~l.finishAmplification)
  <2>1. m = [l EXCEPT !.ready = box]
    BY <1>1, <1>4
  <2>2. /\ m \in LocalStates /\ m.ready = box /\ m.echo = l.echo /\ m.output = NoValue
        /\ m.sentEcho = l.sentEcho /\ m.sentReady = l.sentReady
    BY <1>2, <2>1 DEF LocalStates
  <2>3. /\ m.finishReady = l.finishReady /\ m.alarmed = l.alarmed /\ m.finishSend = l.finishSend
        /\ m.finishEcho = l.finishEcho /\ m.finishAmplification = l.finishAmplification
    BY <1>2, <2>1 DEF LocalStates
  <2>4. ReadyQuiet(m)
    <3>1. \A e \in Values : e # d => ~ReadyQuorum(Votes(box, e)) /\
            (Amplifies(Votes(box, e)) => l.finishAmplification)
      BY <1>2, OtherVotes DEF ReadyQuiet
    <3>2. Amplifies(Votes(box, d)) => l.finishAmplification
      BY <1>4
    <3> QED BY <2>2, <2>3, <3>1, <3>2 DEF ReadyQuiet
  <2> QED BY <2>2, <2>3, <2>4
<1> QED BY <1>3, <1>4

\* One pass for a ready vote that completes a quorum.
LEMMA OnReadyTakes ==
  ASSUME NEW l \in LocalStates, NEW p, NEW from \in Members, NEW d \in Values,
         l.ready[from] = NoValue, ~l.finishReady,
         NEW box, box = [l.ready EXCEPT ![from] = d], ReadyQuorum(Votes(box, d)),
         NEW m, m = OnReady(l, p, from, d)
  PROVE  m.output = d /\ m.finishEcho /\ m.finishSend /\ l.sentReady \subseteq m.sentReady
<1> DEFINE a == IF Amplifies(Votes(box, d)) /\ ~l.finishAmplification THEN Amplified(l, d) ELSE l
<1>1. m = [a EXCEPT !.finishSend = TRUE, !.finishEcho = TRUE, !.finishReady = TRUE,
                    !.echo = NoVotes, !.ready = NoVotes, !.output = d,
                    !.alarmed = p = setup.owner /\ d # setup.sends[p]]
  BY DEF OnReady
<1>2. a \in LocalStates /\ l.sentReady \subseteq a.sentReady
  BY DEF Amplified, LocalStates
<1> HIDE DEF a
<1> QED BY <1>1, <1>2 DEF LocalStates

\* The arm for Ready, with the vote it may simulate as its own.
LEMMA HandleReadyPrompt ==
  ASSUME SetupOK, NEW l \in LocalStates, NEW p \in Members, NEW from \in Members, NEW d \in Values,
         l.ready[from] = NoValue \/ from = p, l.output = NoValue, ~l.alarmed, ~l.finishReady,
         ReadyQuiet(l), EchoQuiet(l, p),
         l.finishSend => l.sentEcho # {}, l.finishEcho => l.sentReady # {},
         l.sentReady # {} => l.ready[p] # NoValue \/ from = p,
         NEW m, m = HandleReady(l, p, from, d)
  PROVE  Handled(l, m, p, from, d)
<1>1. d # NoValue
  BY ValueAssumption
<1>2. PICK once : once = OnReady(l, p, from, d)
  OBVIOUS
<1>3. m = IF once.finishAmplification /\ ~l.finishAmplification /\ Running(once)
          THEN OnReady(once, p, p, d) ELSE once
  BY <1>2 DEF HandleReady
<1>4. CASE l.ready[from] # NoValue
  <2>1. once = l /\ m = l
    BY <1>2, <1>3, <1>4 DEF OnReady
  <2> QED BY <1>4, <2>1 DEF Prompt, Handled
<1>5. CASE l.ready[from] = NoValue
  <2>1. PICK box : box = [l.ready EXCEPT ![from] = d]
    OBVIOUS
  <2>2. /\ box \in [Members -> Values \union {NoValue}]
        /\ box[from] = d /\ \A q \in Members : q # from => box[q] = l.ready[q]
    BY <2>1 DEF LocalStates
  <2> DEFINE A == {q \in DOMAIN box : box[q] = d}
  <2>3. /\ A \in SUBSET Members /\ Votes(box, d) = Cardinality(A)
        /\ \A q \in A : l.ready[q] = d \/ q = from
    BY <2>2 DEF Votes
  <2> HIDE DEF A
  <2>4. CASE ReadyQuorum(Votes(box, d))
    <3>1. /\ once.output = d /\ once.finishEcho /\ once.finishSend
          /\ l.sentReady \subseteq once.sentReady
      BY <1>2, <1>5, <2>1, <2>4, OnReadyTakes
    <3>2. m = once
      BY <1>1, <1>3, <3>1 DEF Running
    <3>3. Prompt(m, p)
      BY <1>1, <3>1, <3>2 DEF Prompt, EchoQuiet
    <3> QED BY <2>3, <2>4, <3>1, <3>2, <3>3 DEF Handled
  <2>5. CASE ~ReadyQuorum(Votes(box, d))
    <3>1. /\ once \in LocalStates /\ once.ready = box /\ once.echo = l.echo /\ once.output = NoValue
          /\ once.sentEcho = l.sentEcho
          /\ ~once.finishReady /\ (once.alarmed <=> l.alarmed)
          /\ (once.finishSend <=> l.finishSend) /\ (once.finishEcho <=> l.finishEcho)
          /\ l.finishAmplification => once.finishAmplification
          /\ l.sentReady \subseteq once.sentReady
          /\ IF once.finishAmplification /\ ~l.finishAmplification
             THEN once.sentReady = l.sentReady \union {d} ELSE once.sentReady = l.sentReady
          /\ ReadyQuiet(once)
      BY <1>2, <1>5, <2>1, <2>5, OnReadyCounts
    <3>2. Running(once)
      BY <3>1 DEF Running
    <3>3. EchoQuiet(once, p)
      BY <3>1 DEF EchoQuiet
    <3>4. CASE once.ready[p] # NoValue
      <4>1. OnReady(once, p, p, d) = once
        BY <3>4 DEF OnReady
      <4>2. m = once
        BY <1>3, <4>1
      <4>3. once.finishEcho => once.sentReady # {}
        BY <3>1
      <4> QED BY <3>1, <3>3, <3>4, <4>2, <4>3 DEF Prompt, Handled
    <3>5. CASE once.ready[p] = NoValue /\ ~(once.finishAmplification /\ ~l.finishAmplification)
      <4>1. m = once /\ once.sentReady = l.sentReady
        BY <1>3, <3>1, <3>5
      <4>2. p # from /\ l.ready[p] = NoValue
        BY <1>1, <2>2, <3>1, <3>5
      <4>3. l.sentReady = {}
        BY <4>2
      <4> QED BY <3>1, <3>3, <4>1, <4>3 DEF Prompt, Handled
    <3>6. CASE once.ready[p] = NoValue /\ once.finishAmplification /\ ~l.finishAmplification
      <4>0. /\ once \in LocalStates /\ once.ready[p] = NoValue /\ ~once.finishReady
            /\ once.output = NoValue /\ ReadyQuiet(once)
            /\ SetupOK /\ p \in Members /\ d \in Values
        BY <3>1, <3>6
      <4>1. m = OnReady(once, p, p, d) /\ d \in once.sentReady
        BY <1>3, <3>1, <3>2, <3>6
      <4>2. PICK box2 : box2 = [once.ready EXCEPT ![p] = d]
        OBVIOUS
      <4>3. /\ box2 \in [Members -> Values \union {NoValue}]
            /\ box2[p] = d /\ \A q \in Members : q # p => box2[q] = box[q]
        BY <2>2, <3>1, <4>2
      <4> DEFINE B == {q \in DOMAIN box2 : box2[q] = d}
      <4>4. /\ B \in SUBSET Members /\ Votes(box2, d) = Cardinality(B)
            /\ \A q \in B : l.ready[q] = d \/ q = from \/ q = p
        BY <2>2, <4>3 DEF Votes
      <4> HIDE DEF B
      <4>5. CASE ReadyQuorum(Votes(box2, d))
        <5>1. m.output = d /\ m.finishEcho /\ m.finishSend /\ once.sentReady \subseteq m.sentReady
          BY ONLY <4>0, <4>1, <4>2, <4>5, OnReadyTakes
        <5>2. Prompt(m, p)
          BY <1>1, <5>1 DEF Prompt, EchoQuiet
        <5> QED BY <3>1, <4>4, <4>5, <5>1, <5>2 DEF Handled
      <4>6. CASE ~ReadyQuorum(Votes(box2, d))
        <5>1. /\ m \in LocalStates /\ m.ready = box2 /\ m.echo = once.echo /\ m.output = NoValue
              /\ m.sentEcho = once.sentEcho /\ ~m.finishReady
              /\ (m.finishSend <=> once.finishSend) /\ (m.finishEcho <=> once.finishEcho)
              /\ once.sentReady \subseteq m.sentReady
              /\ ReadyQuiet(m)
          BY ONLY <4>0, <4>1, <4>2, <4>6, OnReadyCounts
        <5>2. EchoQuiet(m, p)
          BY <3>3, <5>1 DEF EchoQuiet
        <5>3. m.finishSend => m.sentEcho # {}
          BY <3>1, <5>1
        <5>4. m.sentReady # {} /\ m.ready[p] # NoValue
          BY <1>1, <4>1, <4>3, <5>1
        <5> QED BY <3>1, <5>1, <5>2, <5>3, <5>4 DEF Prompt, Handled
      <4> QED BY <4>5, <4>6
    <3> QED BY <3>4, <3>5, <3>6
  <2> QED BY <2>4, <2>5
<1> QED BY <1>4, <1>5

\* The arm for Echo.
LEMMA HandleEchoPrompt ==
  ASSUME SetupOK, NEW l \in LocalStates, NEW p \in Members, NEW from \in Members, NEW d \in Values,
         l.output = NoValue, ~l.alarmed, ~l.finishReady, ReadyQuiet(l), ~l.finishEcho,
         \A e \in Values : ~EchoQuorum(Votes(l.echo, e)),
         l.sentEcho # {} => l.echo[p] # NoValue \/ from = p,
         l.finishSend => l.sentEcho # {}, l.sentReady # {} => l.ready[p] # NoValue,
         NEW m, m = HandleEcho(l, p, from, d)
  PROVE  Handled(l, m, p, p, d)
<1>1. d # NoValue
  BY ValueAssumption
<1>2. PICK box : box = [l.echo EXCEPT ![from] = d]
  OBVIOUS
<1>3. /\ box \in [Members -> Values \union {NoValue}] /\ box[from] = d
      /\ \A q \in Members : q # from => box[q] = l.echo[q]
      /\ l.echo \in [Members -> Values \union {NoValue}]
  BY <1>2 DEF LocalStates
<1>4. CASE EchoQuorum(Votes(box, d))
  <2>1. PICK k : k = [l EXCEPT !.echo = NoVotes, !.finishEcho = TRUE, !.sentReady = @ \union {d}]
    OBVIOUS
  <2>2. m = HandleReady(k, p, p, d)
    BY <1>2, <1>4, <2>1 DEF HandleEcho
  <2>3. /\ k \in LocalStates /\ k.ready = l.ready /\ k.sentEcho = l.sentEcho /\ k.output = NoValue
        /\ k.sentReady = l.sentReady \union {d}
    BY <2>1 DEF LocalStates, NoVotes
  <2>4. /\ k.finishEcho = TRUE /\ k.finishReady = l.finishReady /\ k.alarmed = l.alarmed
        /\ k.finishSend = l.finishSend /\ k.finishAmplification = l.finishAmplification
    BY <2>1 DEF LocalStates
  <2>5. ReadyQuiet(k) /\ EchoQuiet(k, p)
    BY <2>3, <2>4 DEF ReadyQuiet, EchoQuiet
  <2>6. /\ ~k.alarmed /\ ~k.finishReady /\ (k.finishSend => k.sentEcho # {})
        /\ k.finishEcho => k.sentReady # {}
    BY <2>3, <2>4
  <2>7. Handled(k, m, p, p, d)
    BY <2>2, <2>3, <2>5, <2>6, HandleReadyPrompt
  <2> QED BY <2>3, <2>4, <2>7 DEF Handled
<1>5. CASE ~EchoQuorum(Votes(box, d))
  <2>1. PICK alarm \in BOOLEAN : alarm = (~l.finishAmplification /\ ~QuorumPossible(box))
    OBVIOUS
  <2>2. m = [l EXCEPT !.echo = box, !.alarmed = alarm]
    BY <1>2, <1>5, <2>1 DEF HandleEcho
  <2>3. /\ m \in LocalStates /\ m.echo = box /\ m.ready = l.ready /\ m.sentEcho = l.sentEcho
        /\ m.output = NoValue /\ m.sentReady = l.sentReady
    BY <1>3, <2>2 DEF LocalStates
  <2>4. /\ m.finishEcho = l.finishEcho /\ m.finishReady = l.finishReady
        /\ m.finishSend = l.finishSend /\ m.finishAmplification = l.finishAmplification
    BY <2>2 DEF LocalStates
  <2>5. \A e \in Values : ~EchoQuorum(Votes(box, e))
    BY <1>2, <1>3, <1>5, OtherVotes
  <2>6. m.sentEcho # {} => m.echo[p] # NoValue
    BY <1>1, <1>3, <2>3
  <2>7. ReadyQuiet(m) /\ EchoQuiet(m, p)
    BY <2>3, <2>4, <2>5, <2>6 DEF ReadyQuiet, EchoQuiet
  <2> QED BY <2>3, <2>4, <2>7 DEF Prompt, Handled
<1> QED BY <1>4, <1>5

\* The arm for Send.
LEMMA HandleSendPrompt ==
  ASSUME SetupOK, NEW l \in LocalStates, NEW p \in Members, NEW d \in Values,
         l.output = NoValue, ~l.alarmed, ~l.finishSend, l.sentEcho = {}, Prompt(l, p),
         NEW m, m = HandleSend(l, p, d)
  PROVE  Handled(l, m, p, p, d) /\ m.finishSend
<1>1. PICK k : k = [l EXCEPT !.finishSend = TRUE, !.sentEcho = @ \union {d}]
  OBVIOUS
<1>2. m = HandleEcho(k, p, p, d)
  BY <1>1 DEF HandleSend
<1>3. /\ k \in LocalStates /\ k.ready = l.ready /\ k.echo = l.echo /\ k.sentEcho = {d}
      /\ k.output = NoValue /\ k.sentReady = l.sentReady
  BY <1>1 DEF LocalStates
<1>4. /\ k.finishEcho = l.finishEcho /\ k.finishReady = l.finishReady /\ k.alarmed = l.alarmed
      /\ k.finishSend = TRUE /\ k.finishAmplification = l.finishAmplification
  BY <1>1 DEF LocalStates
<1>5. /\ ~k.alarmed /\ ~k.finishReady /\ ReadyQuiet(k) /\ (k.sentReady # {} => k.ready[p] # NoValue)
      /\ k.finishSend => k.sentEcho # {}
      /\ k.finishEcho => k.sentReady # {}
  BY <1>3, <1>4 DEF Prompt, ReadyQuiet
<1>6. CASE ~k.finishEcho
  <2>1. \A e \in Values : ~EchoQuorum(Votes(k.echo, e))
    BY <1>3, <1>4, <1>6 DEF Prompt, EchoQuiet
  <2>2. Handled(k, m, p, p, d)
    BY <1>2, <1>3, <1>5, <1>6, <2>1, HandleEchoPrompt
  <2> QED BY <1>3, <1>4, <2>2 DEF Handled
<1>7. CASE k.finishEcho
  <2>1. m = k
    BY <1>2, <1>7 DEF HandleEcho
  <2>2. EchoQuiet(k, p)
    BY <1>7 DEF EchoQuiet
  <2> QED BY <1>3, <1>4, <1>5, <2>1, <2>2 DEF Handled, Prompt
<1> QED BY <1>6, <1>7

\* The state of a participant is replaced by what it is after a message.
LEMMA PromptReplace ==
  ASSUME SetupOK, NEW rs, EchoInv(rs), PromptAll(rs), NEW p \in HonestMembers,
         NEW from \in Members, NEW d \in Values, NEW m, Handled(rs[p], m, p, from, d),
         from \in HonestMembers => from = p \/ d \in rs[from].sentReady,
         NEW ss, ss = [rs EXCEPT ![p] = m], EchoInv(ss)
  PROVE  PromptAll(ss) /\ (OwnerSent(rs) => OwnerSent(ss))
<1>1. /\ rs \in [HonestMembers -> LocalStates] /\ p \in Members /\ d # NoValue
      /\ ss[p] = m /\ \A q \in HonestMembers : q # p => ss[q] = rs[q]
  BY ValueAssumption DEF EchoInv, HonestMembers
<1>2. \A q \in HonestMembers : rs[q].sentReady \subseteq ss[q].sentReady
  BY <1>1 DEF Handled
<1>3. ASSUME NEW q \in HonestMembers, TakenBacked(rs[q], rs)
      PROVE  TakenBacked(rs[q], ss)
  <2> DEFINE e == rs[q].output
             A == ReadySupport(ss, e)
             B == ReadySupport(rs, e)
  <2>1. A \in SUBSET Members /\ B \in SUBSET A
    BY <1>2 DEF ReadySupport
  <2> HIDE DEF A, B
  <2>2. Cardinality(A) \in Nat /\ Cardinality(B) \in Nat /\ Cardinality(B) <= Cardinality(A)
    BY <2>1, Fewer
  <2>3. ReadyQuorum(Cardinality(B)) => ReadyQuorum(Cardinality(A))
    BY <2>2, MoreVotes
  <2> QED BY <1>3, <2>3 DEF TakenBacked, A, B
<1>4. TakenBacked(m, ss)
  <2> SUFFICES ASSUME m.output # NoValue
               PROVE  ReadyQuorum(Cardinality(ReadySupport(ss, m.output)))
    BY DEF TakenBacked
  <2>1. m.output = d
    BY DEF Handled
  <2>2. PICK B \in SUBSET Members :
          ReadyQuorum(Cardinality(B)) /\ \A q \in B : rs[p].ready[q] = d \/ q = from \/ q = p
    BY DEF Handled
  <2>3. d \in m.sentReady
    BY <1>1, <2>1 DEF EchoInv, LocalOK
  <2>4. ASSUME NEW q \in B, q \in HonestMembers
        PROVE  d \in ss[q].sentReady
    <3>1. rs[p].ready[q] = d => d \in rs[q].sentReady
      BY <1>1, <2>4 DEF EchoInv, VotesOK
    <3> QED BY <1>1, <1>2, <2>2, <2>3, <2>4, <3>1
  <2> DEFINE A == ReadySupport(ss, d)
  <2>5. A \in SUBSET Members /\ B \in SUBSET A
    BY <2>4 DEF ReadySupport
  <2> HIDE DEF A
  <2>6. Cardinality(A) \in Nat /\ Cardinality(B) \in Nat /\ Cardinality(B) <= Cardinality(A)
    BY <2>5, Fewer
  <2>7. ReadyQuorum(Cardinality(A))
    BY <2>2, <2>6, MoreVotes
  <2> QED BY <2>1, <2>7 DEF A
<1>5. PromptAll(ss)
  <2>1. Prompt(m, p)
    BY DEF Handled
  <2> QED BY <1>1, <1>3, <1>4, <2>1 DEF PromptAll
<1>6. OwnerSent(rs) => OwnerSent(ss)
  BY <1>1 DEF OwnerSent, Handled
<1> QED BY <1>5, <1>6

\* The states in which the protocol starts.
LEMMA PromptInit == EchoInit => PromptAll(receivers) /\ OwnerSent(receivers)
<1> SUFFICES ASSUME EchoInit PROVE PromptAll(receivers) /\ OwnerSent(receivers)
  OBVIOUS
<1>1. SetupOK /\ EchoInv(receivers)
  BY BroadcastInit, SetupsOK DEF EchoInit, BroadcastInv
<1>2. PICK rs : rs = [p \in HonestMembers |-> NewState]
  OBVIOUS
<1>3. /\ NewState \in LocalStates /\ NewState.sentEcho = {} /\ NewState.sentReady = {}
      /\ NewState.output = NoValue /\ NewState.echo = NoVotes /\ NewState.ready = NoVotes
  BY DEF NewState, LocalStates, NoVotes
<1>4. /\ ~NewState.finishAmplification /\ ~NewState.alarmed /\ ~NewState.finishSend
      /\ ~NewState.finishEcho /\ ~NewState.finishReady
  BY DEF NewState
<1>5. \A d \in Values : Votes(NoVotes, d) = 0
  <2> SUFFICES ASSUME NEW d \in Values PROVE Votes(NoVotes, d) = 0
    OBVIOUS
  <2>1. {q \in DOMAIN NoVotes : NoVotes[q] = d} = {}
    BY ValueAssumption DEF NoVotes
  <2> QED BY <2>1, FS_EmptySet DEF Votes
<1>6. ~EchoQuorum(0) /\ ~Amplifies(0) /\ ~ReadyQuorum(0)
  <2>1. BroadcastThreshold(Cardinality(Members)) \in Nat /\ EchoThreshold(Cardinality(Members)) \in Nat
    BY <1>1, ThresholdArithmetic DEF SetupOK
  <2> QED BY <2>1 DEF EchoQuorum, Amplifies, ReadyQuorum
<1>7. ReadyQuiet(NewState) /\ \A p : EchoQuiet(NewState, p)
  BY <1>3, <1>5, <1>6 DEF ReadyQuiet, EchoQuiet
<1>8. \A p : Prompt(NewState, p)
  BY <1>3, <1>4, <1>7 DEF Prompt
<1>9. PromptAll(rs)
  BY <1>2, <1>3, <1>8 DEF PromptAll, TakenBacked
<1>10. CASE setup.owner \in HonestMembers
  <2> DEFINE o == setup.owner
             d == setup.sends[o]
             m == HandleSend(NewState, o, d)
  <2>1. receivers = [rs EXCEPT ![o] = m] /\ rs[o] = NewState /\ receivers[o] = m
    BY <1>2, <1>10 DEF EchoInit
  <2>2. o \in Members /\ d \in Values
    BY <1>1 DEF SetupOK
  <2> HIDE DEF d, m
  <2>3. Handled(NewState, m, o, o, d) /\ m.finishSend
    BY <1>1, <1>3, <1>4, <1>8, <2>2, HandleSendPrompt DEF m
  <2>4. EchoInv(rs)
    <3>1. rs \in [HonestMembers -> LocalStates] /\ \A p \in HonestMembers : rs[p] = NewState
      BY <1>2, <1>3
    <3>2. \A p \in HonestMembers : LocalOK(NewState, p)
      BY <1>3, <1>4 DEF LocalOK
    <3>3. VotesOK(NewState, rs) /\ ReadyBacked(NewState, rs)
      BY <1>3 DEF VotesOK, ReadyBacked, NoVotes, HonestMembers
    <3> QED BY <3>1, <3>2, <3>3 DEF EchoInv
  <2>5. PromptAll(receivers)
    BY <1>1, <1>9, <1>10, <2>1, <2>2, <2>3, <2>4, PromptReplace
  <2> QED BY <2>1, <2>3, <2>5 DEF OwnerSent
<1>11. CASE setup.owner \notin HonestMembers
  <2>1. receivers = rs
    BY <1>2, <1>11 DEF EchoInit
  <2> QED BY <1>9, <1>11, <2>1 DEF OwnerSent
<1> QED BY <1>10, <1>11

\* Every message that is handled keeps the invariant.
LEMMA PromptNext ==
  ASSUME BroadcastInv, PromptAll(receivers), OwnerSent(receivers), [EchoNext]_echoVars
  PROVE  PromptAll(receivers') /\ OwnerSent(receivers')
<1>1. SetupOK /\ EchoInv(receivers) /\ EchoInv(receivers')
  BY SetupsOK, BroadcastNext DEF BroadcastInv
<1>2. CASE UNCHANGED echoVars
  BY <1>2 DEF echoVars
<1>3. ASSUME NEW p \in HonestMembers, NEW q \in Members \ {p}, Receive(p, q)
      PROVE  PromptAll(receivers') /\ OwnerSent(receivers')
  <2>1. PICK l : l = receivers[p]
    OBVIOUS
  <2>2. /\ l \in LocalStates /\ LocalOK(l, p) /\ Prompt(l, p) /\ p \in Members
    BY <1>1, <2>1 DEF EchoInv, PromptAll, HonestMembers
  <2>3. l.output = NoValue /\ ~l.alarmed
    BY <1>3, <2>1 DEF Receive, Running
  <2>4. PICK d \in Values : ReceiveSend(p, q, d) \/ ReceiveEcho(p, q, d) \/ ReceiveReady(p, q, d)
    BY <1>3 DEF Receive
  <2>5. /\ ~l.finishReady /\ ReadyQuiet(l) /\ (l.finishSend => l.sentEcho # {})
        /\ l.finishEcho => l.sentReady # {}
        /\ l.sentReady # {} => l.ready[p] # NoValue
        /\ EchoQuiet(l, p)
    BY <2>2, <2>3 DEF Prompt
  <2>6. CASE ReceiveSend(p, q, d)
    <3>1. PICK m : m = HandleSend(l, p, d)
      OBVIOUS
    <3>2. ~l.finishSend /\ receivers' = [receivers EXCEPT ![p] = m]
      BY <2>1, <2>6, <3>1 DEF ReceiveSend, Handle
    <3>3. l.sentEcho = {}
      BY <2>2, <3>2 DEF LocalOK
    <3>4. Handled(l, m, p, p, d)
      BY <1>1, <2>2, <2>3, <3>1, <3>2, <3>3, HandleSendPrompt
    <3> QED BY <1>1, <2>1, <2>2, <3>2, <3>4, PromptReplace
  <2>7. CASE ReceiveEcho(p, q, d)
    <3>1. PICK m : m = HandleEcho(l, p, q, d)
      OBVIOUS
    <3>2. ~l.finishEcho /\ receivers' = [receivers EXCEPT ![p] = m]
      BY <2>1, <2>7, <3>1 DEF ReceiveEcho, Handle
    <3>3. /\ \A e \in Values : ~EchoQuorum(Votes(l.echo, e))
          /\ l.sentEcho # {} => l.echo[p] # NoValue
      BY <2>5, <3>2 DEF EchoQuiet
    <3>4. Handled(l, m, p, p, d)
      BY <1>1, <2>2, <2>3, <2>5, <3>1, <3>2, <3>3, HandleEchoPrompt
    <3> QED BY <1>1, <2>1, <2>2, <3>2, <3>4, PromptReplace
  <2>8. CASE ReceiveReady(p, q, d)
    <3>1. PICK m : m = HandleReady(l, p, q, d)
      OBVIOUS
    <3>2. l.ready[q] = NoValue /\ receivers' = [receivers EXCEPT ![p] = m]
      BY <2>1, <2>8, <3>1 DEF ReceiveReady, Handle
    <3>3. q \in HonestMembers => d \in receivers[q].sentReady
      BY <2>8 DEF ReceiveReady, SentReady
    <3>4. Handled(l, m, p, q, d)
      BY <1>1, <2>2, <2>3, <2>5, <3>1, <3>2, HandleReadyPrompt
    <3> QED BY <1>1, <2>1, <3>2, <3>3, <3>4, PromptReplace
  <2> QED BY <2>4, <2>6, <2>7, <2>8
<1>4. ASSUME NEW p \in HonestMembers, StopForOtherSession(p)
      PROVE  PromptAll(receivers') /\ OwnerSent(receivers')
  BY <1>4 DEF StopForOtherSession
<1> QED BY <1>2, <1>3, <1>4 DEF EchoNext

FewLost == Cardinality(Lost) <= BroadcastThreshold(Cardinality(Members))

\* Those who do not do their part are among the participants.
LEMMA LostMembers == ASSUME BroadcastInv PROVE Lost \in SUBSET Members
  BY SetupsOK DEF BroadcastInv, SetupOK, Lost, HonestMembers

\* The participants that are not lost are a quorum of either kind.
LEMMA OthersSuffice ==
  ASSUME SetupOK, Lost \in SUBSET Members, FewLost, NEW B \in SUBSET Members, Members \ Lost \subseteq B
  PROVE  EchoQuorum(Cardinality(B)) /\ ReadyQuorum(Cardinality(B))
<1> DEFINE n == Cardinality(Members)
           t == BroadcastThreshold(n)
           f == Cardinality(Lost)
           h == Cardinality(Members \ Lost)
           b == Cardinality(B)
<1>1. n \in Nat /\ n > 0 /\ f \in Nat /\ f <= t
  BY Fewer DEF SetupOK, FewLost
<1>2. h = n - f
  <2>1. Members \intersect Lost = Lost
    OBVIOUS
  <2>2. Cardinality(Members \ Lost) = Cardinality(Members) - Cardinality(Members \intersect Lost)
    BY FS_Difference DEF SetupOK
  <2> QED BY <2>1, <2>2
<1>3. b \in Nat /\ h \in Nat /\ h <= b
  BY Fewer
<1>4. t \in Nat /\ EchoThreshold(n) \in Nat /\ EchoThreshold(n) < n - t
  BY <1>1, ThresholdArithmetic
<1>5. 3 * t < n
  <2>1. CASE n <= 3
    BY <1>1, <2>1, ThresholdArithmetic
  <2>2. CASE n > 3
    BY <1>1, <2>2 DEF BroadcastThreshold
  <2> QED BY <1>1, <2>1, <2>2
<1>6. EchoQuorum(b) = (b > EchoThreshold(n)) /\ ReadyQuorum(b) = (b > 2 * t)
  BY DEF EchoQuorum, ReadyQuorum
<1> HIDE DEF n, t, f, h, b
<1>7. b > EchoThreshold(n) /\ b > 2 * t
  BY <1>1, <1>2, <1>3, <1>4, <1>5
<1> QED BY <1>6, <1>7 DEF b

\* The honest ones of a ready quorum are enough to amplify.
LEMMA HonestAmplify ==
  ASSUME SetupOK, NEW A \in SUBSET Members, ReadyQuorum(Cardinality(A)), NEW B \in SUBSET Members,
         A \intersect HonestMembers \subseteq B
  PROVE  Amplifies(Cardinality(B))
<1> DEFINE n == Cardinality(Members)
           t == BroadcastThreshold(n)
           f == Cardinality(setup.faulty)
           F == A \intersect setup.faulty
           H == A \ setup.faulty
<1>1. n \in Nat /\ n > 0 /\ f \in Nat /\ f <= t /\ t \in Nat
  BY ThresholdArithmetic DEF SetupOK
<1>2. IsFiniteSet(A) /\ Cardinality(A) \in Nat
  BY Fewer
<1>3. Cardinality(H) = Cardinality(A) - Cardinality(F)
  BY <1>2, FS_Difference
<1>4. H \in SUBSET B
  BY DEF HonestMembers
<1>5. Cardinality(H) \in Nat /\ Cardinality(B) \in Nat /\ Cardinality(H) <= Cardinality(B)
  BY <1>4, Fewer
<1>6. Cardinality(F) \in Nat /\ Cardinality(F) <= f
  <2>1. setup.faulty \in SUBSET Members /\ F \in SUBSET setup.faulty
    BY DEF SetupOK
  <2> QED BY <2>1, Fewer
<1>7. Cardinality(A) > 2 * t
  BY DEF ReadyQuorum
<1> HIDE DEF n, t, f, F, H
<1>8. Cardinality(B) > t
  BY <1>1, <1>2, <1>3, <1>5, <1>6, <1>7
<1> QED BY <1>8 DEF Amplifies, t, n

Heard == \A p \in Members \ Lost : \A q \in HonestMembers \ {p} : ~Outstanding(p, q)

\* Who is not lost is honest and has raised no alarm.
LEMMA NotLost ==
  ASSUME NEW p \in Members \ Lost PROVE p \in HonestMembers /\ ~receivers[p].alarmed
  BY DEF Lost, HonestMembers

\* Who still runs has the ready votes of all honest participants that sent one.
LEMMA ReadyHeard ==
  ASSUME BroadcastInv, PromptAll(receivers), Heard, NEW p \in Members \ Lost, Running(receivers[p]),
         NEW d, Backed(receivers, d), NEW q \in HonestMembers, receivers[q].sentReady # {}
  PROVE  receivers[p].ready[q] = d
<1>1. SetupOK /\ EchoInv(receivers) /\ p \in HonestMembers
  BY SetupsOK, NotLost DEF BroadcastInv
<1>2. receivers[q] \in LocalStates /\ receivers[p] \in LocalStates
  BY <1>1 DEF EchoInv
<1>3. receivers[p].ready[q] # NoValue
  <2>1. CASE q = p
    BY <1>1, <2>1 DEF PromptAll, Prompt, Running
  <2>2. CASE q # p
    <3>1. PICK e : e \in receivers[q].sentReady
      OBVIOUS
    <3>2. e \in Values
      BY <1>2, <3>1 DEF LocalStates
    <3> QED BY <2>2, <3>1, <3>2 DEF Heard, Outstanding, SentReady
  <2> QED BY <2>1, <2>2
<1>4. receivers[p].ready[q] \in receivers[q].sentReady
  BY <1>1, <1>3 DEF EchoInv, VotesOK
<1>5. Backed(receivers, receivers[p].ready[q])
  BY <1>1, <1>4 DEF EchoInv, ReadyBacked
<1> QED BY <1>1, <1>5, BackedOnce

\* Then not everybody has sent one.
LEMMA NotAllReady ==
  ASSUME BroadcastInv, PromptAll(receivers), Heard, NEW p \in Members \ Lost, Running(receivers[p]),
         NEW d \in Values, Backed(receivers, d), FewLost,
         \A q \in Members \ Lost : receivers[q].sentReady # {}
  PROVE  FALSE
<1>1. SetupOK /\ receivers[p] \in LocalStates /\ Lost \in SUBSET Members
  BY SetupsOK, LostMembers, NotLost DEF BroadcastInv, EchoInv
<1> DEFINE box == receivers[p].ready
           B == {q \in DOMAIN box : box[q] = d}
<1>2. DOMAIN box = Members
  BY <1>1 DEF LocalStates
<1>3. B \in SUBSET Members /\ Members \ Lost \subseteq B
  BY <1>2, ReadyHeard, NotLost
<1>4. ReadyQuorum(Cardinality(B))
  BY <1>1, <1>3, OthersSuffice
<1>5. p \in HonestMembers
  BY NotLost
<1> QED BY <1>4, <1>5 DEF PromptAll, Prompt, ReadyQuiet, Running, Votes

\* What one honest participant took, all that are not lost take.
LEMMA TakenByAll ==
  ASSUME BroadcastInv, PromptAll(receivers), Heard, NEW p \in Members \ Lost, Running(receivers[p]),
         FewLost, NEW r \in HonestMembers, receivers[r].output # NoValue
  PROVE  FALSE
<1>1. SetupOK /\ EchoInv(receivers)
  BY SetupsOK DEF BroadcastInv
<1>2. PICK d : d = receivers[r].output
  OBVIOUS
<1>3. d \in receivers[r].sentReady /\ d \in Values /\ Backed(receivers, d)
  BY <1>1, <1>2 DEF EchoInv, LocalOK, LocalStates, ReadyBacked
<1>4. ReadyQuorum(Cardinality(ReadySupport(receivers, d)))
  BY <1>2 DEF PromptAll, TakenBacked
<1>5. ASSUME NEW q \in Members \ Lost, Running(receivers[q])
      PROVE  receivers[q].sentReady # {}
  <2> q \in HonestMembers
    BY NotLost
  <2> DEFINE box == receivers[q].ready
             A == ReadySupport(receivers, d)
             B == {x \in DOMAIN box : box[x] = d}
  <2>1. DOMAIN box = Members
    BY <1>1 DEF EchoInv, LocalStates
  <2>2. A \in SUBSET Members /\ B \in SUBSET Members
    BY <2>1 DEF ReadySupport
  <2>3. ASSUME NEW x \in A, x \in HonestMembers
        PROVE  x \in B
    <3>1. d \in receivers[x].sentReady
      BY <2>3 DEF ReadySupport
    <3>2. receivers[x].sentReady # {}
      BY <3>1
    <3>3. receivers[q].ready[x] = d
      BY <1>3, <1>5, <2>3, <3>2, ReadyHeard
    <3> QED BY <2>1, <2>3, <3>3 DEF HonestMembers
  <2>4. Amplifies(Cardinality(B))
    <3>1. A \intersect HonestMembers \subseteq B
      BY <2>3
    <3> QED BY <1>1, <1>4, <2>2, <3>1, HonestAmplify
  <2>5. receivers[q].finishAmplification
    BY <1>3, <1>5, <2>4 DEF PromptAll, Prompt, ReadyQuiet, Running, Votes
  <2> QED BY <1>1, <2>5 DEF EchoInv, LocalOK
<1>6. ASSUME NEW q \in Members \ Lost
      PROVE  receivers[q].sentReady # {}
  <2>1. CASE Running(receivers[q])
    BY <1>5, <2>1
  <2>2. CASE ~Running(receivers[q])
    BY <1>1, <2>2, NotLost DEF EchoInv, LocalOK, Running
  <2> QED BY <2>1, <2>2
<1> QED BY <1>3, <1>6, NotAllReady

\* The value of an honest owner reaches somebody.
LEMMA TakenBySome ==
  ASSUME BroadcastInv, PromptAll(receivers), OwnerSent(receivers), Heard, FewLost,
         setup.owner \in HonestMembers, NEW r \in Members \ Lost,
         \A q \in HonestMembers : receivers[q].output = NoValue
  PROVE  FALSE
<1>1. SetupOK /\ EchoInv(receivers)
  BY SetupsOK DEF BroadcastInv
<1>2. \A q \in Members \ Lost : Running(receivers[q]) /\ receivers[q] \in LocalStates
  BY <1>1, NotLost DEF EchoInv, Running
<1>3. PICK v \in Values : \A q \in HonestMembers : setup.sends[q] = v
  BY <1>1 DEF SetupOK, HonestMembers
<1>4. ASSUME NEW q \in Members \ Lost
      PROVE  receivers[q].sentEcho = {v}
  <2> q \in HonestMembers
    BY NotLost
  <2>1. receivers[q].finishSend
    <3>1. CASE q = setup.owner
      BY <3>1 DEF OwnerSent
    <3>2. CASE q # setup.owner
      BY <1>2, <1>3, <3>2 DEF Heard, Outstanding, SentSend
    <3> QED BY <3>1, <3>2
  <2>2. receivers[q].sentEcho # {}
    BY <2>1 DEF PromptAll, Prompt
  <2>3. receivers[q].sentEcho \subseteq {v}
    BY <1>1, <1>3 DEF EchoInv, LocalOK
  <2> QED BY <2>2, <2>3
<1>5. ASSUME NEW p \in Members \ Lost
      PROVE  receivers[p].sentReady # {}
  <2> p \in HonestMembers
    BY NotLost
  <2>1. receivers[p].finishEcho
    <3> SUFFICES ASSUME ~receivers[p].finishEcho PROVE FALSE
      OBVIOUS
    <3> DEFINE box == receivers[p].echo
               B == {q \in DOMAIN box : box[q] = v}
    <3>1. DOMAIN box = Members
      BY <1>2 DEF LocalStates
    <3>2. ASSUME NEW q \in Members \ Lost
          PROVE  box[q] = v
      <4> q \in HonestMembers
        BY NotLost
      <4>1. box[q] # NoValue
        <5>1. CASE q = p
          BY <1>4, <5>1 DEF PromptAll, Prompt, EchoQuiet
        <5>2. CASE q # p
          BY <1>2, <1>4, <5>2 DEF Heard, Outstanding, SentEcho
        <5> QED BY <5>1, <5>2
      <4>2. box[q] \in receivers[q].sentEcho
        BY <1>1, <4>1 DEF EchoInv, VotesOK
      <4> QED BY <1>4, <4>2
    <3>3. B \in SUBSET Members /\ Members \ Lost \subseteq B
      BY <3>1, <3>2
    <3>4. EchoQuorum(Cardinality(B))
      BY <1>1, <3>3, OthersSuffice, LostMembers
    <3> QED BY <3>4 DEF PromptAll, Prompt, EchoQuiet, Votes
  <2> QED BY <2>1 DEF PromptAll, Prompt
<1>6. PICK d : d \in receivers[r].sentReady
  BY <1>5
<1>7. d \in Values /\ Backed(receivers, d)
  BY <1>1, <1>2, <1>6, NotLost DEF EchoInv, ReadyBacked, LocalStates
<1> QED BY <1>2, <1>5, <1>7, NotAllReady

\* The invariant implies that the broadcast arrives.
LEMMA PromptDelivers ==
  ASSUME BroadcastInv, PromptAll(receivers), OwnerSent(receivers)
  PROVE  Delivered
<1> SUFFICES ASSUME Heard, FewLost, NEW p \in Members \ Lost, receivers[p].output = NoValue
             PROVE  /\ setup.owner \notin HonestMembers
                    /\ \A q \in HonestMembers : receivers[q].output = NoValue
  <2>1. Cardinality(Lost) \in Nat /\ BroadcastThreshold(Cardinality(Members)) \in Nat
    BY LostMembers, SetupsOK, Fewer, ThresholdArithmetic DEF BroadcastInv, SetupOK
  <2> QED BY <2>1 DEF Delivered, Heard, FewLost
<1>1. Running(receivers[p])
  BY NotLost DEF Running
<1>2. \A q \in HonestMembers : receivers[q].output = NoValue
  BY <1>1, TakenByAll
<1> QED BY <1>2, TakenBySome

\* The parts of the invariant, in the next state.
LEMMA PromptStep ==
  BroadcastInv /\ PromptAll(receivers) /\ OwnerSent(receivers) /\ [EchoNext]_echoVars =>
    PromptAll(receivers)' /\ OwnerSent(receivers)'
<1> SUFFICES ASSUME BroadcastInv, PromptAll(receivers), OwnerSent(receivers), [EchoNext]_echoVars
             PROVE  PromptAll(receivers)' /\ OwnerSent(receivers)'
  OBVIOUS
<1>1. setup' = setup
  BY BroadcastNext
<1>2. PromptAll(receivers') /\ OwnerSent(receivers')
  BY PromptNext
<1>3. Members' = Members /\ HonestMembers' = HonestMembers
  BY <1>1 DEF Members, HonestMembers
<1>4. OwnerSent(receivers)'
  BY <1>1, <1>2, <1>3 DEF OwnerSent
<1>5. PromptAll(receivers)'
  BY <1>1, <1>2, <1>3
  DEF PromptAll, Prompt, TakenBacked, ReadyQuiet, EchoQuiet, ReadySupport, ReadyQuorum, EchoQuorum,
      Amplifies
<1> QED BY <1>4, <1>5

\* Once the channels have delivered what honest participants sent to each
\* other, reliable_broadcast_receive_all has taken the value of an honest owner
\* at everybody who is not lost, and so a faulty owner's value that anybody
\* took: for any number of participants, as long as the faulty ones and those
\* that an alarm of this or another session ended are together no more than
\* the thresholds are made for.
THEOREM DeliveredAlways == EchoSpec => []Delivered
<1>1. EchoInit => BroadcastInv /\ PromptAll(receivers) /\ OwnerSent(receivers)
  BY BroadcastInit, PromptInit
<1>2. BroadcastInv /\ PromptAll(receivers) /\ OwnerSent(receivers) => Delivered
  BY PromptDelivers
<1> QED BY <1>1, <1>2, BroadcastStep, PromptStep, PTL DEF EchoSpec

-----------------------------------------------------------------------------
(***************************************************************************)
(* Attestations: what passes verification is true, and whoever takes part  *)
(* stays able to act.                                                      *)
(***************************************************************************)

\* Every measured event has a digest that the register holds.
LEMMA DigestsInRegister ==
  ASSUME NEW log, NEW register, VerifyEventLog(log, register), NEW i \in Measured(log)
  PROVE  \E j \in DOMAIN register :
           register[j] = EventDigest(DstackEvent, log[i].event, log[i].event_payload)
<1>1. /\ log[i].event_type = DstackEvent
      /\ log[i].digest = EventDigest(log[i].event_type, log[i].event, log[i].event_payload)
  BY DEF VerifyEventLog
<1>2. \E j \in DOMAIN register : register[j] = log[i].digest
  BY DEF VerifyEventLog, Replays
<1> QED BY <1>1, <1>2

\* The event of a name, when there is one.
LEMMA SingleIsMeasured ==
  ASSUME NEW log, NEW name, IsSingle(log, name)
  PROVE  \E i \in Measured(log) : log[i] = SingleEvent(log, name) /\ log[i].event = name
<1>1. PICK i \in Named(log, name) : Named(log, name) = {i}
  BY DEF IsSingle
<1>2. (CHOOSE j \in Named(log, name) : TRUE) \in Named(log, name)
  BY <1>1
<1>3. SingleEvent(log, name) = log[i]
  BY <1>1, <1>2 DEF SingleEvent
<1> QED BY <1>1, <1>3 DEF Named

\* The digests a node's register holds.
LEMMA RegisterHolds ==
  ASSUME NEW m, NEW j \in DOMAIN RegisterOf(m)
  PROVE  RegisterOf(m)[j] \in {EventDigest(DstackEvent, "compose-hash", ComposeOf(m)),
                               EventDigest(DstackEvent, "key-provider", "sgx"),
                               EventDigest(DstackEvent, "mpc-image-digest", RunsImage[m])}
<1>1. j \in 1 .. 3 /\ RegisterOf(m)[j] = Events(m)[j].digest
  BY DEF RegisterOf
<1>2. j = 1 \/ j = 2 \/ j = 3
  BY <1>1
<1>3. /\ Events(m)[1].digest = EventDigest(DstackEvent, "compose-hash", ComposeOf(m))
      /\ Events(m)[2].digest = EventDigest(DstackEvent, "key-provider", "sgx")
      /\ Events(m)[3].digest = EventDigest(DstackEvent, "mpc-image-digest", RunsImage[m])
  BY DEF Events, EventLog
<1> QED BY <1>1, <1>2, <1>3

\* Evidence that passes for an account key and a TLS key is that of the node that
\* has both, and names the image and the launcher the node runs, whatever else
\* is in it.
LEMMA EvidenceIsTrue ==
  ASSUME NEW k \in Nodes, NEW n \in Nodes, NEW e \in Evidence[k], NEW allowed,
         VerifyEvidence(e, ReportData(n, k), allowed, AllowedLaunchers)
  PROVE  /\ k = n
         /\ SingleEvent(e.tcb.event_log, "mpc-image-digest").event_payload = RunsImage[n]
         /\ e.tcb.app_compose.docker_compose_file = RunsLauncher[n]
         /\ e.tcb.app_compose.docker_compose_file \in AllowedLaunchers
<1> DEFINE log == e.tcb.event_log
<1>1. /\ DcapVerify(e.quote) /\ e.quote.report_data = ReportData(n, k)
      /\ VerifyEventLog(log, e.quote.rtmr3)
      /\ VerifyAppCompose(e.tcb) /\ VerifyAnyMeasurements(e.quote, e.tcb)
      /\ IsSingle(log, "mpc-image-digest")
      /\ e.tcb.app_compose.docker_compose_file \in AllowedLaunchers
  BY DEF VerifyEvidence, VerifyDstack
<1>2. k = n /\ e.quote.rtmr3 = RegisterOf(n)
  <2>1. \E d \in DefaultMeasurements : e.quote.rtmrs = d.rtmrs
    BY <1>1 DEF VerifyAnyMeasurements
  <2>2. PICK m \in Nodes : e.quote.report_data = ReportData(m, m) /\ e.quote.rtmr3 = RegisterOf(m)
    BY <1>1, <2>1, EvidenceAssumption
  <2>3. m = n /\ m = k
    BY <1>1, <2>2 DEF ReportData
  <2> QED BY <2>2, <2>3
<1>3. ASSUME NEW name, IsSingle(log, name)
      PROVE  EventDigest(DstackEvent, name, SingleEvent(log, name).event_payload)
               \in {EventDigest(DstackEvent, "compose-hash", ComposeOf(n)),
                    EventDigest(DstackEvent, "key-provider", "sgx"),
                    EventDigest(DstackEvent, "mpc-image-digest", RunsImage[n])}
  <2>1. PICK i \in Measured(log) : log[i] = SingleEvent(log, name) /\ log[i].event = name
    BY <1>3, SingleIsMeasured
  <2>2. PICK j \in DOMAIN RegisterOf(n) :
          RegisterOf(n)[j] = EventDigest(DstackEvent, log[i].event, log[i].event_payload)
    BY <1>1, <1>2, DigestsInRegister
  <2> QED BY <2>1, <2>2, RegisterHolds
<1>4. SingleEvent(log, "mpc-image-digest").event_payload = RunsImage[n]
  BY <1>1, <1>3 DEF EventDigest
<1>5. e.tcb.app_compose = ComposeOf(n)
  <2>1. /\ IsSingle(log, "compose-hash")
        /\ SingleEvent(log, "compose-hash").event_payload = e.tcb.app_compose
    BY <1>1 DEF VerifyAppCompose
  <2> QED BY <1>3, <2>1 DEF EventDigest
<1>6. e.tcb.app_compose.docker_compose_file = RunsLauncher[n]
  BY <1>5 DEF ComposeOf
<1> QED BY <1>1, <1>2, <1>4, <1>6

\* The fields of a stored attestation.
IsEntry(v) ==
  v = NodeAttestation(v.account_id, v.account_public_key, v.kind, v.mpc_image_hash,
                      v.launcher_compose_hash, v.left)

\* What Truthful says, of an entry v of node n.
TrueEntry(n, v) ==
  /\ IsEntry(v)
  /\ v.kind = "dstack" => /\ v.account_id = Owner[n] /\ v.account_public_key = n
                          /\ v.mpc_image_hash = RunsImage[n]
                          /\ v.launcher_compose_hash = RunsLauncher[n]
                          /\ v.launcher_compose_hash \in AllowedLaunchers

TrueEntries(stored) == \A n \in DOMAIN stored : TrueEntry(n, stored[n])

\* Everybody in p is listed with a node that has an entry.
EntriesBacked(p, stored) == \A a \in DOMAIN p : p[a] \in DOMAIN stored

AttestedInv ==
  /\ TrueEntries(attestations)
  /\ EntriesBacked(listed, attestations) /\ EntriesBacked(prospective, attestations)
  /\ phase = "Running" => DOMAIN prospective = {}

\* The parts that a run checks follow.
LEMMA AttestedSuffices == ASSUME AttestedInv PROVE AttestationsSound
<1>1. ASSUME NEW n \in DOMAIN attestations PROVE Truthful(n)
  BY DEF AttestedInv, TrueEntries, TrueEntry, Truthful
<1>2. ASSUME NEW p, EntriesBacked(p, attestations) PROVE CanAct(p)
  <2>1. SUFFICES ASSUME NEW a \in DOMAIN p
                 PROVE  /\ p[a] \in DOMAIN attestations
                        /\ attestations[p[a]].kind = "dstack" /\ Owner[p[a]] = a
                             => IsCallerAttested(p, p[a])
    BY DEF CanAct
  <2>2. p[a] \in DOMAIN attestations
    BY <1>2 DEF EntriesBacked
  <2>3. ASSUME attestations[p[a]].kind = "dstack", Owner[p[a]] = a PROVE IsCallerAttested(p, p[a])
    <3>1. attestations[p[a]].account_id = a /\ attestations[p[a]].account_public_key = p[a]
      BY <2>2, <2>3, <1>1 DEF Truthful
    <3> QED BY <2>2, <2>3, <3>1 DEF IsCallerAttested
  <2> QED BY <2>2, <2>3
<1> QED BY <1>1, <1>2 DEF AttestedInv, AttestationsSound

\* An entry as it is made.
LEMMA EntryFields ==
  ASSUME NEW a, NEW k, NEW kind, NEW i, NEW l, NEW d
  PROVE  /\ IsEntry(NodeAttestation(a, k, kind, i, l, d))
         /\ NodeAttestation(a, k, kind, i, l, d).account_id = a
         /\ NodeAttestation(a, k, kind, i, l, d).account_public_key = k
         /\ NodeAttestation(a, k, kind, i, l, d).kind = kind
         /\ NodeAttestation(a, k, kind, i, l, d).mpc_image_hash = i
         /\ NodeAttestation(a, k, kind, i, l, d).launcher_compose_hash = l
BY DEF IsEntry, NodeAttestation

\* The first participants have mock attestations.
LEMMA AttestedInitially == ASSUME AttestationsInit PROVE AttestedInv
<1>1. ASSUME NEW n \in DOMAIN attestations PROVE TrueEntry(n, attestations[n])
  <2>1. attestations[n] = NodeAttestation(Owner[n], NoKey, "mock", Unconstrained, Unconstrained, 0)
    BY DEF AttestationsInit, Mocked
  <2> QED BY <2>1, EntryFields DEF TrueEntry
<1>2. EntriesBacked(listed, attestations)
  BY AttestationsAssumption DEF AttestationsInit, EntriesBacked
<1>3. DOMAIN prospective = {}
  BY DEF AttestationsInit, Nobody
<1> QED BY <1>1, <1>2, <1>3 DEF AttestedInv, TrueEntries, EntriesBacked

\* A step that stores and drops nothing, and lists only who is attested.
LEMMA ListsChange ==
  ASSUME AttestedInv, UNCHANGED attestations,
         EntriesBacked(listed', attestations), EntriesBacked(prospective', attestations),
         phase' = "Running" => DOMAIN prospective' = {}
  PROVE  AttestedInv'
BY DEF AttestedInv

\* A day passes: entries keep all but the time that is left.
LEMMA DayKeeps == ASSUME AttestedInv, DayPasses PROVE AttestedInv'
<1>1. DOMAIN attestations' = DOMAIN attestations
  BY DEF DayPasses
<1>2. ASSUME NEW n \in DOMAIN attestations PROVE TrueEntry(n, attestations'[n])
  <2> DEFINE v == attestations[n]
  <2>1. PICK d : attestations'[n] = [v EXCEPT !.left = d]
    BY DEF DayPasses
  <2>2. TrueEntry(n, v)
    BY DEF AttestedInv, TrueEntries
  <2>3. attestations'[n] = NodeAttestation(v.account_id, v.account_public_key, v.kind,
                                           v.mpc_image_hash, v.launcher_compose_hash, d)
    <3> HIDE DEF v
    <3> QED BY <2>1, <2>2 DEF TrueEntry, IsEntry, NodeAttestation
  <2> HIDE DEF v
  <2> QED BY <2>2, <2>3, EntryFields DEF TrueEntry
<1>3. UNCHANGED <<phase, listed, prospective>>
  BY DEF DayPasses
<1> QED BY <1>1, <1>2, <1>3 DEF AttestedInv, TrueEntries, EntriesBacked

\* A true entry is stored.
LEMMA StoredKeeps ==
  ASSUME AttestedInv, NEW n, NEW v, TrueEntry(n, v), Stored(n, v)
  PROVE  AttestedInv'
<1>1. /\ DOMAIN attestations' = DOMAIN attestations \union {n}
      /\ \A m \in DOMAIN attestations' :
           attestations'[m] = IF m = n THEN v ELSE attestations[m]
  BY DEF Stored, Put
<1>2. UNCHANGED <<phase, listed, prospective>>
  BY DEF Stored
<1>3. TrueEntries(attestations')
  BY <1>1 DEF AttestedInv, TrueEntries
<1> QED BY <1>1, <1>2, <1>3 DEF AttestedInv, EntriesBacked

\* Nothing is claimed of a mock.
LEMMA MocksKeep == ASSUME AttestedInv, NEW m \in Mocks, SubmitMock(m) PROVE AttestedInv'
<1> DEFINE v == NodeAttestation(Owner[m.signer], m.signer, m.kind, m.image, m.launcher, m.days)
<1>1. v.kind = m.kind /\ m.kind # "dstack" /\ IsEntry(v)
  BY AttestationsAssumption, EntryFields
<1>2. TrueEntry(m.tls, v)
  BY <1>1 DEF TrueEntry
<1>3. Stored(m.tls, v)
  BY DEF SubmitMock
<1> HIDE DEF v
<1> QED BY <1>2, <1>3, StoredKeeps

\* A dstack attestation is true if it passes.
LEMMA SubmissionsKeep ==
  ASSUME AttestedInv, NEW s \in Accepted, SubmitParticipantInfo(s)
  PROVE  AttestedInv'
<1>1. PICK k \in Nodes, n \in Nodes : \E f \in Evidence[k] :
        /\ VerifyEvidence(f, ReportData(n, k), Images, AllowedLaunchers)
        /\ s = [key |-> k, tls |-> n, kept |-> Kept(f)]
  BY DEF Accepted
<1>1a. PICK e \in Evidence[k] :
        /\ VerifyEvidence(e, ReportData(n, k), Images, AllowedLaunchers)
        /\ s = [key |-> k, tls |-> n, kept |-> Kept(e)]
  BY <1>1
<1>2. PICK i, l : /\ i = SingleEvent(e.tcb.event_log, "mpc-image-digest").event_payload
                  /\ l = e.tcb.app_compose.docker_compose_file
  OBVIOUS
<1>3. k = n /\ i = RunsImage[n] /\ l = RunsLauncher[n] /\ l \in AllowedLaunchers
  BY <1>1a, <1>2, EvidenceIsTrue
<1>4. s.key = n /\ s.tls = n /\ s.kept.image = i /\ s.kept.launcher = l
  BY <1>1a, <1>2, <1>3 DEF Kept
<1> DEFINE v == NodeAttestation(Owner[n], n, "dstack", i, l, Validity)
<1>5. TrueEntry(n, v)
  BY <1>3, EntryFields DEF TrueEntry
<1>6. Stored(n, v)
  BY <1>4 DEF SubmitParticipantInfo
<1> HIDE DEF v
<1> QED BY <1>5, <1>6, StoredKeeps

\* A resharing begins with attested participants only.
LEMMA ResharingKeeps ==
  ASSUME AttestedInv, VerifyTee \/ \E p \in Proposals : VoteNewParameters(p)
  PROVE  AttestedInv'
<1>1. PICK p : EntriesBacked(p, attestations) /\ BeginResharing(p)
  <2>1. ASSUME NEW p \in Proposals, VoteNewParameters(p)
        PROVE  EntriesBacked(p, attestations) /\ BeginResharing(p)
    BY <2>1 DEF VoteNewParameters, ReverifyParticipants, EntriesBacked
  <2>2. ASSUME VerifyTee PROVE \E p : EntriesBacked(p, attestations) /\ BeginResharing(p)
    <3> DEFINE p == [a \in {b \in DOMAIN listed : ReverifyParticipants(listed[b])} |-> listed[a]]
    <3>1. EntriesBacked(p, attestations)
      BY DEF AttestedInv, EntriesBacked, ReverifyParticipants
    <3>2. BeginResharing(p)
      BY <2>2 DEF VerifyTee
    <3> QED BY <3>1, <3>2
  <2> QED BY <2>1, <2>2
<1>2. /\ phase' = "Resharing" /\ prospective' = p /\ UNCHANGED <<listed, attestations>>
  BY <1>1 DEF BeginResharing
<1> QED BY <1>1, <1>2, ListsChange DEF AttestedInv

\* It ends with those it was for, or is cancelled.
LEMMA ResharingEnds ==
  ASSUME AttestedInv, VoteCancelResharing \/ \E n \in Nodes : VoteReshared(n)
  PROVE  AttestedInv'
<1>1. DOMAIN Nobody = {} /\ EntriesBacked(Nobody, attestations)
  BY DEF Nobody, EntriesBacked
<1>2. UNCHANGED attestations
  BY DEF VoteCancelResharing, VoteReshared
<1>3. \/ phase' = "Running" /\ listed' \in {listed, prospective} /\ prospective' = Nobody
      \/ UNCHANGED <<phase, listed, prospective>>
  BY DEF VoteCancelResharing, VoteReshared
<1> QED BY <1>1, <1>2, <1>3, ListsChange DEF AttestedInv

\* The cleanup promise drops nobody who participates: it does nothing during
\* a resharing.
LEMMA CleanupKeeps == ASSUME AttestedInv, CleanTeeStatus PROVE AttestedInv'
<1>1. UNCHANGED <<phase, listed, prospective>>
  BY DEF CleanTeeStatus
<1>2. CASE phase = "Running"
  <2> DEFINE gone == Nodes \ {listed[a] : a \in DOMAIN listed}
  <2>1. /\ DOMAIN attestations' = DOMAIN attestations \ gone
        /\ \A m \in DOMAIN attestations' : attestations'[m] = attestations[m]
    BY <1>2 DEF CleanTeeStatus, Drop
  <2>2. TrueEntries(attestations')
    BY <2>1 DEF AttestedInv, TrueEntries
  <2>3. EntriesBacked(listed, attestations')
    BY <2>1 DEF AttestedInv, EntriesBacked
  <2>4. DOMAIN prospective = {}
    BY <1>2 DEF AttestedInv
  <2> QED BY <1>1, <2>2, <2>3, <2>4 DEF AttestedInv, EntriesBacked
<1>3. CASE phase # "Running"
  BY <1>1, <1>3 DEF CleanTeeStatus, AttestedInv
<1> QED BY <1>2, <1>3

\* A migration puts an attested node in the place of another.
LEMMA MigrationKeeps ==
  ASSUME AttestedInv, NEW n \in Nodes, ConcludeNodeMigration(n)
  PROVE  AttestedInv'
<1> DEFINE d == migrations[Owner[n]].sign_pk
<1>1. /\ DOMAIN listed' = DOMAIN listed \union {Owner[n]}
      /\ \A a \in DOMAIN listed' : listed'[a] = IF a = Owner[n] THEN d ELSE listed[a]
  BY DEF ConcludeNodeMigration, Put
<1>2. d \in DOMAIN attestations /\ UNCHANGED <<attestations, phase, prospective>>
  BY DEF ConcludeNodeMigration, ReverifyParticipants
<1>3. EntriesBacked(listed', attestations)
  BY <1>1, <1>2 DEF AttestedInv, EntriesBacked
<1> QED BY <1>2, <1>3, ListsChange DEF AttestedInv

\* Every step keeps the invariant.
LEMMA AttestedSteps == ASSUME AttestedInv, [AttestationsNext]_contractVars PROVE AttestedInv'
<1>1. CASE UNCHANGED <<attestations, phase, listed, prospective>>
  BY <1>1 DEF AttestedInv
<1>2. ASSUME NEW i \in Images, WhitelistImage(i) PROVE AttestedInv'
  BY <1>1, <1>2 DEF WhitelistImage
<1>3. CASE ImageExpires \/ CleanupOrphanedNodeMigrations
  BY <1>1, <1>3 DEF ImageExpires, CleanupOrphanedNodeMigrations
<1>4. ASSUME NEW a \in Migrating, RegisterBackupService(a) PROVE AttestedInv'
  BY <1>1, <1>4 DEF RegisterBackupService
<1>5. ASSUME NEW a \in Migrating, NEW d \in Destinations, StartNodeMigration(a, d) PROVE AttestedInv'
  BY <1>1, <1>5 DEF StartNodeMigration
<1>6. CASE UNCHANGED contractVars
  BY <1>1, <1>6 DEF contractVars
<1> QED
  BY <1>2, <1>3, <1>4, <1>5, <1>6, DayKeeps, MocksKeep, SubmissionsKeep, ResharingKeeps,
     ResharingEnds, CleanupKeeps, MigrationKeeps DEF AttestationsNext

\* Whatever evidence is submitted, a dstack attestation that add_participant
\* stores is true of the node, and no cleanup, migration or resharing leaves a
\* participant, current or prospective, without a stored attestation, with which
\* its own node can act if it is a dstack attestation (tee_state.rs, lib.rs).
\* Nothing is claimed of mocks, which anybody may store for any node.
THEOREM AttestationsSoundAlways == AttestationsSpec => []AttestationsSound
<1>1. AttestationsInit => AttestedInv
  BY AttestedInitially
<1>2. AttestedInv /\ [AttestationsNext]_contractVars => AttestedInv'
  BY AttestedSteps
<1>3. AttestedInv => AttestationsSound
  BY AttestedSuffices
<1> QED BY <1>1, <1>2, <1>3, PTL DEF AttestationsSpec

-----------------------------------------------------------------------------
(***************************************************************************)
(* The backup of key shares: what a change of the migration info does to   *)
(* connections, and which keysets reach the new node.                      *)
(***************************************************************************)

ChainStates == [phase : {"Running", "Initializing", "Resharing"}, epoch : Nat, count : Nat]
LinkStates == [state : {"none", "accepted", "open"}, key : Nat, expected : Nat, token : Nat]

\* The new node's shares are of a keyset the contract was Running with.
KeysetsInv ==
  /\ chain \in ChainStates
  /\ chain.phase = "Running" => Keys \in adopted
  /\ newShares # NoShares => newShares \in adopted

\* Cancelled tokens are older than the latest one, or that one while it is
\* being replaced; a connection has the info of its token.
TokenInv(s) ==
  /\ expecting[s].token \in Nat /\ expecting[s].key \in Nat /\ told[s].key \in Nat
  /\ revoked[s] \subseteq Nat /\ \A t \in revoked[s] : t <= expecting[s].token
  /\ expecting[s].token \in revoked[s] <=> revoking[s]

LinkInv(s) ==
  /\ links[s] \in LinkStates
  /\ links[s].state # "none" =>
       \/ links[s].token \in revoked[s]
       \/ links[s].token = expecting[s].token /\ links[s].expected = expecting[s].key
  /\ links[s].state = "open" => links[s].key = links[s].expected

PeersInv ==
  /\ registered \in Nat /\ secrets \in Nat
  /\ told = [s \in Servers |-> told[s]] /\ expecting = [s \in Servers |-> expecting[s]]
  /\ revoked = [s \in Servers |-> revoked[s]] /\ revoking = [s \in Servers |-> revoking[s]]
  /\ links = [s \in Servers |-> links[s]]
  /\ \A s \in Servers : TokenInv(s) /\ LinkInv(s)

BackupInv == KeysetsInv /\ PeersInv

\* At first no token is cancelled and there is no connection.
LEMMA BackupInitially == ASSUME BackupInit PROVE BackupInv
<1>1. KeysetsInv
  BY DEF BackupInit, KeysetsInv, ChainStates, Keys, Keyset, NoShares
<1>2. registered \in Nat /\ secrets \in Nat
  BY DEF BackupInit
<1>3. \A s \in Servers : told[s].key \in Nat /\ expecting[s] = [key |-> told[s].key, token |-> 0]
  BY <1>2 DEF BackupInit, MigrationInfoOf, FromMigration
<1>4. ASSUME NEW s \in Servers PROVE TokenInv(s)
  BY <1>3 DEF BackupInit, TokenInv
<1>5. ASSUME NEW s \in Servers PROVE LinkInv(s)
  BY DEF BackupInit, LinkInv, LinkStates, NoLink
<1>6. /\ told = [s \in Servers |-> told[s]] /\ expecting = [s \in Servers |-> expecting[s]]
      /\ revoked = [s \in Servers |-> revoked[s]] /\ revoking = [s \in Servers |-> revoking[s]]
      /\ links = [s \in Servers |-> links[s]]
  BY DEF BackupInit
<1> QED BY <1>1, <1>2, <1>4, <1>5, <1>6 DEF BackupInv, PeersInv

\* A move of the contract remembers each keyset it comes to be Running with.
LEMMA AdvanceKeepsKeysets ==
  ASSUME KeysetsInv, NEW state \in ChainStates, Advance(state)
  PROVE  KeysetsInv'
BY DEF KeysetsInv, Advance, Keys, Keyset, ChainStates

\* The moves of the contract.
LEMMA MovesAdvance ==
  ASSUME KeysetsInv, ContractMoves
  PROVE  \E state \in ChainStates : Advance(state)
<1>1. \A p \in {"Running", "Initializing", "Resharing"} : [chain EXCEPT !.phase = p] \in ChainStates
  BY DEF KeysetsInv, ChainStates
<1>2. [chain EXCEPT !.count = @ + 1] \in ChainStates
  BY DEF KeysetsInv, ChainStates
<1>3. [phase |-> "Running", epoch |-> chain.epoch + 1, count |-> chain.count] \in ChainStates
  BY DEF KeysetsInv, ChainStates
<1> QED BY <1>1, <1>2, <1>3 DEF ContractMoves

\* Only what the contract is Running with at that moment is imported.
LEMMA ImportKeepsKeysets ==
  ASSUME KeysetsInv, Import
  PROVE  KeysetsInv'
BY DEF KeysetsInv, Import, Keys, NoShares

\* A step that touches neither the contract nor the new node's shares.
LEMMA OtherKeysets ==
  ASSUME KeysetsInv, UNCHANGED <<chain, adopted, newShares>>
  PROVE  KeysetsInv'
BY DEF KeysetsInv, Keys

\* A step that touches neither keys, tokens nor connections.
LEMMA OtherPeers ==
  ASSUME PeersInv, UNCHANGED <<registered, secrets, told, expecting, revoked, revoking, links>>
  PROVE  PeersInv'
BY DEF PeersInv, TokenInv, LinkInv

\* The operator registers and generates keys.
LEMMA KeysKeepPeers ==
  ASSUME PeersInv, Register \/ GenerateSecrets
  PROVE  PeersInv'
BY DEF PeersInv, TokenInv, LinkInv, Register, GenerateSecrets

\* The migration info reaches a server.
LEMMA SeeKeepsPeers ==
  ASSUME PeersInv, NEW s \in Servers, SeeMigration(s)
  PROVE  PeersInv'
<1>1. /\ told' = [r \in Servers |-> told'[r]]
      /\ told'[s].key = registered /\ \A r \in Servers \ {s} : told'[r] = told[r]
  BY DEF PeersInv, SeeMigration, MigrationInfoOf
<1>2. UNCHANGED <<registered, secrets, expecting, revoked, revoking, links>>
  BY DEF SeeMigration
<1>3. ASSUME NEW r \in Servers PROVE TokenInv(r)'
  BY <1>1, <1>2 DEF PeersInv, TokenInv
<1>4. ASSUME NEW r \in Servers PROVE LinkInv(r)'
  BY <1>2 DEF PeersInv, LinkInv
<1> QED BY <1>1, <1>2, <1>3, <1>4 DEF PeersInv

\* The monitor cancels the latest token.
LEMMA RevokeKeepsPeers ==
  ASSUME PeersInv, NEW s \in Servers, Revoke(s)
  PROVE  PeersInv'
<1>1. /\ revoked' = [r \in Servers |-> revoked'[r]] /\ revoking' = [r \in Servers |-> revoking'[r]]
      /\ revoked'[s] = revoked[s] \union {expecting[s].token} /\ revoking'[s] = TRUE
      /\ \A r \in Servers \ {s} : revoked'[r] = revoked[r] /\ revoking'[r] = revoking[r]
  BY DEF PeersInv, Revoke
<1>2. UNCHANGED <<registered, secrets, told, expecting, links>>
  BY DEF Revoke
<1>3. ASSUME NEW r \in Servers PROVE TokenInv(r)'
  <2>1. CASE r = s
    BY <1>1, <1>2, <2>1 DEF PeersInv, TokenInv
  <2>2. CASE r # s
    BY <1>1, <1>2, <2>2 DEF PeersInv, TokenInv
  <2> QED BY <2>1, <2>2
<1>4. ASSUME NEW r \in Servers PROVE LinkInv(r)'
  BY <1>1, <1>2 DEF PeersInv, LinkInv
<1> QED BY <1>1, <1>2, <1>3, <1>4 DEF PeersInv

\* The monitor sends the new info: what was accepted before has a cancelled token.
LEMMA ExpectKeepsPeers ==
  ASSUME PeersInv, NEW s \in Servers, Expect(s)
  PROVE  PeersInv'
<1>1. /\ expecting' = [r \in Servers |-> expecting'[r]] /\ revoking' = [r \in Servers |-> revoking'[r]]
      /\ expecting'[s].key = told[s].key /\ expecting'[s].token = expecting[s].token + 1
      /\ revoking'[s] = FALSE
      /\ \A r \in Servers \ {s} : expecting'[r] = expecting[r] /\ revoking'[r] = revoking[r]
  BY DEF PeersInv, Expect, FromMigration
<1>2. UNCHANGED <<registered, secrets, told, revoked, links>>
  BY DEF Expect
<1>3. TokenInv(s) /\ LinkInv(s) /\ expecting[s].token \in revoked[s]
  BY DEF PeersInv, TokenInv, Expect
<1>4. ASSUME NEW r \in Servers PROVE TokenInv(r)'
  <2>1. CASE r = s
    BY <1>1, <1>2, <1>3, <2>1 DEF TokenInv
  <2>2. CASE r # s
    BY <1>1, <1>2, <2>2 DEF PeersInv, TokenInv
  <2> QED BY <2>1, <2>2
<1>5. ASSUME NEW r \in Servers PROVE LinkInv(r)'
  BY <1>1, <1>2, <1>3 DEF PeersInv, LinkInv
<1> QED BY <1>1, <1>2, <1>4, <1>5 DEF PeersInv

\* A connection changes.
LEMMA SetLinkKeepsPeers ==
  ASSUME PeersInv, NEW s \in Servers, NEW link \in LinkStates, SetLink(s, link),
         link.state # "none" => \/ link.token \in revoked[s]
                                \/ /\ link.token = expecting[s].token
                                   /\ link.expected = expecting[s].key,
         link.state = "open" => link.key = link.expected
  PROVE  PeersInv'
<1>1. /\ links' = [r \in Servers |-> links'[r]]
      /\ links'[s] = link /\ \A r \in Servers \ {s} : links'[r] = links[r]
  BY DEF PeersInv, SetLink
<1>2. UNCHANGED <<registered, secrets, told, expecting, revoked, revoking>>
  BY DEF SetLink
<1>3. ASSUME NEW r \in Servers PROVE TokenInv(r)'
  BY <1>2 DEF PeersInv, TokenInv
<1>4. ASSUME NEW r \in Servers PROVE LinkInv(r)'
  BY <1>1, <1>2 DEF PeersInv, LinkInv
<1> QED BY <1>1, <1>2, <1>3, <1>4 DEF PeersInv

\* A connection is accepted with the latest token, and opened only for the
\* peer that was expected then.
LEMMA LinksKeepPeers ==
  ASSUME PeersInv, NEW s \in Servers,
         (\E k \in 1 .. secrets : Accept(s, k)) \/ Authenticate(s) \/ Disconnect(s)
  PROVE  PeersInv'
<1>1. TokenInv(s) /\ LinkInv(s) /\ secrets \in Nat
  BY DEF PeersInv
<1>2. NoLink \in LinkStates /\ NoLink.state = "none"
  BY DEF NoLink, LinkStates
<1>3. ASSUME NEW k \in 1 .. secrets, Accept(s, k) PROVE PeersInv'
  <2> DEFINE link == [state |-> "accepted", key |-> k, expected |-> expecting[s].key,
                      token |-> expecting[s].token]
  <2>1. link \in LinkStates /\ link.state = "accepted" /\ link.token = expecting[s].token
        /\ link.expected = expecting[s].key
    BY <1>1, <1>3 DEF LinkStates, TokenInv
  <2>2. SetLink(s, link)
    BY <1>3 DEF Accept
  <2> HIDE DEF link
  <2> QED BY <2>1, <2>2, SetLinkKeepsPeers
<1>4. ASSUME Authenticate(s) PROVE PeersInv'
  <2>1. CASE Authenticates(links[s])
    <3> DEFINE link == [links[s] EXCEPT !.state = "open"]
    <3>1. /\ link \in LinkStates /\ link.token = links[s].token /\ link.key = links[s].key
          /\ link.expected = links[s].expected
      BY <1>1 DEF LinkInv, LinkStates
    <3>2. SetLink(s, link)
      BY <1>4, <2>1 DEF Authenticate
    <3>3. links[s].state = "accepted" /\ link.key = link.expected
      BY <1>4, <2>1, <3>1 DEF Authenticate, Authenticates
    <3> HIDE DEF link
    <3> QED BY <1>1, <3>1, <3>2, <3>3, SetLinkKeepsPeers DEF LinkInv
  <2>2. CASE ~Authenticates(links[s])
    BY <1>2, <1>4, <2>2, SetLinkKeepsPeers DEF Authenticate
  <2> QED BY <2>1, <2>2
<1>5. ASSUME Disconnect(s) PROVE PeersInv'
  BY <1>2, <1>5, SetLinkKeepsPeers DEF Disconnect
<1> QED BY <1>3, <1>4, <1>5

\* Every step keeps the invariant.
LEMMA BackupSteps == ASSUME BackupInv, [BackupNext]_backupVars PROVE BackupInv'
<1> USE DEF BackupInv
<1>1. CASE ContractMoves
  BY <1>1, MovesAdvance, AdvanceKeepsKeysets, OtherPeers DEF Advance
<1>2. CASE Register \/ GenerateSecrets
  BY <1>2, KeysKeepPeers, OtherKeysets DEF Register, GenerateSecrets
<1>3. CASE StartMigration \/ Promote \/ SaveContractState
  BY <1>3, OtherKeysets, OtherPeers DEF StartMigration, Promote, SaveContractState
<1>4. ASSUME NEW s \in Servers, SeeMigration(s) PROVE BackupInv'
  BY <1>4, SeeKeepsPeers, OtherKeysets DEF SeeMigration
<1>5. ASSUME NEW s \in Servers, Revoke(s) PROVE BackupInv'
  BY <1>5, RevokeKeepsPeers, OtherKeysets DEF Revoke
<1>6. ASSUME NEW s \in Servers, Expect(s) PROVE BackupInv'
  BY <1>6, ExpectKeepsPeers, OtherKeysets DEF Expect
<1>7. ASSUME NEW s \in Servers,
             (\E k \in 1 .. secrets : Accept(s, k)) \/ Authenticate(s) \/ Disconnect(s)
      PROVE  BackupInv'
  <2>1. UNCHANGED <<chain, adopted, newShares>>
    BY <1>7 DEF Accept, Authenticate, Disconnect, SetLink
  <2> QED BY <1>7, <2>1, LinksKeepPeers, OtherKeysets
<1>8. ASSUME NEW k \in EncryptionKeys, GetKeyshares(k) \/ PutKeyshares(k) PROVE BackupInv'
  BY <1>8, OtherKeysets, OtherPeers DEF GetKeyshares, PutKeyshares
<1>9. CASE Import
  BY <1>9, ImportKeepsKeysets, OtherPeers DEF Import
<1>10. CASE UNCHANGED backupVars
  BY <1>10, OtherKeysets, OtherPeers DEF backupVars
<1> QED BY <1>1, <1>2, <1>3, <1>4, <1>5, <1>6, <1>7, <1>8, <1>9, <1>10 DEF BackupNext

\* What the new node stores is one whole keyset the contract has been Running
\* with, and an open connection belongs to the expected backup service or has
\* a cancelled token (migration_service/web, keyshare.rs, backup-cli).
THEOREM BackupsSoundAlways == BackupSpec => []BackupsSound
<1>1. BackupInit => BackupInv
  BY BackupInitially
<1>2. BackupInv /\ [BackupNext]_backupVars => BackupInv'
  BY BackupSteps
<1>3. BackupInv => BackupsSound
  BY DEF BackupInv, KeysetsInv, PeersInv, TokenInv, LinkInv, BackupsSound, NoStaleConnection,
         TokensSound
<1> QED BY <1>1, <1>2, <1>3, PTL DEF BackupSpec

-----------------------------------------------------------------------------
(***************************************************************************)
(* Foreign transactions: one of the signers asked an honest provider, and  *)
(* what it was told, and checked, stays true.                              *)
(***************************************************************************)

\* v is a place the transaction has had, with what the request asks for; if
\* the request is for finality, the transaction stays there.
Settled(v, w, been) ==
  /\ v \in been /\ TransactionSuccess(v) /\ ExtractValue(v)
  /\ request.finality = "final" => v = w.place /\ v.block <= w.final

WorldOK(w, been) ==
  /\ w = [head |-> w.head, final |-> w.final, place |-> w.place]
  /\ w.head \in Nat /\ w.final \in Nat /\ been \subseteq Places
  /\ w.place = Nowhere \/ w.place \in been
  /\ request.chain = "Bitcoin" => w.head + 1 - Depth <= w.final

\* The provider of an inspection is the one its node selects among the names.
Asked(n, x) ==
  /\ x.names \in Seq(Urls) /\ Len(x.names) \in 1..MaxProviders
  /\ x.provider = Trim[x.names[SelectProvider(Len(x.names), IndexOf(n))]]

IsInspection(x) ==
  x = [step |-> x.step, provider |-> x.provider, names |-> x.names, height |-> x.height,
       value |-> x.value]

InspectionOK(n, x, w, been) ==
  /\ IsInspection(x)
  /\ x.step \in {"block", "receipt", "done"} => Asked(n, x)
  /\ (x.step = "receipt" /\ request.chain = "Abstract" /\ request.finality = "final") =>
       x.height \in Nat /\ x.height <= w.final
  /\ (x.step = "done" /\ x.provider \notin Faulty) => Settled(x.value, w, been)

SignedOK(all, w, been) == \A s \in all : Trustworthy(s) => Settled(s.value, w, been)

InspectionsOK(all, w, been) ==
  /\ all = [n \in Inspectors |-> all[n]]
  /\ \A n \in Inspectors : InspectionOK(n, all[n], w, been)

ShuffleOK == \A n \in 1..MaxProviders : shuffle[n] \in Shuffles(n)

ForeignInv ==
  /\ WorldOK(world, places) /\ InspectionsOK(inspections, world, places)
  /\ SignedOK(signed, world, places)
  /\ configs \in [Inspectors -> Configs] /\ ShuffleOK

\* An inspection that has not begun.
LEMMA IdleOK ==
  ASSUME NEW n, NEW w, NEW been, NEW step \in {"idle", "checking"}
  PROVE  InspectionOK(n, [NoInspection EXCEPT !.step = step], w, been)
BY DEF InspectionOK, IsInspection, NoInspection

\* A node that has not begun has nothing to show.
LEMMA NoneOK ==
  ASSUME NEW w, NEW been
  PROVE  InspectionsOK([m \in Inspectors |-> NoInspection], w, been)
<1>1. NoInspection = [NoInspection EXCEPT !.step = "idle"]
  BY DEF NoInspection
<1>2. \A n : InspectionOK(n, NoInspection, w, been)
  BY <1>1, IdleOK
<1> QED BY <1>2 DEF InspectionsOK

\* It holds at the start.
LEMMA ForeignInitially == ASSUME ForeignInit PROVE ForeignInv
<1>1. WorldOK(world, places)
  BY ForeignChainsAssumption DEF ForeignInit, WorldOK
<1>2. InspectionsOK(inspections, world, places)
  BY NoneOK DEF ForeignInit
<1>3. SignedOK(signed, world, places) /\ configs \in [Inspectors -> Configs] /\ ShuffleOK
  BY DEF ForeignInit, SignedOK, ShuffleOK
<1> QED BY <1>1, <1>2, <1>3 DEF ForeignInv

\* What the foreign chain does leaves settled places as they are.
LEMMA WorldMoves ==
  ASSUME ForeignInv, Mine \/ Include \/ Finalize
  PROVE  /\ WorldOK(world', places') /\ world'.final >= world.final
         /\ \A v : Settled(v, world, places) => Settled(v, world', places')
<1>1. PICK w, been, new, next :
        w = world /\ been = places /\ new = world' /\ next = places'
  OBVIOUS
<1>2. /\ w = [head |-> w.head, final |-> w.final, place |-> w.place]
      /\ w.head \in Nat /\ w.final \in Nat /\ Depth \in Nat \ {0} /\ been \subseteq Places
      /\ (w.place = Nowhere \/ w.place \in been)
  BY <1>1, ForeignChainsAssumption DEF ForeignInv, WorldOK
<1>3. request.chain = "Bitcoin" => w.head + 1 - Depth <= w.final
  BY <1>1 DEF ForeignInv, WorldOK
<1>4. \A v \in Places : v.block \in Int /\ v.block >= 1
  BY ForeignChainsAssumption DEF Places
<1>5. CASE Mine
  <2>1. new = [head |-> w.head + 1, final |-> w.final, place |-> w.place] /\ next = been
    BY <1>1, <1>2, <1>5 DEF Mine
  <2>2. request.chain = "Bitcoin" => w.head + 1 - Depth < w.final
    BY <1>1, <1>5 DEF Mine
  <2>3. /\ new = [head |-> new.head, final |-> new.final, place |-> new.place]
        /\ new.head = w.head + 1 /\ new.final = w.final /\ new.place = w.place
    BY <2>1
  <2>4. WorldOK(new, next)
    BY <1>2, <1>3, <2>1, <2>2, <2>3 DEF WorldOK
  <2>5. \A v : Settled(v, w, been) => Settled(v, new, next)
    BY <2>1, <2>3 DEF Settled
  <2> QED BY <1>1, <1>2, <2>3, <2>4, <2>5
<1>6. CASE Finalize
  <2>1. new = [head |-> w.head, final |-> w.final + 1, place |-> w.place] /\ next = been
    BY <1>1, <1>2, <1>6 DEF Finalize
  <2>2. /\ new = [head |-> new.head, final |-> new.final, place |-> new.place]
        /\ new.head = w.head /\ new.final = w.final + 1 /\ new.place = w.place
    BY <2>1
  <2>3. WorldOK(new, next)
    BY <1>2, <1>3, <2>1, <2>2 DEF WorldOK
  <2>4. \A v : Settled(v, w, been) => Settled(v, new, next)
    BY <1>2, <1>4, <2>1, <2>2 DEF Settled
  <2> QED BY <1>1, <1>2, <2>2, <2>3, <2>4
<1>7. CASE Include
  <2>1. PICK p \in Places : new = [w EXCEPT !.place = p] /\ next = been \union {p}
    BY <1>1, <1>7 DEF Include
  <2>2. /\ new = [head |-> new.head, final |-> new.final, place |-> new.place]
        /\ new.head = w.head /\ new.final = w.final /\ new.place = p
    BY <1>2, <2>1
  <2>3. WorldOK(new, next)
    BY <1>2, <1>3, <2>1, <2>2 DEF WorldOK
  <2>4. w.place.block = 0 \/ w.place.block > w.final
    BY <1>1, <1>7 DEF Include
  <2>5. ASSUME NEW v, Settled(v, w, been) PROVE Settled(v, new, next)
    <3>1. v \in Places /\ v \in next
      BY <1>2, <2>1, <2>5 DEF Settled
    <3>2. ASSUME request.finality = "final" PROVE FALSE
      <4>1. v = w.place /\ v.block <= w.final
        BY <2>5, <3>2 DEF Settled
      <4> QED BY <1>2, <1>4, <2>4, <3>1, <4>1
    <3> QED BY <2>5, <3>1, <3>2 DEF Settled
  <2> QED BY <1>1, <1>2, <2>2, <2>3, <2>5
<1> QED BY <1>5, <1>6, <1>7

\* The foreign chain grows, includes the transaction or finalizes a block.
LEMMA WorldKeeps ==
  ASSUME ForeignInv, Mine \/ Include \/ Finalize
  PROVE  ForeignInv'
<1>1. UNCHANGED <<request, shuffle, inspections, signed, configs>>
  BY DEF Mine, Include, Finalize
<1>2. /\ WorldOK(world', places') /\ world'.final >= world.final
      /\ \A v : Settled(v, world, places) => Settled(v, world', places')
  BY WorldMoves
<1>3. world.final \in Nat /\ world'.final \in Nat
  BY <1>2 DEF ForeignInv, WorldOK
<1>4. ASSUME NEW n \in Inspectors PROVE InspectionOK(n, inspections[n], world', places')
  BY <1>2, <1>3 DEF ForeignInv, InspectionsOK, InspectionOK
<1>5. InspectionsOK(inspections, world', places') /\ SignedOK(signed, world', places')
  BY <1>2, <1>4 DEF ForeignInv, InspectionsOK, SignedOK
<1>6. WorldOK(world, places)'
  BY <1>1, <1>2 DEF WorldOK
<1>7. InspectionsOK(inspections, world, places)' /\ SignedOK(signed, world, places)'
  BY <1>1, <1>5 DEF InspectionsOK, InspectionOK, Asked, SelectProvider, SignedOK, Settled,
                    TransactionSuccess, ExtractValue
<1>8. ShuffleOK'
  BY <1>1 DEF ForeignInv, ShuffleOK
<1> QED BY <1>1, <1>6, <1>7, <1>8 DEF ForeignInv

\* A step of the signers, while the chain stands still.
LEMMA SignersKeep ==
  ASSUME ForeignInv, UNCHANGED <<request, shuffle, world, places>>,
         configs' \in [Inspectors -> Configs],
         InspectionsOK(inspections', world, places), SignedOK(signed', world, places)
  PROVE  ForeignInv'
<1>1. WorldOK(world, places)'
  BY DEF ForeignInv, WorldOK
<1>2. InspectionsOK(inspections, world, places)' /\ SignedOK(signed, world, places)'
  BY DEF InspectionsOK, InspectionOK, Asked, SelectProvider, SignedOK, Settled,
         TransactionSuccess, ExtractValue
<1>3. ShuffleOK'
  BY DEF ForeignInv, ShuffleOK
<1> QED BY <1>1, <1>2, <1>3 DEF ForeignInv

\* One signer's inspection goes on.
LEMMA InspectionKeeps ==
  ASSUME ForeignInv, NEW n \in Inspectors, NEW x, InspectionStep(n, x),
         InspectionOK(n, x, world, places)
  PROVE  ForeignInv'
<1>1. inspections' = [inspections EXCEPT ![n] = x]
      /\ UNCHANGED <<request, shuffle, world, places, configs, signed>>
  BY DEF InspectionStep
<1>2. inspections = [m \in Inspectors |-> inspections[m]]
  BY DEF ForeignInv, InspectionsOK
<1>3. /\ inspections' = [m \in Inspectors |-> inspections'[m]]
      /\ \A m \in Inspectors : inspections'[m] = IF m = n THEN x ELSE inspections[m]
  BY <1>1, <1>2
<1>4. InspectionsOK(inspections', world, places)
  BY <1>3 DEF ForeignInv, InspectionsOK
<1> QED BY <1>1, <1>4, SignersKeep DEF ForeignInv

\* What a step of an inspection writes.
WithProvider(x, step, names, provider) ==
  [x EXCEPT !.step = step, !.names = names, !.provider = provider]
WithHeight(x, height) == [x EXCEPT !.step = "receipt", !.height = height]
WithValue(x, value) == [x EXCEPT !.step = "done", !.value = value]

\* What choosing a provider writes.
LEMMA ProviderWritten ==
  ASSUME NEW x, IsInspection(x), NEW step, NEW names, NEW provider
  PROVE  WithProvider(x, step, names, provider)
           = [step |-> step, provider |-> provider, names |-> names, height |-> x.height,
              value |-> x.value]
<1> DEFINE y == [x EXCEPT !.step = step]
           z == [y EXCEPT !.names = names]
<1>1. y = [step |-> step, provider |-> x.provider, names |-> x.names, height |-> x.height,
           value |-> x.value]
  BY DEF IsInspection
<1>2. WithProvider(x, step, names, provider) = [z EXCEPT !.provider = provider]
  BY DEF WithProvider
<1> HIDE DEF y
<1>3. z = [step |-> step, provider |-> x.provider, names |-> names, height |-> x.height,
           value |-> x.value]
  BY <1>1
<1> HIDE DEF z
<1>4. [z EXCEPT !.provider = provider]
        = [step |-> step, provider |-> provider, names |-> names, height |-> x.height,
           value |-> x.value]
  BY <1>3
<1> QED BY <1>2, <1>4

\* What the answer on the height writes.
LEMMA HeightWritten ==
  ASSUME NEW x, IsInspection(x), NEW height
  PROVE  WithHeight(x, height)
           = [step |-> "receipt", provider |-> x.provider, names |-> x.names, height |-> height,
              value |-> x.value]
<1> DEFINE y == [x EXCEPT !.step = "receipt"]
<1>1. y = [step |-> "receipt", provider |-> x.provider, names |-> x.names, height |-> x.height,
           value |-> x.value]
  BY DEF IsInspection
<1>2. WithHeight(x, height) = [y EXCEPT !.height = height]
  BY DEF WithHeight
<1> HIDE DEF y
<1>3. [y EXCEPT !.height = height]
        = [step |-> "receipt", provider |-> x.provider, names |-> x.names, height |-> height,
           value |-> x.value]
  BY <1>1
<1> QED BY <1>2, <1>3

\* What the answer on the transaction writes.
LEMMA ValueWritten ==
  ASSUME NEW x, IsInspection(x), NEW value
  PROVE  WithValue(x, value)
           = [step |-> "done", provider |-> x.provider, names |-> x.names, height |-> x.height,
              value |-> value]
<1> DEFINE y == [x EXCEPT !.step = "done"]
<1>1. y = [step |-> "done", provider |-> x.provider, names |-> x.names, height |-> x.height,
           value |-> x.value]
  BY DEF IsInspection
<1>2. WithValue(x, value) = [y EXCEPT !.value = value]
  BY DEF WithValue
<1> HIDE DEF y
<1>3. [y EXCEPT !.value = value]
        = [step |-> "done", provider |-> x.provider, names |-> x.names, height |-> x.height,
           value |-> value]
  BY <1>1
<1> QED BY <1>2, <1>3

\* execute_foreign_chain_request selects its provider.
LEMMA StartKeeps ==
  ASSUME ForeignInv, NEW n \in Inspectors, StartInspection(n)
  PROVE  ForeignInv'
<1>1. PICK names, step, provider, old, x :
        /\ names = configs[n][request.chain] /\ old = inspections[n]
        /\ step = (IF request.chain = "Abstract" THEN "block" ELSE "receipt")
        /\ provider = Trim[names[SelectProvider(Len(names), IndexOf(n))]]
        /\ x = WithProvider(old, step, names, provider)
  OBVIOUS
<1>2. InspectionStep(n, x)
  BY <1>1 DEF StartInspection, WithProvider
<1>3. names \in Seq(Urls) /\ Len(names) \in 1..MaxProviders
  <2>1. request.chain \in DOMAIN configs[n] /\ configs[n] \in Configs
    BY DEF ForeignInv, StartInspection, ValidateForeignChainPolicy, ToPolicy
  <2> QED BY <1>1, <2>1, ForeignChainsAssumption
<1>4. IsInspection(old)
  BY <1>1 DEF ForeignInv, InspectionsOK, InspectionOK
<1>5. x = [step |-> step, provider |-> provider, names |-> names, height |-> old.height,
           value |-> old.value]
  BY <1>1, <1>4, ProviderWritten
<1>6. /\ IsInspection(x) /\ x.step = step /\ x.provider = provider /\ x.names = names
  BY <1>5 DEF IsInspection
<1>7. Asked(n, x)
  BY <1>1, <1>3, <1>6 DEF Asked
<1>8. InspectionOK(n, x, world, places)
  BY <1>1, <1>6, <1>7 DEF InspectionOK
<1> QED BY <1>2, <1>8, InspectionKeeps

\* The first request of an inspection.
LEMMA BlockKeeps ==
  ASSUME ForeignInv, NEW n \in Inspectors, GetBlockByNumber(n)
  PROVE  ForeignInv'
<1>1. PICK latest, old, x :
        /\ latest = (IF request.finality = "final" THEN world.final ELSE world.head)
        /\ old = inspections[n] /\ x = WithHeight(old, latest)
  OBVIOUS
<1>2. InspectionStep(n, x) /\ old.step = "block"
  BY <1>1 DEF GetBlockByNumber, WithHeight
<1>3. InspectionOK(n, old, world, places) /\ world.final \in Nat
  BY <1>1 DEF ForeignInv, InspectionsOK, WorldOK
<1>4. IsInspection(old) /\ Asked(n, old)
  BY <1>2, <1>3 DEF InspectionOK, IsInspection
<1>5. x = [step |-> "receipt", provider |-> old.provider, names |-> old.names,
           height |-> latest, value |-> old.value]
  BY <1>1, <1>4, HeightWritten
<1>6. /\ IsInspection(x) /\ x.step = "receipt" /\ x.provider = old.provider
      /\ x.names = old.names /\ x.height = latest
  BY <1>5 DEF IsInspection
<1>7. Asked(n, x)
  BY <1>4, <1>6 DEF Asked
<1>8. InspectionOK(n, x, world, places)
  BY <1>1, <1>3, <1>6, <1>7 DEF InspectionOK
<1> QED BY <1>2, <1>8, InspectionKeeps

\* An honest provider's answer that passes is settled.
LEMMA HonestAnswer ==
  ASSUME ForeignInv, NEW n \in Inspectors, inspections[n].step = "receipt",
         world.place # Nowhere, FinalityOk(n, world.place),
         TransactionSuccess(world.place), ExtractValue(world.place)
  PROVE  Settled(world.place, world, places)
<1>1. /\ world.place \in places /\ world.place.block \in Int
      /\ world.head \in Nat /\ world.final \in Nat /\ Depth \in Nat
  BY ForeignChainsAssumption DEF ForeignInv, WorldOK, Places
<1>2. request.chain = "Bitcoin" => world.head + 1 - Depth <= world.final
  BY DEF ForeignInv, WorldOK
<1>3. (request.chain = "Abstract" /\ request.finality = "final") =>
         inspections[n].height \in Nat /\ inspections[n].height <= world.final
  BY DEF ForeignInv, InspectionsOK, InspectionOK
<1>4. request.finality = "final" => world.place.block <= world.final
  BY <1>1, <1>2, <1>3 DEF FinalityOk, EnoughConfirmations
<1> QED BY <1>1, <1>4 DEF Settled

\* The second request.
LEMMA ReceiptKeeps ==
  ASSUME ForeignInv, NEW n \in Inspectors, GetReceipt(n)
  PROVE  ForeignInv'
<1>1. PICK old : old = inspections[n]
  OBVIOUS
<1>2. PICK v \in (IF old.provider \in Faulty THEN Places ELSE {world.place}) :
        /\ v # Nowhere /\ (old.provider \in Faulty \/ FinalityOk(n, v))
        /\ TransactionSuccess(v) /\ ExtractValue(v)
        /\ InspectionStep(n, WithValue(old, v))
  BY <1>1 DEF GetReceipt, WithValue
<1>3. InspectionOK(n, old, world, places) /\ old.step = "receipt"
  BY <1>1 DEF ForeignInv, InspectionsOK, GetReceipt
<1>4. IsInspection(old) /\ Asked(n, old)
  BY <1>3 DEF InspectionOK, IsInspection
<1>5. PICK x : x = WithValue(old, v)
  OBVIOUS
<1>6. x = [step |-> "done", provider |-> old.provider, names |-> old.names,
           height |-> old.height, value |-> v]
  BY <1>4, <1>5, ValueWritten
<1>7. /\ IsInspection(x) /\ x.step = "done" /\ x.provider = old.provider
      /\ x.names = old.names /\ x.value = v
  BY <1>6 DEF IsInspection
<1>8. old.provider \notin Faulty => Settled(v, world, places)
  BY <1>1, <1>2, <1>3, HonestAnswer
<1>9. Asked(n, x)
  BY <1>4, <1>7 DEF Asked
<1>10. InspectionOK(n, x, world, places)
  BY <1>7, <1>8, <1>9 DEF InspectionOK
<1> QED BY <1>2, <1>5, <1>10, InspectionKeeps

-----------------------------------------------------------------------------
(* Not all providers that were asked are faulty. *)

\* Different names of a list have different urls, if it has as many urls.
LEMMA UrlsDiffer ==
  ASSUME NEW names \in Seq(Urls), Cardinality(ProvidersToSet(names)) = Len(names),
         NEW i \in 1..Len(names), NEW j \in 1..Len(names), Trim[names[i]] = Trim[names[j]]
  PROVE  i = j
<1> DEFINE f == [k \in 1..Len(names) |-> Trim[names[k]]]
<1>1. f \in Surjection(1..Len(names), ProvidersToSet(names))
  BY DEF Surjection, ProvidersToSet
<1>2. IsFiniteSet(1..Len(names)) /\ Cardinality(1..Len(names)) = Len(names)
  <2>1. Len(names) \in Nat
    OBVIOUS
  <2>2. /\ IsFiniteSet(1..Len(names))
        /\ Cardinality(1..Len(names)) = IF 1 > Len(names) THEN 0 ELSE Len(names) - 1 + 1
    BY <2>1, FS_Interval
  <2> QED BY <2>1, <2>2
<1>3. f \in Injection(1..Len(names), ProvidersToSet(names))
  BY <1>1, <1>2, FS_SurjSameCardinalityImpliesInj
<1>4. f[i] = f[j]
  OBVIOUS
<1> HIDE DEF f
<1> QED BY <1>3, <1>4 DEF Injection, IsInjective

\* There are no more signers than places in their list.
LEMMA SignersCount == IsFiniteSet(Inspectors) /\ Cardinality(Inspectors) <= Len(Signers)
<1> DEFINE f == [k \in 1..Len(Signers) |-> Signers[k]]
<1>1. f \in Surjection(1..Len(Signers), Inspectors)
  BY DEF Surjection, Inspectors
<1>2. Len(Signers) \in Nat
  BY ForeignChainsAssumption
<1>3. IsFiniteSet(1..Len(Signers)) /\ Cardinality(1..Len(Signers)) = Len(Signers)
  <2>1. /\ IsFiniteSet(1..Len(Signers))
        /\ Cardinality(1..Len(Signers)) = IF 1 > Len(Signers) THEN 0 ELSE Len(Signers) - 1 + 1
    BY <1>2, FS_Interval
  <2> QED BY <1>2, <2>1
<1> QED BY <1>1, <1>3, FS_Surjection

\* If all signers have the names of a trustworthy list, one of them asked an
\* honest provider.
LEMMA OneHonest ==
  ASSUME ShuffleOK, NEW names \in Seq(Urls), Len(names) \in 1..MaxProviders,
         Cardinality(ProvidersToSet(names)) = Len(names),
         Cardinality(ProvidersToSet(names) \intersect Faulty) < Len(names),
         Cardinality(ProvidersToSet(names) \intersect Faulty) < Cardinality(Inspectors)
  PROVE  \E n \in Inspectors : Trim[names[SelectProvider(Len(names), IndexOf(n))]] \notin Faulty
<1>1. SUFFICES ASSUME \A n \in Inspectors :
                        Trim[names[SelectProvider(Len(names), IndexOf(n))]] \in Faulty
               PROVE  FALSE
  OBVIOUS
<1>2. PICK len, most : /\ len = Len(names) /\ len \in Nat \ {0}
                       /\ most = (IF len < Len(Signers) THEN len ELSE Len(Signers))
  OBVIOUS
<1>3. most \in Nat /\ most <= len /\ most <= Len(Signers) /\ most \in {len, Len(Signers)}
  BY <1>2, ForeignChainsAssumption
<1>4. /\ shuffle[len] \in [1..len -> 1..len]
      /\ \A i, j \in 1..len : shuffle[len][i] = shuffle[len][j] => i = j
  BY <1>2 DEF ShuffleOK, Shuffles
<1> DEFINE bad == ProvidersToSet(names) \intersect Faulty
           asked == [i \in 1..most |-> Trim[names[shuffle[len][i]]]]
<1>5. ASSUME NEW i \in 1..most
      PROVE  /\ Signers[i] \in Inspectors /\ IndexOf(Signers[i]) = i
             /\ SelectProvider(len, i) = shuffle[len][i] /\ shuffle[len][i] \in 1..len
  <2>1. i \in 1..Len(Signers) /\ i \in 1..len
    BY <1>2, <1>3, ForeignChainsAssumption
  <2>2. Signers[i] \in Inspectors /\ IndexOf(Signers[i]) = i
    BY <2>1, ForeignChainsAssumption DEF Inspectors, IndexOf
  <2>3. (i - 1) % len = i - 1
    BY <1>2, <2>1
  <2>4. SelectProvider(len, i) = shuffle[len][i]
    BY <2>1, <2>3 DEF SelectProvider
  <2> QED BY <1>4, <2>1, <2>2, <2>4
<1>6. ASSUME NEW i \in 1..most PROVE asked[i] \in bad
  <2>1. asked[i] = Trim[names[shuffle[len][i]]] /\ shuffle[len][i] \in 1..Len(names)
    BY <1>2, <1>5
  <2>2. asked[i] \in ProvidersToSet(names)
    BY <2>1 DEF ProvidersToSet
  <2>3. asked[i] \in Faulty
    BY <1>1, <1>2, <1>5, <2>1
  <2> QED BY <2>2, <2>3
<1>7. ASSUME NEW i \in 1..most, NEW j \in 1..most, asked[i] = asked[j] PROVE i = j
  <2>1. shuffle[len][i] = shuffle[len][j]
    BY <1>2, <1>5, <1>7, UrlsDiffer
  <2>2. i \in 1..len /\ j \in 1..len
    BY <1>2, <1>3
  <2> QED BY <1>4, <2>1, <2>2
<1>8. asked \in Injection(1..most, bad)
  <2>1. asked \in [1..most -> bad]
    BY <1>6
  <2> HIDE DEF asked, bad
  <2> QED BY <1>7, <2>1 DEF Injection, IsInjective
<1>9. IsFiniteSet(bad)
  <2>1. IsFiniteSet(1..len)
    BY <1>2, FS_Interval
  <2> DEFINE f == [k \in 1..len |-> Trim[names[k]]]
  <2>2. f \in Surjection(1..len, ProvidersToSet(names))
    BY <1>2 DEF Surjection, ProvidersToSet
  <2>3. IsFiniteSet(ProvidersToSet(names))
    BY <2>1, <2>2, FS_Surjection
  <2> QED BY <2>3, FS_Subset
<1>10. Cardinality(1..most) = most
  BY <1>3, FS_Interval
<1>11. most <= Cardinality(bad) /\ Cardinality(bad) \in Nat
  BY <1>8, <1>9, <1>10, FS_Injection, FS_CardinalityType
<1>12. Cardinality(bad) < len /\ Cardinality(bad) < Cardinality(Inspectors)
  BY <1>2
<1>13. Cardinality(Inspectors) \in Nat /\ Cardinality(Inspectors) <= Len(Signers)
  BY SignersCount, FS_CardinalityType
<1> HIDE DEF bad
<1> QED BY <1>2, <1>3, <1>11, <1>12, <1>13, ForeignChainsAssumption

\* A payload is signed.
LEMMA SignKeeps ==
  ASSUME ForeignInv, SignPayload
  PROVE  ForeignInv'
<1> DEFINE values == {inspections[n].value : n \in Inspectors}
           names == {inspections[n].names : n \in Inspectors}
           s == [value |-> CHOOSE v \in values : TRUE, names |-> names]
<1>1. /\ inspections' = [n \in Inspectors |-> NoInspection]
      /\ UNCHANGED <<request, shuffle, world, places, configs>>
      /\ \A n \in Inspectors : inspections[n].step = "done"
      /\ signed' = signed \/ (Cardinality(values) = 1 /\ signed' = signed \union {s})
  BY DEF SignPayload
<1>2. InspectionsOK(inspections', world, places)
  BY <1>1, NoneOK
<1>3. ASSUME Cardinality(values) = 1, Trustworthy(s) PROVE Settled(s.value, world, places)
  <2>1. s.names = names /\ s.value = CHOOSE v \in values : TRUE
    OBVIOUS
  <2>2. PICK list \in names :
          /\ names = {list} /\ Cardinality(ProvidersToSet(list)) = Len(list)
          /\ Cardinality(ProvidersToSet(list) \intersect Faulty) < Len(list)
          /\ Cardinality(ProvidersToSet(list) \intersect Faulty) < Cardinality(Inspectors)
    BY <1>3, <2>1 DEF Trustworthy
  <2>3. \A n \in Inspectors : inspections[n].names = list /\ Asked(n, inspections[n])
    BY <1>1, <2>2 DEF ForeignInv, InspectionsOK, InspectionOK
  <2>4. list \in Seq(Urls) /\ Len(list) \in 1..MaxProviders
    BY <2>2, <2>3 DEF Asked
  <2>5. PICK n \in Inspectors : Trim[list[SelectProvider(Len(list), IndexOf(n))]] \notin Faulty
    BY <2>2, <2>4, OneHonest DEF ForeignInv
  <2>6. inspections[n].provider \notin Faulty
    BY <2>3, <2>5 DEF Asked
  <2>7. Settled(inspections[n].value, world, places)
    BY <1>1, <2>6 DEF ForeignInv, InspectionsOK, InspectionOK
  <2>8. IsFiniteSet(values)
    <3> DEFINE f == [m \in Inspectors |-> inspections[m].value]
    <3>1. f \in Surjection(Inspectors, values)
      BY DEF Surjection
    <3> QED BY <3>1, SignersCount, FS_Surjection
  <2>9. PICK v : values = {v}
    BY <1>3, <2>8, FS_Singleton
  <2>10. s.value = v /\ inspections[n].value = v
    BY <2>1, <2>9
  <2> QED BY <2>7, <2>10
<1>4. SignedOK(signed', world, places)
  <2> HIDE DEF s
  <2> QED BY <1>1, <1>3 DEF ForeignInv, SignedOK
<1> QED BY <1>1, <1>2, <1>4, SignersKeep DEF ForeignInv

\* Every step keeps the invariant.
LEMMA ForeignSteps == ASSUME ForeignInv, [ForeignNext]_foreignVars PROVE ForeignInv'
<1>1. CASE BeginAttempt
  <2>1. /\ inspections' = [n \in Inspectors |-> [NoInspection EXCEPT !.step = "checking"]]
        /\ UNCHANGED <<request, shuffle, world, places, configs, signed>>
    BY <1>1 DEF BeginAttempt
  <2>2. InspectionsOK(inspections', world, places)
    BY <2>1, IdleOK DEF InspectionsOK
  <2> QED BY <2>1, <2>2, SignersKeep DEF ForeignInv
<1>2. ASSUME NEW n \in Inspectors, MaybeVoteForeignChainPolicy(n) \/ VoteFails(n) PROVE ForeignInv'
  <2>1. UNCHANGED <<request, shuffle, world, places, configs, signed, inspections>>
    BY <1>2 DEF MaybeVoteForeignChainPolicy, VoteFails
  <2> QED BY <2>1, SignersKeep DEF ForeignInv
<1>3. ASSUME NEW n \in Inspectors, Reconfigure(n) \/ InspectionFails(n) PROVE ForeignInv'
  <2>1. /\ inspections' = [m \in Inspectors |-> NoInspection]
        /\ UNCHANGED <<request, shuffle, world, places, signed>>
    BY <1>3 DEF Reconfigure, InspectionFails
  <2>2. configs' \in [Inspectors -> Configs]
    BY <1>3 DEF ForeignInv, Reconfigure, InspectionFails
  <2> QED BY <2>1, <2>2, NoneOK, SignersKeep DEF ForeignInv
<1>4. CASE UNCHANGED foreignVars
  BY <1>4, SignersKeep DEF ForeignInv, foreignVars
<1> QED BY <1>1, <1>2, <1>3, <1>4, WorldKeeps, SignKeeps, StartKeeps, BlockKeeps, ReceiptKeeps
        DEF ForeignNext

\* What is signed about a foreign transaction is true for any signers,
\* providers, policies and reorganisations, if the signers name their
\* providers alike and fewer of these are faulty than are asked
\* (providers/verify_foreign_tx/sign.rs, foreign-chain-inspector).
THEOREM ForeignTxSoundAlways == ForeignSpec => []ForeignTxSound
<1>1. ForeignInit => ForeignInv
  BY ForeignInitially
<1>2. ForeignInv /\ [ForeignNext]_foreignVars => ForeignInv'
  BY ForeignSteps
<1>3. ForeignInv => ForeignTxSound
  BY DEF ForeignInv, SignedOK, Settled, ForeignTxSound
<1> QED BY <1>1, <1>2, <1>3, PTL DEF ForeignSpec

-----------------------------------------------------------------------------
(***************************************************************************)
(* The request queue: orders, ancestries, the tracker, the queue.          *)
(***************************************************************************)

(* Least and greatest elements, and sets in order. *)

\* The order < of the natural numbers is well founded, as a set of pairs.
LEMMA NatOrder == \E R : R = {ss \in Nat \X Nat : ss[1] < ss[2]} /\ IsWellFoundedOn(R, Nat)
<1>1. IsWellFoundedOn(OpToRel(<, Nat), Nat)
  BY NatLessThanWellFounded
<1> QED BY <1>1 DEF OpToRel

\* A non-empty set of natural numbers has a least element.
LEMMA LeastNat ==
  ASSUME NEW T \in SUBSET Nat, T # {}
  PROVE  \E n \in T : \A m \in T : n <= m
<1>1. PICK R : R = {ss \in Nat \X Nat : ss[1] < ss[2]} /\ IsWellFoundedOn(R, Nat)
  BY NatOrder
<1>2. PICK x \in T : \A y \in T : ~ (<<y, x>> \in R)
  BY <1>1, WFMin, Zenon
<1>3. ASSUME NEW y \in T PROVE x <= y
  <2>1. ~ (<<y, x>> \in R) BY <1>2
  <2>2. x \in Nat /\ y \in Nat OBVIOUS
  <2>3. y < x => <<y, x>> \in R
    <3>1. <<y, x>> \in Nat \X Nat /\ <<y, x>>[1] = y /\ <<y, x>>[2] = x BY <2>2
    <3> QED BY <3>1, <1>1
  <2> QED BY <2>1, <2>2, <2>3
<1> QED BY <1>3

\* A non-empty set of natural numbers with a bound has a greatest element.
LEMMA MaxOfBounded ==
  ASSUME NEW T \in SUBSET Nat, T # {}, NEW N \in Nat, \A m \in T : m <= N
  PROVE  Max(T) \in T /\ \A m \in T : m <= Max(T)
<1> DEFINE U == {k \in Nat : \E m \in T : k = N - m}
<1>1. U \in SUBSET Nat /\ \A m \in T : N - m \in U BY DEF U
<1>2. PICK u \in U : \A k \in U : u <= k
  <2>1. U # {} BY <1>1
  <2> HIDE DEF U
  <2> QED BY <1>1, <2>1, LeastNat
<1>3. PICK n \in T : u = N - n BY DEF U
<1>4. ASSUME NEW m \in T PROVE n >= m
  <2>1. u <= N - m BY <1>1, <1>2
  <2>2. m \in Int /\ n \in Int OBVIOUS
  <2> QED BY <2>1, <2>2, <1>3
<1>5. Max(T) \in T /\ \A m \in T : Max(T) >= m BY <1>4 DEF Max
<1>6. PICK w : w = Max(T) OBVIOUS
<1>7. w \in T /\ \A m \in T : w >= m BY <1>5, <1>6
<1>8. w \in Int /\ \A m \in T : m \in Int BY <1>7
<1>9. \A m \in T : m <= w BY <1>7, <1>8
<1> QED BY <1>6, <1>7, <1>9

\* How many elements of A are at most as high as x.
Rank(A, f, x) == Cardinality({y \in A : f[y] <= f[x]})

\* Rank grows with the height.
LEMMA RankFacts ==
  ASSUME NEW A, IsFiniteSet(A), NEW f, \A x \in A : f[x] \in Nat
  PROVE  /\ \A x \in A : Rank(A, f, x) \in 1 .. Cardinality(A)
         /\ \A x, y \in A : f[x] < f[y] => Rank(A, f, x) < Rank(A, f, y)
<1>1. ASSUME NEW x \in A PROVE Rank(A, f, x) \in 1 .. Cardinality(A)
  <2> DEFINE S == {y \in A : f[y] <= f[x]}
  <2>1. S \in SUBSET A /\ x \in S OBVIOUS
  <2> HIDE DEF S
  <2>2. IsFiniteSet(S) /\ Cardinality(S) <= Cardinality(A) BY <2>1, FS_Subset
  <2>3. Cardinality(S) \in Nat /\ Cardinality(A) \in Nat BY <2>2, FS_CardinalityType
  <2>4. Cardinality(S) # 0 BY <2>1, <2>2, FS_EmptySet
  <2> QED BY <2>2, <2>3, <2>4 DEF Rank, S
<1>2. ASSUME NEW x \in A, NEW y \in A, f[x] < f[y] PROVE Rank(A, f, x) < Rank(A, f, y)
  <2> DEFINE S == {z \in A : f[z] <= f[x]}
             T == {z \in A : f[z] <= f[y]}
  <2>0. \A z \in A : f[z] \in Int OBVIOUS
  <2>1. S \in SUBSET T /\ y \in T /\ y \notin S /\ T \in SUBSET A BY <2>0, <1>2
  <2> HIDE DEF S, T
  <2>2. IsFiniteSet(T) BY <2>1, FS_Subset
  <2>3. Cardinality(S) <= Cardinality(T) /\ Cardinality(S) # Cardinality(T) /\ IsFiniteSet(S)
    BY <2>1, <2>2, FS_Subset
  <2>4. Cardinality(S) \in Nat /\ Cardinality(T) \in Nat BY <2>2, <2>3, FS_CardinalityType
  <2> QED BY <2>3, <2>4 DEF Rank, S, T
<1> QED BY <1>1, <1>2

\* A finite non-empty set of heights has a greatest one.
LEMMA MaxOfFinite ==
  ASSUME NEW A, IsFiniteSet(A), A # {}, NEW f, \A x \in A : f[x] \in Nat
  PROVE  /\ Max({f[x] : x \in A}) \in Nat
         /\ \A y \in A : f[y] <= Max({f[x] : x \in A})
<1> DEFINE T == {Rank(A, f, x) : x \in A}
<1>1. T \in SUBSET Nat /\ T # {} /\ \A k \in T : k <= Cardinality(A)
  BY RankFacts, FS_CardinalityType
<1>2. Cardinality(A) \in Nat BY FS_CardinalityType
<1> HIDE DEF T
<1>3. Max(T) \in T /\ \A k \in T : k <= Max(T) BY <1>1, <1>2, MaxOfBounded
<1>4. PICK p \in A : Max(T) = Rank(A, f, p) BY <1>3 DEF T
<1>5. \A x \in A : Rank(A, f, x) <= Rank(A, f, p) BY <1>3, <1>4 DEF T
<1>6. \A x \in A : f[x] <= f[p]
  <2> TAKE x \in A
  <2>1. Rank(A, f, x) \in Int /\ Rank(A, f, p) \in Int BY RankFacts
  <2>2. ~(f[p] < f[x]) BY <1>5, <2>1, RankFacts
  <2>3. f[x] \in Int /\ f[p] \in Int OBVIOUS
  <2> QED BY <2>2, <2>3
<1> DEFINE U == {f[x] : x \in A}
<1>7. U \in SUBSET Nat /\ U # {} /\ f[p] \in Nat /\ \A k \in U : k <= f[p] BY <1>6
<1> HIDE DEF U
<1>8. Max(U) \in U /\ \A k \in U : k <= Max(U) BY <1>7, MaxOfBounded
<1> QED BY <1>7, <1>8 DEF U

\* A finite set whose elements have different heights can be put in order.
LEMMA InOrder ==
  ASSUME NEW A, IsFiniteSet(A), NEW f, \A x \in A : f[x] \in Nat,
         \A x, y \in A : f[x] = f[y] => x = y
  PROVE  \E s \in [1 .. Cardinality(A) -> A] :
           /\ \A i, j \in DOMAIN s : i < j => f[s[i]] < f[s[j]]
<1> DEFINE n == Cardinality(A)
           rk == [x \in A |-> Rank(A, f, x)]
<1>0. n \in Nat BY FS_CardinalityType
<1>1. rk \in [A -> 1 .. n] BY RankFacts
<1>2. \A x, y \in A : rk[x] = rk[y] => x = y
  <2> TAKE x, y \in A
  <2>1. f[x] \in Int /\ f[y] \in Int OBVIOUS
  <2>2. Rank(A, f, x) \in Int /\ Rank(A, f, y) \in Int BY RankFacts
  <2>3. f[x] < f[y] => Rank(A, f, x) < Rank(A, f, y) BY RankFacts
  <2>4. f[y] < f[x] => Rank(A, f, y) < Rank(A, f, x) BY RankFacts
  <2> QED BY <2>1, <2>2, <2>3, <2>4
<1>3. rk \in Injection(A, 1 .. n) BY <1>1, <1>2 DEF Injection, IsInjective
<1>4. IsFiniteSet(1 .. n) /\ Cardinality(1 .. n) = n
  <2>1. Cardinality(1 .. n) = IF 1 > n THEN 0 ELSE n - 1 + 1 BY <1>0, FS_Interval
  <2> QED BY <1>0, <2>1, FS_Interval
<1> HIDE DEF rk
<1>5. rk \in Surjection(A, 1 .. n) BY <1>3, <1>4, FS_Injection
<1>6. \A i \in 1 .. n : \E x \in A : rk[x] = i BY <1>5 DEF Surjection
<1> DEFINE s == [i \in 1 .. n |-> CHOOSE x \in A : rk[x] = i]
<1>7. \A i \in 1 .. n : s[i] \in A /\ rk[s[i]] = i BY <1>6
<1>8. s \in [1 .. n -> A] BY <1>7
<1>9. ASSUME NEW i \in 1 .. n, NEW j \in 1 .. n, i < j PROVE f[s[i]] < f[s[j]]
  <2> PICK x, y : x = s[i] /\ y = s[j] OBVIOUS
  <2>1. x \in A /\ y \in A /\ rk[x] = i /\ rk[y] = j BY <1>7
  <2> HIDE DEF s
  <2>2. f[x] \in Int /\ f[y] \in Int BY <2>1
  <2>3. Rank(A, f, x) = i /\ Rank(A, f, y) = j BY <2>1 DEF rk
  <2>4. ~(f[y] < f[x]) BY <2>1, <2>3, <1>9, RankFacts
  <2>5. f[x] # f[y] BY <2>1, <1>9
  <2> QED BY <2>2, <2>4, <2>5
<1> QED BY <1>8, <1>9

-----------------------------------------------------------------------------
(* A block and its ancestors among the blocks of H, in the tree c. *)
Links(c, H, S) == \A x \in S : c[x].prev_hash \in H => c[x].prev_hash \in S
Anc(c, H, h) == {x \in H : \A S \in SUBSET H : h \in S /\ Links(c, H, S) => x \in S}

FinalHeight(c, fh) == IF fh = NoBlock THEN -1 ELSE c[fh].height

OnChain(c, H, ch) == IF ch = NoBlock THEN {} ELSE Anc(c, H, ch)

UpToFinal(c, F, fh) == {x \in F : c[x].height <= FinalHeight(c, fh)}

NodeOf(c, H, C, L, x) ==
  [height |-> c[x].height,
   parent |-> IF c[x].prev_hash \in H THEN c[x].prev_hash ELSE NoBlock,
   canonical |-> x \in C, is_final |-> x \in L]

(* The tracker that keeps the blocks of H, with these heads. *)
TrackerOf(c, F, H, ch, fh, m) ==
  [nodes |-> [x \in H |-> NodeOf(c, H, OnChain(c, H, ch), UpToFinal(c, F, fh), x)],
   canonical_head |-> ch, final_head |-> fh, maximum_height_available |-> m]

WStart(m) == SaturatingSub(m, WindowSize) + 1

MinKeep(c, fh, m) == IF fh = NoBlock THEN 0 ELSE Min({WStart(m), c[fh].height})

(* The heights of a tree grow along its branches. *)
Rises(c) ==
  /\ NoBlock \notin DOMAIN c
  /\ \A b \in DOMAIN c :
       /\ c[b].height \in Nat
       /\ c[b].prev_hash \in DOMAIN c => c[c[b].prev_hash].height < c[b].height

\* A block is in its own ancestry.
LEMMA AncSelf == ASSUME NEW c, NEW H, NEW h \in H
  PROVE  h \in Anc(c, H, h)
BY DEF Anc

\* The ancestry of a block is made of blocks kept.
LEMMA AncSub == ASSUME NEW c, NEW H, NEW h
  PROVE  Anc(c, H, h) \subseteq H
BY DEF Anc

\* The ancestry of a block contains the parents that are kept.
LEMMA AncClosed == ASSUME NEW c, NEW H, NEW h
  PROVE  Links(c, H, Anc(c, H, h))
BY DEF Anc, Links

\* The ancestry is the least set with the block and the parents.
LEMMA AncLeast == ASSUME NEW c, NEW H, NEW h, NEW S \in SUBSET H, h \in S, Links(c, H, S)
  PROVE  Anc(c, H, h) \subseteq S
BY DEF Anc

\* The ancestry of an ancestor is part of the ancestry.
LEMMA AncTrans == ASSUME NEW c, NEW H, NEW h, NEW x \in Anc(c, H, h)
  PROVE  Anc(c, H, x) \subseteq Anc(c, H, h)
BY AncSub, AncClosed, AncLeast

(* Every ancestor but the block itself is an ancestor of its parent. *)
LEMMA AncParent == ASSUME NEW c, NEW H, NEW h \in H, NEW x \in Anc(c, H, h), x # h
  PROVE  c[h].prev_hash \in H /\ x \in Anc(c, H, c[h].prev_hash)
<1> DEFINE p == c[h].prev_hash
           S == {h} \cup IF p \in H THEN Anc(c, H, p) ELSE {}
<1>1. S \in SUBSET H BY AncSub
<1>2. Links(c, H, S)
  <2>1. CASE p \in H BY <2>1, AncSelf, AncClosed DEF Links
  <2>2. CASE p \notin H BY <2>2 DEF Links
  <2> QED BY <2>1, <2>2
<1>3. h \in S OBVIOUS
<1> HIDE DEF S
<1>4. x \in S BY <1>1, <1>2, <1>3, AncLeast
<1> QED BY <1>4 DEF S

(* Ancestors are lower. *)
LEMMA AncLower == ASSUME NEW c, Rises(c), NEW H \in SUBSET DOMAIN c, NEW h \in H,
                         NEW x \in Anc(c, H, h)
  PROVE  c[x].height <= c[h].height /\ (x # h => c[x].height < c[h].height)
<1> DEFINE S == {y \in H : c[y].height <= c[h].height /\ (y # h => c[y].height < c[h].height)}
<1>1. S \in SUBSET H /\ h \in S BY DEF Rises
<1>2. Links(c, H, S) BY DEF Links, Rises
<1> HIDE DEF S
<1>3. x \in S BY <1>1, <1>2, AncLeast
<1> QED BY <1>3 DEF S

(* The ancestors of a block are on one line. *)
LEMMA AncLine == ASSUME NEW c, Rises(c), NEW H \in SUBSET DOMAIN c, NEW h \in H,
                        NEW x \in Anc(c, H, h), NEW y \in Anc(c, H, h)
  PROVE  x \in Anc(c, H, y) \/ y \in Anc(c, H, x)
<1> DEFINE S == {z \in Anc(c, H, h) : x \in Anc(c, H, z) \/ z \in Anc(c, H, x)}
<1>0. x \in H /\ y \in H /\ Anc(c, H, h) \in SUBSET H BY AncSub
<1>1. S \in SUBSET H /\ h \in S BY <1>0, AncSelf
<1>2. Links(c, H, S)
  <2> SUFFICES ASSUME NEW z \in S, c[z].prev_hash \in H
               PROVE  c[z].prev_hash \in S
    BY DEF Links
  <2> DEFINE p == c[z].prev_hash
  <2>1. p \in Anc(c, H, h) BY AncClosed DEF Links
  <2>2. CASE z \in Anc(c, H, x) BY <2>1, <2>2, AncClosed DEF Links
  <2>3. CASE x \in Anc(c, H, z) /\ x = z
    BY <2>1, <2>3, <1>0, AncSelf, AncClosed DEF Links
  <2>4. CASE x \in Anc(c, H, z) /\ x # z BY <2>1, <2>4, <1>0, AncParent
  <2> QED BY <2>2, <2>3, <2>4
<1> HIDE DEF S
<1>3. y \in S BY <1>1, <1>2, AncLeast
<1> QED BY <1>3 DEF S

\* Two ancestors of a block are ancestors of one another.
LEMMA AncBelow == ASSUME NEW c, Rises(c), NEW H \in SUBSET DOMAIN c, NEW h \in H,
                         NEW x \in Anc(c, H, h), NEW y \in Anc(c, H, h),
                         c[x].height <= c[y].height
  PROVE  x \in Anc(c, H, y)
<1>1. x \in H /\ y \in H BY AncSub
<1>2. c[x].height \in Nat /\ c[y].height \in Nat BY <1>1 DEF Rises
<1>3. CASE x \in Anc(c, H, y) BY <1>3
<1>4. CASE y \in Anc(c, H, x)
  <2>1. x = y BY <1>1, <1>2, <1>4, AncLower
  <2> QED BY <2>1, <1>1, AncSelf
<1> QED BY <1>3, <1>4, AncLine

(* A new block has no child, so it joins no other ancestry. *)
LEMMA AncNewBlock == ASSUME NEW c, NEW H, NEW b, b \notin H, NEW h \in H,
                            \A x \in H : c[x].prev_hash # b
  PROVE  Anc(c, H \cup {b}, h) = Anc(c, H, h)
<1>1. Links(c, H \cup {b}, Anc(c, H, h)) BY AncClosed, AncSub DEF Links
<1>2. Anc(c, H \cup {b}, h) \subseteq Anc(c, H, h) BY <1>1, AncSelf, AncSub, AncLeast
<1>3. Links(c, H, Anc(c, H \cup {b}, h)) BY AncClosed DEF Links
<1>4. Anc(c, H \cup {b}, h) \in SUBSET H BY <1>2, AncSub
<1>5. h \in Anc(c, H \cup {b}, h) BY AncSelf
<1> QED BY <1>2, <1>3, <1>4, <1>5, AncLeast

(* Without the lowest blocks, the ancestors that are left are the same. *)
LEMMA AncPruned == ASSUME NEW c, Rises(c), NEW H \in SUBSET DOMAIN c, NEW m \in Int,
                          NEW K, K = {x \in H : c[x].height >= m}, NEW h \in K
  PROVE  Anc(c, K, h) = Anc(c, H, h) \cap K
<1>1. K \in SUBSET H OBVIOUS
<1>2. Links(c, K, Anc(c, H, h) \cap K) BY <1>1, AncClosed DEF Links
<1>3. Anc(c, K, h) \subseteq Anc(c, H, h) \cap K
  BY <1>1, <1>2, AncSelf, AncLeast
<1> DEFINE S == Anc(c, K, h) \cup (H \ K)
<1>4. S \in SUBSET H /\ h \in S BY <1>1, AncSub, AncSelf
<1>5. Links(c, H, S)
  <2> SUFFICES ASSUME NEW z \in S, c[z].prev_hash \in H
               PROVE  c[z].prev_hash \in S
    BY DEF Links
  <2>1. CASE z \in Anc(c, K, h) BY <2>1, AncClosed DEF Links
  <2>2. CASE z \in H \ K
    <3>1. c[c[z].prev_hash].height < c[z].height BY <2>2 DEF Rises
    <3>2. c[c[z].prev_hash].height \in Nat /\ c[z].height \in Nat BY <2>2 DEF Rises
    <3>3. c[z].prev_hash \notin K BY <3>1, <3>2, <2>2
    <3> QED BY <3>3
  <2> QED BY <2>1, <2>2
<1>6. Anc(c, H, h) \subseteq S BY <1>4, <1>5, AncLeast, <1>1
<1> QED BY <1>3, <1>6
-----------------------------------------------------------------------------
(* The operations of the tracker, on trackers of this form. *)

\* The fields of the tracker that TrackerOf describes.
LEMMA TrackerFields == ASSUME NEW c, NEW F, NEW H, NEW ch, NEW fh, NEW m,
                              NEW t, t = TrackerOf(c, F, H, ch, fh, m)
  PROVE  /\ Hashes(t) = H /\ t.canonical_head = ch /\ t.final_head = fh
         /\ t.maximum_height_available = m
         /\ \A x \in H : /\ t.nodes[x] = NodeOf(c, H, OnChain(c, H, ch), UpToFinal(c, F, fh), x)
                         /\ HeightOf(t, x) = c[x].height
                         /\ t.nodes[x].canonical = (x \in OnChain(c, H, ch))
                         /\ t.nodes[x].is_final = (x \in UpToFinal(c, F, fh))
                         /\ t.nodes[x].parent = IF c[x].prev_hash \in H THEN c[x].prev_hash
                                                ELSE NoBlock
BY DEF TrackerOf, Hashes, HeightOf, NodeOf

\* The walk along parent links follows the links of the tree between blocks kept.
LEMMA TrackerAncestry == ASSUME NEW c, NEW F, NEW H, NEW ch, NEW fh, NEW m,
                                NEW t, t = TrackerOf(c, F, H, ch, fh, m), NEW h,
                                NoBlock \notin H
  PROVE  Ancestry(t, h) = Anc(c, H, h)
<1>1. Hashes(t) = H BY TrackerFields
<1>2. \A S \in SUBSET H : ParentClosed(t, S) <=> Links(c, H, S)
  <2> SUFFICES ASSUME NEW S \in SUBSET H
               PROVE  ParentClosed(t, S) <=> Links(c, H, S)
    OBVIOUS
  <2>1. \A x \in S : t.nodes[x].parent = IF c[x].prev_hash \in H THEN c[x].prev_hash
                                         ELSE NoBlock
    BY TrackerFields
  <2> QED BY <2>1 DEF ParentClosed, Links
<1> QED BY <1>1, <1>2 DEF Ancestry, Anc

\* The recent window and the lowest height kept, from the fields alone.
LEMMA TrackerWindow == ASSUME NEW c, NEW F, NEW H, NEW ch, NEW fh, NEW m,
                              NEW t, t = TrackerOf(c, F, H, ch, fh, m),
                              fh \in H \cup {NoBlock}
  PROVE  WindowStart(t) = WStart(m) /\ MinimumHeightToKeep(t) = MinKeep(c, fh, m)
<1>1. t.final_head = fh /\ t.maximum_height_available = m BY TrackerFields
<1>2. fh # NoBlock => HeightOf(t, fh) = c[fh].height BY TrackerFields
<1>3. WindowStart(t) = WStart(m) BY <1>1 DEF WindowStart, WStart
<1>4. CASE fh = NoBlock BY <1>1, <1>3, <1>4 DEF MinimumHeightToKeep, MinKeep
<1>5. CASE fh # NoBlock BY <1>1, <1>2, <1>3, <1>5 DEF MinimumHeightToKeep, MinKeep
<1> QED BY <1>3, <1>4, <1>5

\* The least and the greatest of two numbers.
LEMMA MinMaxOfTwo == ASSUME NEW a \in Int, NEW b \in Int
  PROVE  /\ Max({a, b}) = IF a >= b THEN a ELSE b
         /\ Min({a, b}) = IF a <= b THEN a ELSE b
<1>1. Max({a, b}) = IF a >= b THEN a ELSE b
  <2> DEFINE w == IF a >= b THEN a ELSE b
  <2>1. w \in {a, b} /\ \A y \in {a, b} : w >= y OBVIOUS
  <2>2. \A x \in {a, b} : (\A y \in {a, b} : x >= y) => x = w OBVIOUS
  <2> HIDE DEF w
  <2>3. Max({a, b}) = w BY <2>1, <2>2 DEF Max
  <2> QED BY <2>3 DEF w
<1>2. Min({a, b}) = IF a <= b THEN a ELSE b
  <2> DEFINE w == IF a <= b THEN a ELSE b
  <2>1. w \in {a, b} /\ \A y \in {a, b} : w <= y OBVIOUS
  <2>2. \A x \in {a, b} : (\A y \in {a, b} : x <= y) => x = w OBVIOUS
  <2> HIDE DEF w
  <2>3. Min({a, b}) = w BY <2>1, <2>2 DEF Min
  <2> QED BY <2>3 DEF w
<1> QED BY <1>1, <1>2

\* The start of the recent window is a number that rises with the greatest height.
LEMMA WStartFacts == ASSUME NEW m \in Nat
  PROVE  /\ WStart(m) \in Nat
         /\ \A k \in Nat : m <= k => WStart(m) <= WStart(k)
BY WindowAssumption DEF WStart, SaturatingSub

\* The lowest height kept is a number, and at most the start of the recent window.
LEMMA MinKeepFacts == ASSUME NEW c, Rises(c), NEW fh \in DOMAIN c \cup {NoBlock}, NEW m \in Nat
  PROVE  /\ MinKeep(c, fh, m) \in Nat
         /\ MinKeep(c, fh, m) <= WStart(m)
         /\ fh # NoBlock => MinKeep(c, fh, m) <= c[fh].height
         /\ \A k \in Nat, g \in DOMAIN c \cup {NoBlock} :
              m <= k /\ FinalHeight(c, fh) <= FinalHeight(c, g) =>
                MinKeep(c, fh, m) <= MinKeep(c, g, k)
<1>1. WStart(m) \in Nat /\ \A k \in Nat : WStart(k) \in Nat BY WStartFacts
<1>2. \A g \in DOMAIN c : c[g].height \in Nat /\ NoBlock \notin DOMAIN c BY DEF Rises
<1>3. \A k \in Nat, g \in DOMAIN c : MinKeep(c, g, k) = IF WStart(k) <= c[g].height
                                                        THEN WStart(k) ELSE c[g].height
  <2> TAKE k \in Nat, g \in DOMAIN c
  <2>1. g # NoBlock /\ MinKeep(c, g, k) = Min({WStart(k), c[g].height}) BY <1>2 DEF MinKeep
  <2>2. WStart(k) \in Int /\ c[g].height \in Int BY <1>1, <1>2
  <2> QED BY <2>1, <2>2, MinMaxOfTwo
<1>4. MinKeep(c, fh, m) \in Nat BY <1>1, <1>2, <1>3 DEF MinKeep
<1>5. MinKeep(c, fh, m) <= WStart(m) BY <1>1, <1>2, <1>3 DEF MinKeep
<1>6. fh # NoBlock => MinKeep(c, fh, m) <= c[fh].height BY <1>1, <1>2, <1>3
<1>7. ASSUME NEW k \in Nat, NEW g \in DOMAIN c \cup {NoBlock}, m <= k,
             FinalHeight(c, fh) <= FinalHeight(c, g)
      PROVE  MinKeep(c, fh, m) <= MinKeep(c, g, k)
  <2>0. WStart(m) <= WStart(k) /\ WStart(k) \in Nat BY <1>7, WStartFacts
  <2>1. CASE fh = NoBlock
    <3>1. MinKeep(c, fh, m) = 0 BY <2>1 DEF MinKeep
    <3>2. MinKeep(c, g, k) \in Nat BY <1>2, <1>3, <2>0 DEF MinKeep
    <3> QED BY <3>1, <3>2
  <2>2. CASE fh # NoBlock
    <3>1. g # NoBlock BY <2>2, <1>2, <1>7 DEF FinalHeight
    <3>2. c[fh].height <= c[g].height BY <3>1, <2>2, <1>7 DEF FinalHeight
    <3> QED BY <3>1, <3>2, <2>2, <2>0, <1>1, <1>2, <1>3
  <2> QED BY <2>1, <2>2
<1> QED BY <1>4, <1>5, <1>6, <1>7

(* Pruning keeps the upper blocks. *)
LEMMA PruneForm ==
  ASSUME NEW c, Rises(c), NEW F, NEW H \in SUBSET DOMAIN c, NEW ch \in H \cup {NoBlock},
         NEW fh \in H \cup {NoBlock}, NEW m \in Nat,
         NEW K, K = {x \in H : c[x].height >= MinKeep(c, fh, m)},
         ch \in K \cup {NoBlock}
  PROVE  PruneOldBlocks(TrackerOf(c, F, H, ch, fh, m)) = TrackerOf(c, F, K, ch, fh, m)
<1> DEFINE t == TrackerOf(c, F, H, ch, fh, m)
           L == UpToFinal(c, F, fh)
<1> HIDE DEF t
<1>0. t = TrackerOf(c, F, H, ch, fh, m) BY DEF t
<1>1. Hashes(t) = H /\ MinimumHeightToKeep(t) = MinKeep(c, fh, m)
  BY <1>0, TrackerFields, TrackerWindow
<1>2. {x \in Hashes(t) : HeightOf(t, x) >= MinimumHeightToKeep(t)} = K
  BY <1>0, <1>1, TrackerFields
<1>3. NoBlock \notin K BY DEF Rises
<1>4. \A x \in K : x \in OnChain(c, H, ch) <=> x \in OnChain(c, K, ch)
  <2>1. MinKeep(c, fh, m) \in Int BY MinKeepFacts
  <2>2. CASE ch = NoBlock BY <2>2 DEF OnChain
  <2>3. CASE ch # NoBlock
    <3>1. Anc(c, K, ch) = Anc(c, H, ch) \cap K BY <2>1, <2>3, AncPruned
    <3> QED BY <3>1, <2>3 DEF OnChain
  <2> QED BY <2>2, <2>3
<1>5. \A x \in K : [NodeOf(c, H, OnChain(c, H, ch), L, x) EXCEPT
                      !.parent = IF @ \in K THEN @ ELSE NoBlock]
                   = NodeOf(c, K, OnChain(c, K, ch), L, x)
  BY <1>3, <1>4 DEF NodeOf
<1>6. \A x \in K : t.nodes[x] = NodeOf(c, H, OnChain(c, H, ch), L, x)
  BY <1>0, TrackerFields
<1>7. [x \in K |-> [t.nodes[x] EXCEPT !.parent = IF @ \in K THEN @ ELSE NoBlock]]
       = [x \in K |-> NodeOf(c, K, OnChain(c, K, ch), L, x)]
  BY <1>5, <1>6
<1>8. PruneOldBlocks(t) = [t EXCEPT !.nodes =
           [x \in K |-> NodeOf(c, K, OnChain(c, K, ch), L, x)]]
  BY <1>2, <1>7 DEF PruneOldBlocks
<1> QED BY <1>8 DEF t, TrackerOf
-----------------------------------------------------------------------------
(* Finality. *)

FinalSet(c) == CHOOSE F \in SUBSET DOMAIN c : IsFinalChain(c, F)

\* A tree with its final blocks.
TreeOK(c, F) == Rises(c) /\ F \in SUBSET DOMAIN c /\ IsFinalChain(c, F)

\* A tree of blocks has a chain of final blocks; FinalSet is one.
LEMMA TreeFacts == ASSUME NEW c, IsBlockTree(c)
  PROVE  TreeOK(c, FinalSet(c))
<1>1. Rises(c) BY DEF IsBlockTree, Rises
<1>2. \E F \in SUBSET DOMAIN c : IsFinalChain(c, F) BY DEF IsBlockTree
<1>3. FinalSet(c) \in SUBSET DOMAIN c /\ IsFinalChain(c, FinalSet(c)) BY <1>2 DEF FinalSet
<1> QED BY <1>1, <1>3 DEF TreeOK

\* The walk down the final blocks from f passes x.
LEMMA FinalWalk ==
  ASSUME NEW c, NEW F, TreeOK(c, F), NEW S, NEW f \in S \cap F, NEW x \in F,
         c[x].height <= c[f].height,
         \A y \in S \cap F : c[x].height < c[y].height => c[y].prev_hash \in S
  PROVE  x \in S
<1> DEFINE T == {c[y].height : y \in {z \in S \cap F : c[x].height <= c[z].height}}
<1>0. \A y \in F : y \in DOMAIN c /\ c[y].height \in Nat BY DEF TreeOK, Rises
<1>1. T \in SUBSET Nat BY <1>0
<1>2. T # {} OBVIOUS
<1>3. PICK n \in T : \A m \in T : n <= m
  <2> HIDE DEF T
  <2> QED BY <1>1, <1>2, LeastNat
<1>4. PICK y \in S \cap F : c[x].height <= c[y].height /\ n = c[y].height OBVIOUS
<1>5. \A z \in S \cap F : c[x].height <= c[z].height => c[y].height <= c[z].height
  BY <1>3, <1>4
<1> HIDE DEF T
<1>6. CASE c[x].height = c[y].height
  <2>1. x = y BY <1>4, <1>6 DEF TreeOK, IsFinalChain
  <2> QED BY <2>1, <1>4
<1>7. CASE c[x].height < c[y].height
  <2> DEFINE p == c[y].prev_hash
  <2>1. p \in S BY <1>4, <1>7
  <2>2. p \in F /\ c[x].height <= c[p].height BY <1>4, <1>7 DEF TreeOK, IsFinalChain
  <2>3. c[y].height <= c[p].height BY <2>1, <2>2, <1>5
  <2>4. c[p].height < c[y].height BY <2>2, <1>0, <1>4 DEF TreeOK, Rises
  <2>5. c[p].height \in Nat /\ c[y].height \in Nat BY <2>2, <1>0, <1>4
  <2> QED BY <2>3, <2>4, <2>5
<1> QED BY <1>0, <1>4, <1>6, <1>7

\* Above the final head, the parent of a final block is kept (if it is final).
AboveHeadKept(c, F, H, fh) ==
  \A x \in F, y \in H \cap F :
    FinalHeight(c, fh) < c[x].height /\ c[x].height < c[y].height => c[y].prev_hash \in H

\* The blocks that become final with p.
FinalBetween(c, F, H, fh, p) ==
  {x \in F : p \in H /\ FinalHeight(c, fh) < c[x].height /\ c[x].height <= c[p].height}

\* The newly final blocks are the final ones above the old final head, up to the new one.
LEMMA NewlyFinalForm ==
  ASSUME NEW c, NEW F, TreeOK(c, F), NEW H \in SUBSET DOMAIN c, NEW ch,
         NEW fh \in (F \cap H) \cup {NoBlock}, NEW m,
         AboveHeadKept(c, F, H, fh), NEW p \in F \cup {NoBlock},
         NEW t, t = TrackerOf(c, F, H, ch, fh, m)
  PROVE  NewlyFinal(t, p) = FinalBetween(c, F, H, fh, p)
<1> DEFINE walk == Anc(c, H, p)
<1>0. Rises(c) /\ F \in SUBSET DOMAIN c /\ NoBlock \notin H BY DEF TreeOK, Rises
<1>h. \A x \in DOMAIN c : c[x].height \in Nat BY <1>0 DEF Rises
<1>f. FinalHeight(c, fh) \in Int BY <1>0, <1>h DEF FinalHeight
<1>1. Hashes(t) = H BY TrackerFields
<1>2. CASE p \notin H BY <1>1, <1>2 DEF NewlyFinal, FinalBetween
<1>3. CASE p \in H
  <2>1. Ancestry(t, p) = walk BY <1>0, TrackerAncestry
  <2>2. walk \subseteq H BY AncSub
  <2>3. \A x \in walk : /\ HeightOf(t, x) = c[x].height
                        /\ t.nodes[x].is_final = (x \in UpToFinal(c, F, fh))
    BY <2>2, TrackerFields
  <2>4. \A x : x \in NewlyFinal(t, p) <=>
          x \in walk /\ \A y \in walk : c[y].height >= c[x].height =>
                                          y \notin UpToFinal(c, F, fh)
    <3> HIDE DEF walk
    <3>1. NewlyFinal(t, p) = {x \in walk : \A y \in walk :
              HeightOf(t, y) >= HeightOf(t, x) => ~t.nodes[y].is_final}
      BY <1>1, <1>3, <2>1 DEF NewlyFinal
    <3> QED BY <3>1, <2>3
  <2>5. walk \subseteq F
    <3>1. Links(c, H, H \cap F) BY <1>0 DEF Links, TreeOK, IsFinalChain
    <3> QED BY <1>0, <1>3, <3>1, AncLeast
  <2>6. \A x \in walk : c[x].height <= c[p].height BY <1>0, <1>3, AncLower
  <2>7. p \in walk BY <1>3, AncSelf
  <2> HIDE DEF walk
  <2>8. ASSUME NEW x \in NewlyFinal(t, p) PROVE x \in FinalBetween(c, F, H, fh, p)
    <3>1. x \in walk /\ x \notin UpToFinal(c, F, fh) /\ x \in F
      BY <2>4, <2>8, <2>5, <1>h, <2>2
    <3>2. FinalHeight(c, fh) < c[x].height BY <3>1, <1>f, <1>h, <2>2 DEF UpToFinal
    <3> QED BY <3>1, <3>2, <2>6, <1>3 DEF FinalBetween
  <2>9. ASSUME NEW x \in FinalBetween(c, F, H, fh, p) PROVE x \in NewlyFinal(t, p)
    <3>1. x \in F /\ FinalHeight(c, fh) < c[x].height /\ c[x].height <= c[p].height
      BY <2>9 DEF FinalBetween
    <3>2. \A y \in walk \cap F : c[x].height < c[y].height => c[y].prev_hash \in walk
      <4> TAKE y \in walk \cap F
      <4> HAVE c[x].height < c[y].height
      <4>1. c[y].prev_hash \in H BY <3>1, <2>2 DEF AboveHeadKept
      <4> QED BY <4>1, AncClosed DEF Links, walk
    <3>3. p \in walk \cap F BY <2>7, <2>5
    <3>4. x \in walk BY <3>1, <3>2, <3>3, FinalWalk
    <3>5. ASSUME NEW y \in walk, c[y].height >= c[x].height
          PROVE  y \notin UpToFinal(c, F, fh)
      <4>1. c[y].height \in Int /\ c[x].height \in Int BY <1>h, <2>2, <3>4
      <4> QED BY <3>1, <3>5, <4>1, <1>f DEF UpToFinal
    <3> QED BY <2>4, <3>4, <3>5
  <2> QED BY <2>8, <2>9
<1> QED BY <1>2, <1>3

\* The final head after the block whose last final block is p.
NextFinal(c, H, fh, p) ==
  IF p \in H /\ FinalHeight(c, fh) < c[p].height THEN p ELSE fh

\* The old final blocks and the new ones are the final blocks up to the next final head.
LEMMA FinalUnion ==
  ASSUME NEW c, NEW F, TreeOK(c, F), NEW H \in SUBSET DOMAIN c,
         NEW fh \in (F \cap H) \cup {NoBlock}, NEW p \in F \cup {NoBlock}
  PROVE  /\ UpToFinal(c, F, NextFinal(c, H, fh, p)) =
              UpToFinal(c, F, fh) \cup FinalBetween(c, F, H, fh, p)
         /\ NextFinal(c, H, fh, p) \in (F \cap H) \cup {NoBlock}
         /\ FinalHeight(c, fh) <= FinalHeight(c, NextFinal(c, H, fh, p))
         /\ FinalHeight(c, fh) \in Int
         /\ FinalHeight(c, NextFinal(c, H, fh, p)) \in Int
         /\ p \in H => c[p].height <= FinalHeight(c, NextFinal(c, H, fh, p))
<1>0. Rises(c) /\ F \in SUBSET DOMAIN c /\ NoBlock \notin H BY DEF TreeOK, Rises
<1>h. \A x \in DOMAIN c : c[x].height \in Nat BY <1>0 DEF Rises
<1>f. FinalHeight(c, fh) \in Int BY <1>0, <1>h DEF FinalHeight
<1>1. CASE p \in H /\ FinalHeight(c, fh) < c[p].height
  <2>1. NextFinal(c, H, fh, p) = p /\ p # NoBlock BY <1>0, <1>1 DEF NextFinal
  <2>2. FinalHeight(c, p) = c[p].height /\ c[p].height \in Int BY <1>h, <1>1, <2>1 DEF FinalHeight
  <2>3. \A x \in F : c[x].height \in Int BY <1>0, <1>h
  <2>4. UpToFinal(c, F, p) = UpToFinal(c, F, fh) \cup FinalBetween(c, F, H, fh, p)
    BY <1>1, <1>f, <2>2, <2>3 DEF UpToFinal, FinalBetween
  <2> QED BY <1>1, <1>f, <2>1, <2>2, <2>4
<1>2. CASE p \in H /\ ~(FinalHeight(c, fh) < c[p].height)
  <2>1. NextFinal(c, H, fh, p) = fh BY <1>2 DEF NextFinal
  <2>2. \A x \in F : c[x].height \in Int BY <1>0, <1>h
  <2>3. FinalBetween(c, F, H, fh, p) = {} BY <1>2, <1>f, <1>h, <2>2 DEF FinalBetween
  <2> QED BY <1>2, <1>f, <1>h, <2>1, <2>3
<1>3. CASE p \notin H
  <2>1. NextFinal(c, H, fh, p) = fh BY <1>3 DEF NextFinal
  <2>2. FinalBetween(c, F, H, fh, p) = {} BY <1>3 DEF FinalBetween
  <2> QED BY <1>3, <1>f, <2>1, <2>2
<1> QED BY <1>1, <1>2, <1>3

\* maybe_update_final_head keeps the described form, with the next final head.
LEMMA FinalHeadForm ==
  ASSUME NEW c, NEW F, TreeOK(c, F), NEW H \in SUBSET DOMAIN c, NEW ch,
         NEW fh \in (F \cap H) \cup {NoBlock}, NEW m,
         AboveHeadKept(c, F, H, fh), NEW p \in F \cup {NoBlock}
  PROVE  MaybeUpdateFinalHead(TrackerOf(c, F, H, ch, fh, m), p) =
           TrackerOf(c, F, H, ch, NextFinal(c, H, fh, p), m)
<1> DEFINE t == TrackerOf(c, F, H, ch, fh, m)
           C == OnChain(c, H, ch)
           L == UpToFinal(c, F, fh)
           L2 == UpToFinal(c, F, NextFinal(c, H, fh, p))
           new == FinalBetween(c, F, H, fh, p)
<1> HIDE DEF t
<1>0. t = TrackerOf(c, F, H, ch, fh, m) BY DEF t
<1>1. NewlyFinal(t, p) = new BY <1>0, NewlyFinalForm
<1>2. Hashes(t) = H /\ t.final_head = fh /\ \A x \in H : t.nodes[x] = NodeOf(c, H, C, L, x)
  BY <1>0, TrackerFields
<1>3. L2 = L \cup new BY FinalUnion
<1>4. \A x \in H : [NodeOf(c, H, C, L, x) EXCEPT !.is_final = @ \/ x \in new]
                     = NodeOf(c, H, C, L2, x)
  <2> TAKE x \in H
  <2>1. NodeOf(c, H, C, L, x).is_final = (x \in L) BY DEF NodeOf
  <2> HIDE DEF C, L, L2, new
  <2>a. (x \in L \/ x \in new) <=> (x \in L2) BY <1>3
  <2>b. NodeOf(c, H, C, L, x).is_final <=> x \in L BY DEF NodeOf
  <2>2. (NodeOf(c, H, C, L, x).is_final \/ x \in new) = (x \in L2)
    <3>1. CASE x \in L
      <4>1. NodeOf(c, H, C, L, x).is_final = TRUE BY <3>1 DEF NodeOf
      <4> QED BY <4>1, <3>1, <2>a
    <3>2. CASE x \notin L
      <4>0. (x \in L) = FALSE BY <3>2
      <4>1. NodeOf(c, H, C, L, x).is_final = FALSE BY <2>1, <4>0, Zenon
      <4> QED BY <4>1, <3>2, <2>a
    <3> QED BY <3>1, <3>2
  <2>3. [NodeOf(c, H, C, L, x) EXCEPT !.is_final = (x \in L2)] = NodeOf(c, H, C, L2, x)
    BY DEF NodeOf
  <2> QED BY <2>2, <2>3, Zenon
<1>5. [x \in H |-> [t.nodes[x] EXCEPT !.is_final = @ \/ x \in new]]
       = [x \in H |-> NodeOf(c, H, C, L2, x)]
  BY <1>2, <1>4
<1>6. (/\ p \in Hashes(t)
       /\ (t.final_head = NoBlock \/ HeightOf(t, t.final_head) < HeightOf(t, p)))
      <=> (p \in H /\ FinalHeight(c, fh) < c[p].height)
  <2>1. p \in H => HeightOf(t, p) = c[p].height /\ c[p].height \in Nat
    BY <1>0, TrackerFields DEF TreeOK, Rises
  <2>2. fh # NoBlock => HeightOf(t, fh) = c[fh].height BY <1>0, TrackerFields
  <2> QED BY <1>2, <2>1, <2>2 DEF FinalHeight
<1> DEFINE N == [x \in H |-> NodeOf(c, H, C, L2, x)]
<1>7. MaybeUpdateFinalHead(t, p) = [t EXCEPT !.nodes = N, !.final_head = NextFinal(c, H, fh, p)]
  <2> HIDE DEF C, L, L2, new, N
  <2>0. [x \in H |-> [t.nodes[x] EXCEPT !.is_final = @ \/ x \in new]] = N BY <1>5 DEF N
  <2>1. CASE p \in H /\ FinalHeight(c, fh) < c[p].height
    BY <1>1, <1>2, <2>0, <1>6, <2>1 DEF MaybeUpdateFinalHead, NextFinal
  <2>2. CASE ~(p \in H /\ FinalHeight(c, fh) < c[p].height)
    BY <1>1, <1>2, <2>0, <1>6, <2>2 DEF MaybeUpdateFinalHead, NextFinal
  <2> QED BY <2>1, <2>2
<1>8. MaybeUpdateFinalHead(t, p) =
        [nodes |-> N, canonical_head |-> ch,
         final_head |-> NextFinal(c, H, fh, p), maximum_height_available |-> m]
  <2> HIDE DEF N
  <2> QED BY <1>7 DEF t, TrackerOf
<1> QED BY <1>8 DEF t, TrackerOf, C, L2
-----------------------------------------------------------------------------
(* New blocks and the canonical chain. *)

\* A new block, child of a kept parent or of the root, keeps the described form.
LEMMA WithNodeForm ==
  ASSUME NEW c, NEW F, TreeOK(c, F), NEW H \in SUBSET DOMAIN c, NEW ch \in H \cup {NoBlock},
         NEW fh, NEW m, NEW b \in DOMAIN c, b \notin H,
         \A x \in H : c[x].prev_hash # b, b \notin UpToFinal(c, F, fh)
  PROVE  WithNode(TrackerOf(c, F, H, ch, fh, m), b, c[b]) =
           TrackerOf(c, F, H \cup {b}, ch, fh, m)
<1> DEFINE t == TrackerOf(c, F, H, ch, fh, m)
           K == H \cup {b}
           C == OnChain(c, H, ch)
           L == UpToFinal(c, F, fh)
<1> HIDE DEF t
<1>0. t = TrackerOf(c, F, H, ch, fh, m) BY DEF t
<1>1. Hashes(t) = H /\ \A x \in H : t.nodes[x] = NodeOf(c, H, C, L, x)
  BY <1>0, TrackerFields
<1>2. OnChain(c, K, ch) = C
  <2>1. CASE ch = NoBlock BY <2>1 DEF OnChain
  <2>2. CASE ch # NoBlock BY <2>2, AncNewBlock DEF OnChain
  <2> QED BY <2>1, <2>2
<1>3. b \notin C BY AncSub DEF OnChain
<1>4. c[b].prev_hash # b BY DEF TreeOK, Rises
<1> HIDE DEF C, L
<1>5. \A x \in H : NodeOf(c, H, C, L, x) = NodeOf(c, K, C, L, x)
  BY DEF NodeOf
<1>6. [height |-> c[b].height,
       parent |-> IF c[b].prev_hash \in H THEN c[b].prev_hash ELSE NoBlock,
       canonical |-> FALSE, is_final |-> FALSE] = NodeOf(c, K, C, L, b)
  <2>1. (b \in C) = FALSE BY <1>3
  <2>2. (b \in L) = FALSE BY DEF L
  <2>3. (IF c[b].prev_hash \in H THEN c[b].prev_hash ELSE NoBlock) =
        (IF c[b].prev_hash \in K THEN c[b].prev_hash ELSE NoBlock)
    BY <1>4
  <2> HIDE DEF K
  <2> QED BY <2>1, <2>2, <2>3 DEF NodeOf
<1>7. [x \in Hashes(t) \cup {b} |->
         IF x # b THEN t.nodes[x]
         ELSE [height |-> c[b].height,
               parent |-> IF c[b].prev_hash \in Hashes(t) THEN c[b].prev_hash ELSE NoBlock,
               canonical |-> FALSE, is_final |-> FALSE]]
      = [x \in K |-> NodeOf(c, K, C, L, x)]
  BY <1>1, <1>5, <1>6
<1>8. WithNode(t, b, c[b]) = [t EXCEPT !.nodes = [x \in K |-> NodeOf(c, K, C, L, x)]]
  <2> DEFINE N == [x \in K |-> NodeOf(c, K, C, L, x)]
  <2> HIDE DEF N
  <2>1. [x \in Hashes(t) \cup {b} |->
         IF x # b THEN t.nodes[x]
         ELSE [height |-> c[b].height,
               parent |-> IF c[b].prev_hash \in Hashes(t) THEN c[b].prev_hash ELSE NoBlock,
               canonical |-> FALSE, is_final |-> FALSE]] = N
    BY <1>7 DEF N
  <2>2. WithNode(t, b, c[b]) = [t EXCEPT !.nodes = N] BY <2>1, Zenon DEF WithNode
  <2> QED BY <2>2 DEF N
<1>9. WithNode(t, b, c[b]) =
        [nodes |-> [x \in K |-> NodeOf(c, K, C, L, x)], canonical_head |-> ch,
         final_head |-> fh, maximum_height_available |-> m]
  BY <1>8 DEF t, TrackerOf
<1> QED BY <1>9, <1>2 DEF t, TrackerOf, L

\* A node whose flag canonical is set anew.
LEMMA NodeCanonical ==
  ASSUME NEW c, NEW H, NEW C, NEW L, NEW x, NEW M, NEW U, NEW C2,
         x \in C2 <=> (x \in C \/ x \in M) /\ x \notin U
  PROVE  [NodeOf(c, H, C, L, x) EXCEPT !.canonical = (@ \/ x \in M) /\ x \notin U]
           = NodeOf(c, H, C2, L, x)
<1>1. NodeOf(c, H, C, L, x).canonical = (x \in C) BY DEF NodeOf
<1>2. ((NodeOf(c, H, C, L, x).canonical \/ x \in M) /\ x \notin U) = (x \in C2)
  <2>1. CASE x \in C
    <3>0. (x \in C) = TRUE BY <2>1
    <3>1. NodeOf(c, H, C, L, x).canonical = TRUE BY <1>1, <3>0, Zenon
    <3> QED BY <3>1, <2>1
  <2>2. CASE x \notin C
    <3>0. (x \in C) = FALSE BY <2>2
    <3>1. NodeOf(c, H, C, L, x).canonical = FALSE BY <1>1, <3>0, Zenon
    <3> QED BY <3>1, <2>2
  <2> QED BY <2>1, <2>2
<1>3. [NodeOf(c, H, C, L, x) EXCEPT !.canonical = (x \in C2)] = NodeOf(c, H, C2, L, x)
  BY DEF NodeOf
<1> QED BY <1>2, <1>3, Zenon

\* The height at which the chain A leaves the chain C.
ForkAt(c, C, A, f) ==
  /\ A \cap C = {} => f = -1
  /\ A \cap C # {} => \E k \in A \cap C : f = c[k].height
  /\ \A k \in A \cap C : c[k].height <= f

Remarked(c, C, A, f, x) ==
  /\ x \in C \/ (x \in A /\ c[x].height > f)
  /\ ~(x \in C /\ c[x].height > f)

\* Marking the new chain above the fork, and unmarking the old one, leaves the
\* new chain.
LEMMA Reorganised ==
  ASSUME NEW c, Rises(c), NEW H \in SUBSET DOMAIN c, NEW ch \in H \cup {NoBlock}, NEW b \in H,
         NEW fork \in Int, ForkAt(c, OnChain(c, H, ch), Anc(c, H, b), fork), NEW x \in H
  PROVE  x \in Anc(c, H, b) <=> Remarked(c, OnChain(c, H, ch), Anc(c, H, b), fork, x)
<1> DEFINE C == OnChain(c, H, ch)
           new == Anc(c, H, b)
           common == new \cap C
<1>f. /\ common = {} => fork = -1
      /\ common # {} => \E k \in common : fork = c[k].height
      /\ \A k \in common : c[k].height <= fork
  BY DEF ForkAt
<1>h. \A y \in H : c[y].height \in Nat BY DEF Rises
<1>1. new \subseteq H /\ C \subseteq H BY AncSub DEF OnChain
<1>2. ASSUME x \in new PROVE /\ x \in C \/ (x \in new /\ c[x].height > fork)
                             /\ ~(x \in C /\ c[x].height > fork)
  <2>1. ~(x \in C /\ c[x].height > fork) BY <1>2, <1>h, <1>f
  <2>2. CASE c[x].height > fork BY <1>2, <2>1, <2>2
  <2>3. CASE ~(c[x].height > fork)
    <3>0. common # {} BY <1>h, <1>f, <2>3
    <3>1. PICK k \in common : fork = c[k].height BY <1>f, <3>0
    <3>2. k \in new /\ k \in C /\ c[x].height <= c[k].height BY <3>1, <2>3, <1>h
    <3>3. x \in Anc(c, H, k) BY <1>2, <3>2, AncBelow
    <3>4. x \in C BY <3>2, <3>3, AncTrans DEF OnChain
    <3> QED BY <3>4, <2>1
  <2> QED BY <2>2, <2>3
<1>3. ASSUME x \in C, ~(c[x].height > fork) PROVE x \in new
  <2>0. common # {} BY <1>3, <1>h, <1>f
  <2>1. PICK k \in common : fork = c[k].height BY <1>f, <2>0
  <2>2. k \in new /\ k \in C /\ c[x].height <= c[k].height BY <2>1, <1>3, <1>h
  <2>3. ch \in H /\ C = Anc(c, H, ch) BY <1>3 DEF OnChain
  <2>4. x \in Anc(c, H, k) BY <1>3, <2>2, <2>3, AncBelow
  <2> QED BY <2>2, <2>4, AncTrans
<1> QED BY <1>2, <1>3 DEF Remarked

\* update_canonical_head keeps the described form, with the new canonical head.
LEMMA CanonicalForm ==
  ASSUME NEW c, NEW F, TreeOK(c, F), NEW H \in SUBSET DOMAIN c, NEW ch \in H \cup {NoBlock},
         NEW fh, NEW m, NEW b \in H
  PROVE  UpdateCanonicalHead(TrackerOf(c, F, H, ch, fh, m), b) =
           TrackerOf(c, F, H, b, fh, m)
<1> DEFINE t == TrackerOf(c, F, H, ch, fh, m)
           C == OnChain(c, H, ch)
           L == UpToFinal(c, F, fh)
           new == Anc(c, H, b)
           common == {x \in new : x \in C}
           fork == IF common = {} THEN -1 ELSE Max({c[x].height : x \in common})
           M == {x \in new : c[x].height > fork}
           U == {x \in C : c[x].height > fork}
           N == [x \in H |-> NodeOf(c, H, OnChain(c, H, b), L, x)]
<1> HIDE DEF t
<1>0. t = TrackerOf(c, F, H, ch, fh, m) BY DEF t
<1>r. Rises(c) /\ NoBlock \notin H BY DEF TreeOK, Rises
<1>h. \A y \in H : c[y].height \in Nat BY <1>r DEF Rises
<1>1. /\ Hashes(t) = H /\ t.canonical_head = ch
      /\ \A x \in H : t.nodes[x] = NodeOf(c, H, C, L, x)
      /\ \A x \in H : HeightOf(t, x) = c[x].height /\ t.nodes[x].canonical = (x \in C)
  BY <1>0, TrackerFields
<1>2. Ancestry(t, b) = new /\ Ancestry(t, ch) = Anc(c, H, ch) BY <1>0, <1>r, TrackerAncestry
<1>3. new \subseteq H /\ C \subseteq H BY AncSub DEF OnChain
<1> HIDE DEF new, C
<1>4. {x \in new : t.nodes[x].canonical} = common BY <1>1, <1>3
<1>5. {HeightOf(t, x) : x \in common} = {c[x].height : x \in common} BY <1>1, <1>3
<1>6. /\ fork \in Int
      /\ common = {} => fork = -1
      /\ common # {} => \E k \in common : fork = c[k].height
      /\ \A k \in common : c[k].height <= fork
  <2>1. CASE common = {} BY <2>1
  <2>2. CASE common # {}
    <3> DEFINE T == {c[x].height : x \in common}
    <3>1. T \in SUBSET Nat /\ T # {} BY <2>2, <1>3, <1>h
    <3>2. \A k \in T : k <= c[b].height BY <1>r, AncLower DEF new
    <3>3. c[b].height \in Nat BY <1>h
    <3>4. \A k \in common : c[k].height \in T OBVIOUS
    <3>5. fork = Max(T) BY <2>2
    <3>6. \A v \in T : \E k \in common : v = c[k].height OBVIOUS
    <3> HIDE DEF T, fork, common
    <3>7. Max(T) \in T /\ \A k \in T : k <= Max(T) BY <3>1, <3>2, <3>3, MaxOfBounded
    <3>8. fork \in T BY <3>5, <3>7
    <3>9. fork \in Int BY <3>1, <3>8
    <3>10. \E k \in common : fork = c[k].height BY <3>6, <3>8
    <3>11. \A k \in common : c[k].height <= fork
      <4>1. \A k \in T : k <= fork BY <3>5, <3>7
      <4> QED BY <3>4, <4>1
    <3> QED BY <2>2, <3>9, <3>10, <3>11
  <2> QED BY <2>1, <2>2
<1>7. (IF {x \in new : t.nodes[x].canonical} = {} THEN -1
       ELSE Max({HeightOf(t, x) : x \in {y \in new : t.nodes[y].canonical}})) = fork
  <2> HIDE DEF common
  <2> QED BY <1>4, <1>5
<1>c. \A x \in H : x \in OnChain(c, H, b) <=> (x \in C \/ x \in M) /\ x \notin U
  <2> TAKE x \in H
  <2>0. OnChain(c, H, b) = new BY <1>r DEF OnChain, new
  <2>1. common = new \cap C OBVIOUS
  <2>3. /\ x \in M <=> x \in new /\ c[x].height > fork
        /\ x \in U <=> x \in C /\ c[x].height > fork
    <3> HIDE DEF fork
    <3> QED OBVIOUS
  <2> HIDE DEF M, U, fork, common
  <2>4. ForkAt(c, C, new, fork) BY <1>6, <2>1 DEF ForkAt
  <2>5. x \in new <=> Remarked(c, C, new, fork, x)
    BY <1>r, <1>6, <2>4, Reorganised DEF C, new
  <2> QED BY <2>0, <2>3, <2>5 DEF Remarked
<1> HIDE DEF fork, common
<1>8. {x \in new : HeightOf(t, x) > fork} = M BY <1>1, <1>3
<1>9. (IF t.canonical_head = NoBlock THEN {}
       ELSE {x \in Ancestry(t, t.canonical_head) : HeightOf(t, x) > fork}) = U
  <2>1. CASE ch = NoBlock
    <3>1. C = {} BY <2>1 DEF C, OnChain
    <3> QED BY <1>1, <2>1, <3>1
  <2>2. CASE ch # NoBlock
    <3>1. C = Ancestry(t, t.canonical_head) BY <1>1, <1>2, <2>2 DEF C, OnChain
    <3> QED BY <1>1, <1>3, <2>2, <3>1
  <2> QED BY <2>1, <2>2
<1> HIDE DEF M, U
<1>10. [x \in H |-> [t.nodes[x] EXCEPT !.canonical = (@ \/ x \in M) /\ x \notin U]] = N
  <2>1. \A x \in H : [NodeOf(c, H, C, L, x) EXCEPT !.canonical = (@ \/ x \in M) /\ x \notin U]
                      = NodeOf(c, H, OnChain(c, H, b), L, x)
    <3> TAKE x \in H
    <3>1. x \in OnChain(c, H, b) <=> (x \in C \/ x \in M) /\ x \notin U BY <1>c
    <3> QED BY <3>1, NodeCanonical
  <2> QED BY <1>1, <2>1
<1> HIDE DEF N
<1>11. UpdateCanonicalHead(t, b) = [t EXCEPT !.nodes = N, !.canonical_head = b]
  BY <1>1, <1>2, <1>7, <1>8, <1>9, <1>10, Zenon DEF UpdateCanonicalHead
<1>12. UpdateCanonicalHead(t, b) =
        [nodes |-> N, canonical_head |-> b, final_head |-> fh, maximum_height_available |-> m]
  BY <1>11 DEF t, TrackerOf
<1> QED BY <1>12 DEF t, TrackerOf, N, L
-----------------------------------------------------------------------------
(* What a tracker keeps of the blocks delivered. *)

\* D: blocks delivered; H: blocks kept.
Keeps(c, F, D, H, ch, fh, m) ==
  /\ D \in SUBSET DOMAIN c /\ \A d \in D : c[d].prev_hash \in DOMAIN c => c[d].prev_hash \in D
  /\ H \in SUBSET D /\ m \in Nat
  /\ fh \in (F \cap H) \cup {NoBlock}
  /\ \/ ch = NoBlock /\ D = {}
     \/ ch \in H /\ \A x \in D : c[x].height <= c[ch].height
  /\ \A x \in D : c[x].height >= MinKeep(c, fh, m) => x \in H

\* The final blocks up to the final head were delivered.
LEMMA FinalDelivered ==
  ASSUME NEW c, NEW F, TreeOK(c, F), NEW D, NEW H, NEW ch, NEW fh, NEW m,
         Keeps(c, F, D, H, ch, fh, m)
  PROVE  UpToFinal(c, F, fh) \subseteq D
<1> SUFFICES ASSUME NEW x \in UpToFinal(c, F, fh) PROVE x \in D OBVIOUS
<1>0. NoBlock \notin DOMAIN c /\ F \in SUBSET DOMAIN c BY DEF TreeOK, Rises
<1>1. x \in F /\ c[x].height \in Nat /\ c[x].height <= FinalHeight(c, fh)
  BY DEF UpToFinal, TreeOK, Rises
<1>2. fh # NoBlock BY <1>1 DEF FinalHeight
<1>3. fh \in D \cap F /\ c[x].height <= c[fh].height BY <1>1, <1>2 DEF Keeps, FinalHeight
<1>4. \A y \in D \cap F : c[x].height < c[y].height => c[y].prev_hash \in D
  <2> TAKE y \in D \cap F
  <2> HAVE c[x].height < c[y].height
  <2>1. c[y].prev_hash \in F BY <1>1 DEF TreeOK, IsFinalChain
  <2> QED BY <2>1, <1>0 DEF Keeps
<1> QED BY <1>1, <1>3, <1>4, FinalWalk

\* Like Keeps, before the blocks below the heads are pruned.
Ready(c, F, D, H, ch, fh, m) ==
  /\ D \in SUBSET DOMAIN c /\ H \in SUBSET D /\ ch \in H /\ m \in Nat
  /\ fh \in (F \cap D) \cup {NoBlock}
  /\ \A d \in D : c[d].prev_hash \in DOMAIN c => c[d].prev_hash \in D
  /\ \A x \in D : c[x].height <= c[ch].height
  /\ \A x \in D : c[x].height >= MinKeep(c, fh, m) => x \in H

\* Pruning after the heads have moved up.
LEMMA PruneKeeps ==
  ASSUME NEW c, NEW F, TreeOK(c, F), NEW D, NEW H, NEW ch, NEW fh, NEW m,
         Ready(c, F, D, H, ch, fh, m), NEW g \in (F \cap H) \cup {NoBlock}, NEW n \in Nat,
         m <= n, FinalHeight(c, fh) <= FinalHeight(c, g),
         NEW K, K = {x \in H : c[x].height >= MinKeep(c, g, n)}
  PROVE  /\ Keeps(c, F, D, K, ch, g, n)
         /\ PruneOldBlocks(TrackerOf(c, F, H, ch, g, n)) = TrackerOf(c, F, K, ch, g, n)
<1>r. /\ D \in SUBSET DOMAIN c /\ H \in SUBSET D /\ ch \in H /\ m \in Nat
      /\ fh \in (F \cap D) \cup {NoBlock}
      /\ \A d \in D : c[d].prev_hash \in DOMAIN c => c[d].prev_hash \in D
      /\ \A x \in D : c[x].height <= c[ch].height
      /\ \A x \in D : c[x].height >= MinKeep(c, fh, m) => x \in H
  BY DEF Ready
<1>0. Rises(c) /\ NoBlock \notin DOMAIN c BY DEF TreeOK, Rises
<1>h. \A x \in DOMAIN c : c[x].height \in Nat BY <1>0 DEF Rises
<1>1. /\ MinKeep(c, g, n) \in Nat /\ MinKeep(c, fh, m) \in Nat
      /\ g # NoBlock => MinKeep(c, g, n) <= c[g].height
      /\ MinKeep(c, fh, m) <= MinKeep(c, g, n)
  BY <1>0, <1>r, MinKeepFacts DEF TreeOK
<1>2. g \in (F \cap K) \cup {NoBlock} BY <1>1, <1>h, <1>r
<1>3. ch \in K
  <2>1. CASE g = NoBlock
    <3>1. MinKeep(c, g, n) = 0 BY <2>1 DEF MinKeep
    <3> QED BY <3>1, <1>h, <1>r
  <2>2. CASE g # NoBlock
    <3>1. c[g].height <= c[ch].height BY <2>2, <1>r
    <3> QED BY <3>1, <1>1, <1>h, <2>2, <1>r
  <2> QED BY <2>1, <2>2
<1>4. \A x \in D : c[x].height >= MinKeep(c, g, n) => x \in K BY <1>1, <1>h, <1>r
<1>5. Keeps(c, F, D, K, ch, g, n) BY <1>2, <1>3, <1>4, <1>r DEF Keeps
<1>6. PruneOldBlocks(TrackerOf(c, F, H, ch, g, n)) = TrackerOf(c, F, K, ch, g, n)
  <2>1. g \in H \cup {NoBlock} /\ H \in SUBSET DOMAIN c /\ ch \in H \cup {NoBlock}
        /\ ch \in K \cup {NoBlock}
    BY <1>3, <1>r
  <2> QED BY <1>0, <2>1, PruneForm
<1> QED BY <1>5, <1>6

\* A greater maximum height keeps the described form.
LEMMA WithMaximum ==
  ASSUME NEW c, NEW F, NEW H, NEW ch, NEW fh, NEW m, NEW n,
         NEW t, t = TrackerOf(c, F, H, ch, fh, m)
  PROVE  [t EXCEPT !.maximum_height_available = n] = TrackerOf(c, F, H, ch, fh, n)
<1> DEFINE N == [x \in H |-> NodeOf(c, H, OnChain(c, H, ch), UpToFinal(c, F, fh), x)]
<1>1. \A k : TrackerOf(c, F, H, ch, fh, k) =
             [nodes |-> N, canonical_head |-> ch, final_head |-> fh,
              maximum_height_available |-> k]
  BY DEF TrackerOf
<1> HIDE DEF N
<1> QED BY <1>1

\* What a delivered block makes of the tracker, and the final blocks it gives.
Advances(c, F, D, fh, m, t, new) ==
  \E K, ch, g, n :
    /\ t = TrackerOf(c, F, K, ch, g, n) /\ Keeps(c, F, D, K, ch, g, n)
    /\ m <= n /\ FinalHeight(c, fh) <= FinalHeight(c, g)
    /\ new = UpToFinal(c, F, g) \ UpToFinal(c, F, fh)

\* add_block, as a whole, takes the described tracker to the described tracker.
LEMMA AddBlockForm ==
  ASSUME NEW c, NEW F, TreeOK(c, F), NEW D, NEW H, NEW ch, NEW fh, NEW m,
         Keeps(c, F, D, H, ch, fh, m), NEW b \in DOMAIN c, b \notin D,
         c[b].prev_hash \in DOMAIN c => c[b].prev_hash \in D,
         NEW t, t = TrackerOf(c, F, H, ch, fh, m)
  PROVE  Advances(c, F, D \cup {b}, fh, m, AddBlock(t, b, c[b]), NewFinalBlocks(t, b, c[b]))
<1> DEFINE H1 == H \cup {b}
           D1 == D \cup {b}
           p == c[b].last_final_block
           g == NextFinal(c, H1, fh, p)
           n == Max({m, c[b].height})
           h1 == IF ch = NoBlock \/ c[b].height > c[ch].height THEN b ELSE ch
           K == {x \in H1 : c[x].height >= MinKeep(c, g, n)}
<1>0. Rises(c) /\ NoBlock \notin DOMAIN c /\ F \in SUBSET DOMAIN c BY DEF TreeOK, Rises
<1>h. \A x \in DOMAIN c : c[x].height \in Nat BY <1>0 DEF Rises
<1>1. /\ D \in SUBSET DOMAIN c /\ H \in SUBSET D /\ m \in Nat /\ b \notin H
      /\ fh \in (F \cap H) \cup {NoBlock} /\ ch \in H \cup {NoBlock}
      /\ H \in SUBSET DOMAIN c
  BY DEF Keeps
<1>2. \A x \in H : c[x].prev_hash # b BY <1>1 DEF Keeps
<1>3. b \notin UpToFinal(c, F, fh) BY FinalDelivered
<1>4. WithNode(t, b, c[b]) = TrackerOf(c, F, H1, ch, fh, m) BY <1>1, <1>2, <1>3, WithNodeForm
<1>5. p \in F \cup {NoBlock} BY DEF TreeOK, IsFinalChain
<1>6. H1 \in SUBSET DOMAIN c /\ fh \in (F \cap H1) \cup {NoBlock} BY <1>1
<1>7. AboveHeadKept(c, F, H1, fh)
  <2> SUFFICES ASSUME NEW x \in F, NEW y \in H1 \cap F,
                      FinalHeight(c, fh) < c[x].height, c[x].height < c[y].height
               PROVE  c[y].prev_hash \in H1
    BY DEF AboveHeadKept
  <2> DEFINE q == c[y].prev_hash
  <2>1. q \in F /\ c[x].height <= c[q].height BY DEF TreeOK, IsFinalChain
  <2>2. q \in D BY <2>1, <1>0 DEF Keeps
  <2>3. MinKeep(c, fh, m) \in Nat /\ MinKeep(c, fh, m) <= c[q].height
    <3>1. MinKeep(c, fh, m) \in Nat BY <1>0, <1>1, MinKeepFacts
    <3>2. CASE fh = NoBlock
      <4>1. MinKeep(c, fh, m) = 0 BY <3>2 DEF MinKeep
      <4> QED BY <4>1, <1>h, <2>1, <1>0
    <3>3. CASE fh # NoBlock
      <4>1. MinKeep(c, fh, m) <= c[fh].height BY <1>0, <1>1, <3>3, MinKeepFacts
      <4>2. c[fh].height < c[x].height BY <3>3 DEF FinalHeight
      <4>3. fh \in DOMAIN c /\ x \in DOMAIN c /\ q \in DOMAIN c BY <3>3, <1>1, <1>0, <2>1
      <4>4. c[fh].height \in Nat /\ c[x].height \in Nat /\ c[q].height \in Nat BY <4>3, <1>h
      <4> QED BY <4>1, <4>2, <4>4, <2>1, <3>1
    <3> QED BY <3>1, <3>2, <3>3
  <2>4. c[q].height >= MinKeep(c, fh, m) BY <2>3, <2>2, <1>1, <1>h
  <2> QED BY <2>2, <2>4 DEF Keeps
<1> HIDE DEF g, n, h1, K
<1>8. MaybeUpdateFinalHead(WithNode(t, b, c[b]), p) = TrackerOf(c, F, H1, ch, g, m)
  BY <1>4, <1>5, <1>6, <1>7, FinalHeadForm DEF g
<1>9. NewFinalBlocks(t, b, c[b]) = FinalBetween(c, F, H1, fh, p)
  BY <1>4, <1>5, <1>6, <1>7, NewlyFinalForm DEF NewFinalBlocks
<1>10. /\ UpToFinal(c, F, g) = UpToFinal(c, F, fh) \cup FinalBetween(c, F, H1, fh, p)
       /\ g \in (F \cap H1) \cup {NoBlock}
       /\ FinalHeight(c, fh) <= FinalHeight(c, g) /\ FinalHeight(c, fh) \in Int
  BY <1>5, <1>6, FinalUnion DEF g
<1>11. FinalBetween(c, F, H1, fh, p) = UpToFinal(c, F, g) \ UpToFinal(c, F, fh)
  <2>1. \A x \in FinalBetween(c, F, H1, fh, p) : x \notin UpToFinal(c, F, fh)
    BY <1>10, <1>0, <1>h DEF FinalBetween, UpToFinal
  <2> QED BY <2>1, <1>10
<1>12. /\ h1 \in H1 /\ \A x \in D1 : c[x].height <= c[h1].height
  <2>1. CASE ch = NoBlock
    <3>1. D = {} /\ h1 = b BY <2>1, <1>0, <1>1 DEF Keeps, h1
    <3> QED BY <3>1, <1>h
  <2>2. CASE ch # NoBlock
    <3>1. \A x \in D : c[x].height <= c[ch].height BY <2>2 DEF Keeps
    <3>2. ch \in DOMAIN c BY <2>2, <1>1
    <3>3. CASE c[b].height > c[ch].height
      <4>1. h1 = b BY <3>3 DEF h1
      <4> QED BY <4>1, <3>1, <3>2, <3>3, <1>h, <1>1
    <3>4. CASE ~(c[b].height > c[ch].height)
      <4>1. h1 = ch BY <2>2, <3>4 DEF h1
      <4> QED BY <4>1, <3>1, <3>2, <3>4, <1>h, <1>1, <2>2
    <3> QED BY <3>3, <3>4
  <2> QED BY <2>1, <2>2
<1>13. n \in Nat /\ m <= n
  <2>1. n = IF m >= c[b].height THEN m ELSE c[b].height BY <1>1, <1>h, MinMaxOfTwo DEF n
  <2> QED BY <2>1, <1>1, <1>h
<1> DEFINE head == IF t.canonical_head = NoBlock \/ c[b].height > HeightOf(t, t.canonical_head)
                   THEN UpdateCanonicalHead(TrackerOf(c, F, H1, ch, g, m), b)
                   ELSE TrackerOf(c, F, H1, ch, g, m)
<1>14. head = TrackerOf(c, F, H1, h1, g, m)
  <2>1. t.canonical_head = ch /\ (ch # NoBlock => HeightOf(t, ch) = c[ch].height)
    BY <1>1, TrackerFields
  <2>2. UpdateCanonicalHead(TrackerOf(c, F, H1, ch, g, m), b) = TrackerOf(c, F, H1, b, g, m)
    BY <1>1, <1>6, CanonicalForm
  <2>3. CASE ch = NoBlock \/ c[b].height > c[ch].height
    <3>1. h1 = b BY <2>3 DEF h1
    <3>2. t.canonical_head = NoBlock \/ c[b].height > HeightOf(t, t.canonical_head)
      BY <2>1, <2>3
    <3> QED BY <2>2, <3>1, <3>2
  <2>4. CASE ~(ch = NoBlock \/ c[b].height > c[ch].height)
    <3>1. h1 = ch BY <2>4 DEF h1
    <3>2. ~(t.canonical_head = NoBlock \/ c[b].height > HeightOf(t, t.canonical_head))
      BY <2>1, <2>4
    <3> QED BY <3>1, <3>2
  <2> QED BY <2>3, <2>4
<1>15. AddBlock(t, b, c[b]) =
         PruneOldBlocks([head EXCEPT !.maximum_height_available = Max({@, c[b].height})])
  BY <1>8, Zenon DEF AddBlock
<1> HIDE DEF head
<1>16. AddBlock(t, b, c[b]) = PruneOldBlocks(TrackerOf(c, F, H1, h1, g, n))
  <2>1. head.maximum_height_available = m BY <1>14, TrackerFields
  <2>2. [head EXCEPT !.maximum_height_available = Max({@, c[b].height})]
        = [head EXCEPT !.maximum_height_available = n]
    BY <2>1 DEF n
  <2>3. [head EXCEPT !.maximum_height_available = n] = TrackerOf(c, F, H1, h1, g, n)
    <3>1. PICK hd, J : hd = head /\ J = H1 OBVIOUS
    <3>2. hd = TrackerOf(c, F, J, h1, g, m) BY <1>14, <3>1
    <3>3. [hd EXCEPT !.maximum_height_available = n] = TrackerOf(c, F, J, h1, g, n)
      BY <3>2, WithMaximum
    <3> QED BY <3>1, <3>3
  <2> QED BY <1>15, <2>2, <2>3
<1>17. /\ Keeps(c, F, D1, K, h1, g, n)
       /\ PruneOldBlocks(TrackerOf(c, F, H1, h1, g, n)) = TrackerOf(c, F, K, h1, g, n)
  <2>1. D1 \in SUBSET DOMAIN c /\ H1 \in SUBSET D1 /\ fh \in (F \cap D1) \cup {NoBlock} BY <1>1
  <2>2. \A d \in D1 : c[d].prev_hash \in DOMAIN c => c[d].prev_hash \in D1 BY DEF Keeps
  <2>3. \A x \in D1 : c[x].height >= MinKeep(c, fh, m) => x \in H1 BY DEF Keeps
  <2>4. K = {x \in H1 : c[x].height >= MinKeep(c, g, n)} BY DEF K
  <2>5. Ready(c, F, D1, H1, h1, fh, m) BY <1>1, <1>12, <2>1, <2>2, <2>3 DEF Ready
  <2> HIDE DEF H1, D1
  <2> QED BY <1>10, <1>13, <2>4, <2>5, PruneKeeps
<1> QED BY <1>9, <1>10, <1>11, <1>13, <1>16, <1>17 DEF Advances

\* A height heard of moves the window, and nothing else.
LEMMA NotifyForm ==
  ASSUME NEW c, NEW F, TreeOK(c, F), NEW D, NEW H, NEW ch, NEW fh, NEW m,
         Keeps(c, F, D, H, ch, fh, m), NEW k \in Nat,
         NEW t, t = TrackerOf(c, F, H, ch, fh, m)
  PROVE  \E K, n : /\ NotifyMaximumHeightAvailable(t, k) = TrackerOf(c, F, K, ch, fh, n)
                   /\ Keeps(c, F, D, K, ch, fh, n) /\ m <= n
<1>0. Rises(c) /\ NoBlock \notin DOMAIN c /\ F \in SUBSET DOMAIN c BY DEF TreeOK, Rises
<1>h. \A x \in DOMAIN c : c[x].height \in Nat BY <1>0 DEF Rises
<1>1. t.maximum_height_available = m /\ m \in Nat BY TrackerFields DEF Keeps
<1>2. CASE ~(k > m)
  <2>1. NotifyMaximumHeightAvailable(t, k) = t BY <1>1, <1>2 DEF NotifyMaximumHeightAvailable
  <2> QED BY <2>1, <1>1
<1>3. CASE k > m
  <2>1. NotifyMaximumHeightAvailable(t, k) =
          PruneOldBlocks([t EXCEPT !.maximum_height_available = k])
    BY <1>1, <1>3 DEF NotifyMaximumHeightAvailable
  <2>2. NotifyMaximumHeightAvailable(t, k) = PruneOldBlocks(TrackerOf(c, F, H, ch, fh, k))
    BY <2>1, WithMaximum
  <2>3. m <= k BY <1>1, <1>3
  <2> DEFINE K == {x \in H : c[x].height >= MinKeep(c, fh, k)}
  <2>4. CASE ch = NoBlock
    <3>1. D = {} /\ H = {} /\ fh = NoBlock BY <2>4, <1>0 DEF Keeps
    <3>2. K = {} BY <3>1
    <3> HIDE DEF K
    <3>3. Keeps(c, F, D, K, ch, fh, k) BY <3>1, <3>2, <2>4 DEF Keeps
    <3>4. K = {x \in H : c[x].height >= MinKeep(c, fh, k)} BY DEF K
    <3>5. PruneOldBlocks(TrackerOf(c, F, H, ch, fh, k)) = TrackerOf(c, F, K, ch, fh, k)
      BY <3>1, <3>4, <2>4, <1>0, PruneForm
    <3> QED BY <3>3, <3>5, <2>2, <2>3
  <2>5. CASE ch # NoBlock
    <3>1. Ready(c, F, D, H, ch, fh, m) /\ fh \in (F \cap H) \cup {NoBlock}
      BY <2>5 DEF Keeps, Ready
    <3>2. FinalHeight(c, fh) <= FinalHeight(c, fh) BY <3>1, <1>0, <1>h DEF FinalHeight
    <3>3. K = {x \in H : c[x].height >= MinKeep(c, fh, k)} OBVIOUS
    <3> HIDE DEF K
    <3>4. /\ Keeps(c, F, D, K, ch, fh, k)
          /\ PruneOldBlocks(TrackerOf(c, F, H, ch, fh, k)) = TrackerOf(c, F, K, ch, fh, k)
      BY <1>1, <2>3, <3>1, <3>2, <3>3, PruneKeeps
    <3> QED BY <3>4, <2>2, <2>3
  <2> QED BY <2>4, <2>5
<1> QED BY <1>2, <1>3
-----------------------------------------------------------------------------
(* Requests: where they are, and whether they can still be answered. *)

HomeOf(c, r) == CHOOSE b \in DOMAIN c : r \in c[b].requests

CompletedIn(c, bs) == UNION {c[b].completed : b \in bs}

\* A request is in one block, an ancestor of every block that answers it.
LEMMA HomeFacts ==
  ASSUME NEW c, IsBlockTree(c), NEW r \in RequestIds
  PROVE  /\ HomeOf(c, r) \in DOMAIN c
         /\ \A d \in DOMAIN c : r \in c[d].requests <=> d = HomeOf(c, r)
         /\ \A S \in SUBSET DOMAIN c : \A d \in S :
              /\ \A e \in S : c[e].prev_hash \in DOMAIN c => c[e].prev_hash \in S
              /\ r \in c[d].completed
              => HomeOf(c, r) \in S
<1>1. PICK b \in DOMAIN c :
        /\ \A d \in DOMAIN c : r \in c[d].requests <=> d = b
        /\ \A S \in SUBSET DOMAIN c :
             /\ \A d \in S : c[d].prev_hash \in DOMAIN c => c[d].prev_hash \in S
             /\ \E d \in S : r \in c[d].completed
             => b \in S
  BY DEF IsBlockTree
<1>2. HomeOf(c, r) = b BY <1>1 DEF HomeOf
<1> QED BY <1>1, <1>2

\* A block that is too old, or was passed by finality.
Gone(c, fh, m, x) ==
  c[x].height < WStart(m) \/ (x \notin FinalSet(c) /\ c[x].height <= FinalHeight(c, fh))

\* t is the tracker of the delivered blocks D.
Tracks(c, D, t) ==
  /\ t = TrackerOf(c, FinalSet(c), Hashes(t), t.canonical_head, t.final_head,
                   t.maximum_height_available)
  /\ Keeps(c, FinalSet(c), D, Hashes(t), t.canonical_head, t.final_head,
           t.maximum_height_available)

\* How a tracker is shown to be the one of the delivered blocks.
LEMMA TracksIntro ==
  ASSUME NEW c, NEW D, NEW K, NEW ch, NEW g, NEW n, NEW t,
         t = TrackerOf(c, FinalSet(c), K, ch, g, n), Keeps(c, FinalSet(c), D, K, ch, g, n)
  PROVE  Tracks(c, D, t) /\ t.final_head = g /\ t.maximum_height_available = n
<1>1. Hashes(t) = K /\ t.canonical_head = ch /\ t.final_head = g
      /\ t.maximum_height_available = n
  BY TrackerFields
<1> QED BY <1>1 DEF Tracks

\* A delivered block is discarded exactly when it is gone.
LEMMA ClassForm ==
  ASSUME NEW c, IsBlockTree(c), NEW D, NEW t, Tracks(c, D, t), NEW x \in D
  PROVE  ClassifyBlock(t, x, c[x].height) \in Discarded <=>
           Gone(c, t.final_head, t.maximum_height_available, x)
<1> DEFINE F == FinalSet(c)
           H == Hashes(t)
           fh == t.final_head
           m == t.maximum_height_available
           k == c[x].height
<1>0. TreeOK(c, F) BY TreeFacts
<1>r. Rises(c) /\ NoBlock \notin DOMAIN c BY <1>0 DEF TreeOK, Rises
<1>1. /\ D \in SUBSET DOMAIN c /\ H \in SUBSET D /\ m \in Nat
      /\ fh \in (F \cap H) \cup {NoBlock}
      /\ k >= MinKeep(c, fh, m) => x \in H
  BY DEF Tracks, Keeps
<1>2. t = TrackerOf(c, F, H, t.canonical_head, fh, m) BY DEF Tracks
<1> HIDE DEF F, H
<1>3. \A y \in H : /\ HeightOf(t, y) = c[y].height
                   /\ t.nodes[y].is_final = (y \in UpToFinal(c, F, fh))
  BY <1>2, TrackerFields
<1>4. WindowStart(t) = WStart(m) BY <1>2 , <1>1, TrackerWindow
<1>5. k \in Nat /\ WStart(m) \in Nat BY <1>1, <1>r, WStartFacts DEF Rises
<1>6. MinKeep(c, fh, m) \in Nat /\ MinKeep(c, fh, m) <= WStart(m)
  BY <1>0, <1>1, <1>r, MinKeepFacts DEF TreeOK
<1>7. fh # NoBlock => HeightOf(t, fh) = FinalHeight(c, fh) BY <1>1, <1>3 DEF FinalHeight
<1>8. fh = NoBlock => ~(k <= FinalHeight(c, fh)) BY <1>5 DEF FinalHeight
<1> HIDE DEF fh, m, k
<1>9. CASE WStart(m) > k
  <2>1. ClassifyBlock(t, x, k) = "OlderThanRecentWindow"
    BY <1>4, <1>5, <1>9 DEF ClassifyBlock
  <2> QED BY <2>1, <1>5, <1>9 DEF Discarded, Gone, fh, m, k
<1>10. CASE WStart(m) <= k
  <2>1. x \in H BY <1>1, <1>5, <1>6, <1>10
  <2>2. ClassifyBlock(t, x, k) =
          IF t.nodes[x].is_final THEN "RecentAndFinal"
          ELSE IF t.final_head # NoBlock /\ k <= HeightOf(t, t.final_head) THEN "NotIncluded"
          ELSE IF t.nodes[x].canonical THEN "OptimisticAndCanonical"
          ELSE "OptimisticButNotCanonical"
    BY <1>4, <1>5, <1>10, <2>1 DEF ClassifyBlock, H
  <2>3. t.nodes[x].is_final <=> x \in F /\ k <= FinalHeight(c, fh)
    BY <1>3, <2>1 DEF UpToFinal, k
  <2>4. (t.final_head # NoBlock /\ k <= HeightOf(t, t.final_head)) <=> k <= FinalHeight(c, fh)
    BY <1>7, <1>8 DEF fh
  <2>5. Gone(c, fh, m, x) <=> x \notin F /\ k <= FinalHeight(c, fh)
    BY <1>5, <1>10 DEF Gone, F, k
  <2> HIDE DEF Gone
  <2>6. ClassifyBlock(t, x, k) \in Discarded <=> Gone(c, fh, m, x)
    BY <2>2, <2>3, <2>4, <2>5 DEF Discarded
  <2> QED BY <2>6 DEF fh, m, k
<1> QED BY <1>5, <1>9, <1>10

\* u is a later tracker than t.
Later(c, t, u) ==
  /\ t.maximum_height_available <= u.maximum_height_available
  /\ FinalHeight(c, t.final_head) <= FinalHeight(c, u.final_head)

\* The types of what a tracker of the delivered blocks holds.
LEMMA TracksTypes ==
  ASSUME NEW c, IsBlockTree(c), NEW D, NEW t, Tracks(c, D, t)
  PROVE  /\ t.maximum_height_available \in Nat
         /\ FinalHeight(c, t.final_head) \in Int
         /\ D \in SUBSET DOMAIN c
         /\ \A x \in DOMAIN c : c[x].height \in Nat
         /\ FinalSet(c) \in SUBSET DOMAIN c
<1>0. TreeOK(c, FinalSet(c)) BY TreeFacts
<1> QED BY <1>0 DEF Tracks, Keeps, FinalHeight, TreeOK, Rises

\* What is gone stays gone.
LEMMA GoneStays ==
  ASSUME NEW c, IsBlockTree(c), NEW D, NEW t, Tracks(c, D, t), NEW E, NEW u, Tracks(c, E, u),
         Later(c, t, u), NEW x \in DOMAIN c, Gone(c, t.final_head, t.maximum_height_available, x)
  PROVE  Gone(c, u.final_head, u.maximum_height_available, x)
<1>1. /\ t.maximum_height_available \in Nat /\ u.maximum_height_available \in Nat
      /\ FinalHeight(c, t.final_head) \in Int /\ FinalHeight(c, u.final_head) \in Int
      /\ c[x].height \in Nat
  BY TracksTypes
<1>2. WStart(t.maximum_height_available) <= WStart(u.maximum_height_available)
      /\ WStart(t.maximum_height_available) \in Nat /\ WStart(u.maximum_height_available) \in Nat
  BY <1>1, WStartFacts DEF Later
<1> QED BY <1>1, <1>2 DEF Gone, Later

\* The stream of final blocks, in ascending order.
StreamOK(c, t, s) ==
  /\ s \in Seq(DOMAIN c)
  /\ Range(s) = UpToFinal(c, FinalSet(c), t.final_head)
  /\ \A i, j \in 1 .. Len(s) : i < j => c[s[i]].height < c[s[j]].height

AscendingIn(c, bs) ==
  CHOOSE s \in [1..Cardinality(bs) -> bs] :
    \A i, j \in DOMAIN s : i < j => c[s[i]].height < c[s[j]].height

\* The ascending sequence of a set of blocks of different heights exists.
LEMMA AscendingFacts ==
  ASSUME NEW c, IsBlockTree(c), NEW bs \in SUBSET FinalSet(c),
         NEW s, s = AscendingIn(c, bs)
  PROVE  /\ s \in Seq(bs)
         /\ Range(s) = bs
         /\ \A i, j \in 1 .. Len(s) : i < j => c[s[i]].height < c[s[j]].height
<1>0. TreeOK(c, FinalSet(c)) BY TreeFacts
<1>1. bs \in SUBSET DOMAIN c BY <1>0 DEF TreeOK
<1>2. IsFiniteSet(bs) BY <1>1, FS_Subset DEF IsBlockTree
<1> DEFINE f == [x \in DOMAIN c |-> c[x].height]
           n == Cardinality(bs)
<1>3. \A x \in bs : f[x] \in Nat /\ f[x] = c[x].height BY <1>0, <1>1 DEF TreeOK, Rises
<1>4. \A x, y \in bs : f[x] = f[y] => x = y BY <1>0, <1>3 DEF TreeOK, IsFinalChain
<1> HIDE DEF f
<1>5. \E q \in [1 .. n -> bs] : \A i, j \in DOMAIN q : i < j => f[q[i]] < f[q[j]]
  BY <1>2, <1>3, <1>4, InOrder
<1>6. \E q \in [1 .. n -> bs] : \A i, j \in DOMAIN q : i < j => c[q[i]].height < c[q[j]].height
  <2>1. PICK q \in [1 .. n -> bs] : \A i, j \in DOMAIN q : i < j => f[q[i]] < f[q[j]] BY <1>5
  <2>2. \A i, j \in DOMAIN q : i < j => c[q[i]].height < c[q[j]].height BY <1>3, <2>1
  <2> QED BY <2>2
<1>7. s \in [1 .. n -> bs] /\ \A i, j \in DOMAIN s : i < j => c[s[i]].height < c[s[j]].height
  BY <1>6 DEF AscendingIn
<1>8. n \in Nat BY <1>2, FS_CardinalityType
<1>9. s \in Seq(bs) /\ Len(s) = n BY <1>7, <1>8
<1>10. s \in Injection(1 .. n, bs)
  <2>1. \A i, j \in 1 .. n : s[i] = s[j] => i = j
    <3> TAKE i, j \in 1 .. n
    <3>1. i \in Int /\ j \in Int /\ c[s[i]].height \in Int /\ c[s[j]].height \in Int
      BY <1>3, <1>7
    <3>2. i < j => c[s[i]].height < c[s[j]].height BY <1>7
    <3>3. j < i => c[s[j]].height < c[s[i]].height BY <1>7
    <3> QED BY <3>1, <3>2, <3>3
  <2> QED BY <1>7, <2>1 DEF Injection, IsInjective
<1>11. IsFiniteSet(1 .. n) /\ Cardinality(1 .. n) = n
  <2>1. Cardinality(1 .. n) = IF 1 > n THEN 0 ELSE n - 1 + 1 BY <1>8, FS_Interval
  <2> QED BY <1>8, <2>1, FS_Interval
<1>12. s \in Surjection(1 .. n, bs) BY <1>2, <1>10, <1>11, FS_Injection
<1>13. Range(s) = bs BY <1>7, <1>12 DEF Surjection, Range
<1> QED BY <1>7, <1>9, <1>13

\* The stream goes on with the blocks that become final.
LEMMA StreamGrows ==
  ASSUME NEW c, IsBlockTree(c), NEW D, NEW t, Tracks(c, D, t), NEW E, NEW u, Tracks(c, E, u),
         Later(c, t, u), NEW s, StreamOK(c, t, s), NEW new,
         new = UpToFinal(c, FinalSet(c), u.final_head) \ UpToFinal(c, FinalSet(c), t.final_head)
  PROVE  /\ StreamOK(c, u, s \o AscendingIn(c, new))
         /\ Range(s \o AscendingIn(c, new)) = Range(s) \cup new
<1> DEFINE a == AscendingIn(c, new)
           F == FinalSet(c)
<1>0. new \in SUBSET F BY DEF UpToFinal
<1>1. /\ a \in Seq(new) /\ Range(a) = new
      /\ \A i, j \in 1 .. Len(a) : i < j => c[a[i]].height < c[a[j]].height
  BY <1>0, AscendingFacts
<1>t. /\ FinalHeight(c, t.final_head) \in Int /\ FinalHeight(c, u.final_head) \in Int
      /\ F \in SUBSET DOMAIN c /\ \A x \in DOMAIN c : c[x].height \in Nat
  BY TracksTypes
<1>2. s \in Seq(DOMAIN c) /\ Range(s) = UpToFinal(c, F, t.final_head)
      /\ \A i, j \in 1 .. Len(s) : i < j => c[s[i]].height < c[s[j]].height
  BY DEF StreamOK
<1>3. a \in Seq(DOMAIN c) BY <1>0, <1>1, <1>t
<1> HIDE DEF a, F
<1>4. /\ s \o a \in Seq(DOMAIN c) /\ Len(s \o a) = Len(s) + Len(a)
      /\ Len(s) \in Nat /\ Len(a) \in Nat
      /\ \A i \in 1 .. Len(s) : (s \o a)[i] = s[i]
      /\ \A i \in Len(s) + 1 .. Len(s) + Len(a) : (s \o a)[i] = a[i - Len(s)]
  BY <1>2, <1>3, ConcatProperties, LenProperties
<1>5. DOMAIN s = 1 .. Len(s) /\ DOMAIN a = 1 .. Len(a)
      /\ DOMAIN (s \o a) = 1 .. Len(s) + Len(a)
  BY <1>2, <1>3, <1>4, LenProperties
<1>6. Range(s \o a) = Range(s) \cup new
  <2>1. ASSUME NEW i \in 1 .. Len(s) + Len(a) PROVE (s \o a)[i] \in Range(s) \cup Range(a)
    <3>1. CASE i \in 1 .. Len(s) BY <3>1, <1>4, <1>5 DEF Range
    <3>2. CASE i \in Len(s) + 1 .. Len(s) + Len(a)
      <4>1. i - Len(s) \in 1 .. Len(a) BY <3>2, <1>4
      <4> QED BY <4>1, <3>2, <1>4, <1>5 DEF Range
    <3> QED BY <3>1, <3>2, <1>4
  <2>2. ASSUME NEW i \in 1 .. Len(s) PROVE s[i] \in Range(s \o a)
    <3>1. i \in 1 .. Len(s) + Len(a) /\ (s \o a)[i] = s[i] BY <1>4
    <3> QED BY <3>1, <1>5 DEF Range
  <2>3. ASSUME NEW i \in 1 .. Len(a) PROVE a[i] \in Range(s \o a)
    <3>1. Len(s) + i \in Len(s) + 1 .. Len(s) + Len(a) /\ (Len(s) + i) - Len(s) = i BY <1>4
    <3>2. Len(s) + i \in 1 .. Len(s) + Len(a) BY <1>4
    <3>3. (s \o a)[Len(s) + i] = a[i] BY <3>1, <1>4
    <3> QED BY <3>2, <3>3, <1>5 DEF Range
  <2> QED BY <2>1, <2>2, <2>3, <1>1, <1>5 DEF Range
<1>7. Range(s \o a) = UpToFinal(c, F, u.final_head)
  <2>1. UpToFinal(c, F, t.final_head) \subseteq UpToFinal(c, F, u.final_head)
    <3>1. \A x \in F : c[x].height \in Int BY <1>t
    <3> QED BY <3>1, <1>t DEF UpToFinal, Later
  <2> QED BY <2>1, <1>2, <1>6 DEF F
<1>8. ASSUME NEW i \in 1 .. Len(s \o a), NEW j \in 1 .. Len(s \o a), i < j
      PROVE  c[(s \o a)[i]].height < c[(s \o a)[j]].height
  <2>0. i \in Int /\ j \in Int BY <1>4
  <2>1. CASE i \in 1 .. Len(s) /\ j \in 1 .. Len(s) BY <2>1, <1>2, <1>4, <1>8
  <2>2. CASE i \in Len(s) + 1 .. Len(s) + Len(a) /\ j \in Len(s) + 1 .. Len(s) + Len(a)
    <3>1. i - Len(s) \in 1 .. Len(a) /\ j - Len(s) \in 1 .. Len(a) /\ i - Len(s) < j - Len(s)
      BY <2>2, <1>4, <1>8
    <3> QED BY <3>1, <2>2, <1>1, <1>4 DEF a
  <2>3. CASE i \in 1 .. Len(s) /\ j \in Len(s) + 1 .. Len(s) + Len(a)
    <3>1. j - Len(s) \in 1 .. Len(a) BY <2>3, <1>4
    <3>2. s[i] \in UpToFinal(c, F, t.final_head) BY <2>3, <1>2, <1>5 DEF Range, F
    <3>3. a[j - Len(s)] \in F /\ a[j - Len(s)] \notin UpToFinal(c, F, t.final_head)
      BY <3>1, <1>0, <1>1, <1>5 DEF Range, F, a
    <3>4. c[s[i]].height <= FinalHeight(c, t.final_head) /\ s[i] \in F BY <3>2 DEF UpToFinal
    <3>5. ~(c[a[j - Len(s)]].height <= FinalHeight(c, t.final_head)) BY <3>3 DEF UpToFinal
    <3>6. c[s[i]].height \in Int /\ c[a[j - Len(s)]].height \in Int BY <3>3, <3>4, <1>t
    <3> QED BY <3>4, <3>5, <3>6, <1>t, <1>4, <2>3
  <2> QED BY <2>0, <2>1, <2>2, <2>3, <1>4, <1>8
<1>9. StreamOK(c, u, s \o a) BY <1>4, <1>7, <1>8 DEF StreamOK, F
<1> QED BY <1>6, <1>9 DEF a

\* Each final block of the stream is the child of the one before.
LEMMA StreamContiguous ==
  ASSUME NEW c, IsBlockTree(c), NEW D, NEW t, Tracks(c, D, t), NEW s, StreamOK(c, t, s)
  PROVE  \A i \in 1 .. Len(s) - 1 : c[s[i + 1]].prev_hash = s[i]
<1> DEFINE F == FinalSet(c)
<1>0. TreeOK(c, F) BY TreeFacts
<1>t. /\ FinalHeight(c, t.final_head) \in Int /\ F \in SUBSET DOMAIN c
      /\ \A x \in DOMAIN c : c[x].height \in Nat
  BY TracksTypes
<1>2. s \in Seq(DOMAIN c) /\ Range(s) = UpToFinal(c, F, t.final_head)
      /\ \A i, j \in 1 .. Len(s) : i < j => c[s[i]].height < c[s[j]].height
  BY DEF StreamOK
<1>3. Len(s) \in Nat /\ DOMAIN s = 1 .. Len(s) BY <1>2, LenProperties
<1> HIDE DEF F
<1> TAKE i \in 1 .. Len(s) - 1
<1>4. i \in 1 .. Len(s) /\ i + 1 \in 1 .. Len(s) /\ i \in Int BY <1>3
<1>5. PICK x, y : x = s[i] /\ y = s[i + 1] OBVIOUS
<1>6. x \in UpToFinal(c, F, t.final_head) /\ y \in UpToFinal(c, F, t.final_head)
  BY <1>2, <1>3, <1>4, <1>5 DEF Range
<1>7. x \in F /\ y \in F /\ c[y].height <= FinalHeight(c, t.final_head) BY <1>6 DEF UpToFinal
<1>8. c[x].height < c[y].height BY <1>2, <1>4, <1>5
<1>9. PICK p : p = c[y].prev_hash OBVIOUS
<1>10. p \in F /\ c[x].height <= c[p].height
  BY <1>0, <1>7, <1>8, <1>9 DEF TreeOK, IsFinalChain
<1>11. c[p].height < c[y].height BY <1>0, <1>7, <1>9, <1>10, <1>t DEF TreeOK, Rises
<1>d. x \in DOMAIN c /\ p \in DOMAIN c /\ y \in DOMAIN c BY <1>7, <1>10, <1>t
<1>12. c[x].height \in Int /\ c[p].height \in Int /\ c[y].height \in Int BY <1>d, <1>t
<1>13. p \in UpToFinal(c, F, t.final_head) BY <1>7, <1>10, <1>11, <1>12, <1>t DEF UpToFinal
<1>14. PICK j \in 1 .. Len(s) : p = s[j] BY <1>2, <1>3, <1>13 DEF Range
<1>15. j \in Int /\ ~(i + 1 < j) /\ j # i + 1
  <2>1. i + 1 < j => c[y].height < c[p].height BY <1>2, <1>4, <1>5, <1>14
  <2> QED BY <2>1, <1>3, <1>5, <1>11, <1>12, <1>14
<1>16. ~(j < i)
  <2>1. j < i => c[p].height < c[x].height BY <1>2, <1>4, <1>5, <1>14
  <2> QED BY <2>1, <1>10, <1>12
<1>17. j = i BY <1>4, <1>15, <1>16
<1> QED BY <1>5, <1>9, <1>14, <1>17
-----------------------------------------------------------------------------
(* The queue. *)

Queued(c, D, q, s) ==
  \A r \in q : r \in RequestIds /\ HomeOf(c, r) \in D /\ r \notin CompletedIn(c, Range(s))

\* A request that can be answered: received, not gone, not answered, attempts left.
Answerable(c, D, t, s, p, r) ==
  /\ HomeOf(c, r) \in D
  /\ ~Gone(c, t.final_head, t.maximum_height_available, HomeOf(c, r))
  /\ r \notin CompletedIn(c, Range(s))
  /\ p[r].attempts < MaxLeaderAttempts

NotForgotten(c, D, t, q, s, p) ==
  \A r \in RequestIds : Answerable(c, D, t, s, p, r) => r \in q

ProgressType == [RequestIds -> [attempts : 0..MaxLeaderAttempts, computed : BOOLEAN,
                                waiting : BOOLEAN]]
TaskType == [id : RequestIds, attempt : 1..MaxLeaderAttempts, pc : {"compute", "submit"}]
NetworkType == [connected : SUBSET (Participants \ {Me}), heights : [Participants -> Nat]]

OneTaskEach(T, p) ==
  /\ \A k1, k2 \in T : k1.id = k2.id => k1 = k2
  /\ \A k \in T : (k.pc = "compute") <=> ~p[k.id].computed

BlocksInv == tree \in Chains /\ Tracks(tree, delivered, tracker)
StreamInv == StreamOK(tree, tracker, finalStream)
QueuedInv == Queued(tree, delivered, queue, finalStream) /\ due \subseteq queue
KeptInv == NotForgotten(tree, delivered, tracker, queue, finalStream, progress)
WorkInv == progress \in ProgressType /\ tasks \subseteq TaskType /\ OneTaskEach(tasks, progress)
QueueEnvInv == /\ network \in NetworkType /\ started \in BOOLEAN
               /\ networkChanges \in 0..MaxNetworkChanges

QueueInv == BlocksInv /\ StreamInv /\ QueuedInv /\ KeptInv /\ WorkInv /\ QueueEnvInv

\* Every chain is a tree of blocks.
LEMMA TreeOfChains == ASSUME NEW c \in Chains PROVE IsBlockTree(c)
BY QueueAssumption

\* What the queue is after a block, before the checks.
LEMMA BlockQueued ==
  ASSUME NEW c, IsBlockTree(c), NEW D, NEW t, Tracks(c, D, t), NEW b \in DOMAIN c, b \notin D,
         NEW u, Tracks(c, D \cup {b}, u), Later(c, t, u), NEW s, NEW s2, NEW new,
         StreamOK(c, u, s2), Range(s2) = Range(s) \cup new, NEW q, Queued(c, D, q, s),
         NEW p, NotForgotten(c, D, t, q, s, p),
         NEW q2, q2 = (q \ CompletedIn(c, new)) \cup c[b].requests
  PROVE  Queued(c, D \cup {b}, q2, s2) /\ NotForgotten(c, D \cup {b}, u, q2, s2, p)
<1>0. \A r : r \in CompletedIn(c, Range(s2)) <=>
               r \in CompletedIn(c, Range(s)) \/ r \in CompletedIn(c, new)
  BY DEF CompletedIn
<1>d. /\ D \in SUBSET DOMAIN c
      /\ \A e \in D : c[e].prev_hash \in DOMAIN c => c[e].prev_hash \in D
  BY DEF Tracks, Keeps
<1>1. ASSUME NEW r \in q2
      PROVE  r \in RequestIds /\ HomeOf(c, r) \in D \cup {b} /\ r \notin CompletedIn(c, Range(s2))
  <2>1. CASE r \in q \ CompletedIn(c, new) BY <2>1, <1>0 DEF Queued
  <2>2. CASE r \in c[b].requests
    <3>1. r \in RequestIds /\ r \notin c[b].completed BY <2>2 DEF IsBlockTree
    <3>2. HomeOf(c, r) = b BY <2>2, <3>1, HomeFacts
    <3>3. ASSUME NEW f \in Range(s2), r \in c[f].completed PROVE FALSE
      <4>1. f \in UpToFinal(c, FinalSet(c), u.final_head) BY <3>3 DEF StreamOK
      <4>2. f \in D \cup {b}
        <5>1. UpToFinal(c, FinalSet(c), u.final_head) \subseteq D \cup {b}
          BY TreeFacts, FinalDelivered DEF Tracks
        <5> QED BY <4>1, <5>1
      <4>3. f \in D BY <4>2, <3>1, <3>3
      <4>4. HomeOf(c, r) \in D BY <4>3, <3>1, <3>3, <1>d, HomeFacts
      <4> QED BY <4>4, <3>2
    <3> QED BY <3>1, <3>2, <3>3 DEF CompletedIn
  <2> QED BY <2>1, <2>2
<1>2. ASSUME NEW r \in RequestIds, Answerable(c, D \cup {b}, u, s2, p, r) PROVE r \in q2
  <2>1. CASE HomeOf(c, r) = b BY <2>1, HomeFacts
  <2>2. CASE HomeOf(c, r) # b
    <3>1. HomeOf(c, r) \in D /\ HomeOf(c, r) \in DOMAIN c BY <2>2, <1>2, <1>d DEF Answerable
    <3>2. ~Gone(c, t.final_head, t.maximum_height_available, HomeOf(c, r))
      BY <3>1, <1>2, GoneStays DEF Answerable
    <3>3. r \in q BY <3>1, <3>2, <1>0, <1>2 DEF NotForgotten, Answerable
    <3> QED BY <3>3, <1>0, <1>2 DEF Answerable
  <2> QED BY <2>1, <2>2
<1> QED BY <1>1, <1>2 DEF Queued, NotForgotten

\* A delivered block.
LEMMA BlockTracked ==
  ASSUME NEW c, IsBlockTree(c), NEW D, NEW t, Tracks(c, D, t), NEW b \in DOMAIN c, b \notin D,
         c[b].prev_hash \in DOMAIN c => c[b].prev_hash \in D, NEW s, StreamOK(c, t, s)
  PROVE  LET u == AddBlock(t, b, c[b])
             new == NewFinalBlocks(t, b, c[b])
         IN  /\ Tracks(c, D \cup {b}, u) /\ Later(c, t, u)
             /\ StreamOK(c, u, s \o AscendingIn(c, new))
             /\ Range(s \o AscendingIn(c, new)) = Range(s) \cup new
<1> DEFINE u == AddBlock(t, b, c[b])
           new == NewFinalBlocks(t, b, c[b])
           F == FinalSet(c)
           fh == t.final_head
           m == t.maximum_height_available
<1>0. TreeOK(c, F) BY TreeFacts
<1>1. Advances(c, F, D \cup {b}, fh, m, u, new) BY <1>0, AddBlockForm DEF Tracks
<1> HIDE DEF u, new
<1>2. PICK K, ch, g, n :
        /\ u = TrackerOf(c, F, K, ch, g, n) /\ Keeps(c, F, D \cup {b}, K, ch, g, n)
        /\ m <= n /\ FinalHeight(c, fh) <= FinalHeight(c, g)
        /\ new = UpToFinal(c, F, g) \ UpToFinal(c, F, fh)
  BY <1>1 DEF Advances
<1>3. Tracks(c, D \cup {b}, u) /\ u.final_head = g /\ u.maximum_height_available = n
  BY <1>2, TracksIntro
<1>4. Later(c, t, u) BY <1>2, <1>3 DEF Later
<1>5. /\ StreamOK(c, u, s \o AscendingIn(c, new))
      /\ Range(s \o AscendingIn(c, new)) = Range(s) \cup new
  BY <1>2, <1>3, <1>4, StreamGrows
<1> QED BY <1>3, <1>4, <1>5 DEF u, new

\* The height the checks of the queue are told.
LEMMA MaximumHeightNat == ASSUME NEW net \in NetworkType PROVE MaximumHeight(net) \in Nat
<1> DEFINE A == AliveParticipants(net)
<1>1. net.heights \in [Participants -> Nat] /\ net.connected \in SUBSET Participants
  BY DEF NetworkType
<1>2. A \in SUBSET Participants /\ A # {} BY <1>1, QueueAssumption DEF AliveParticipants
<1> HIDE DEF A
<1>3. IsFiniteSet(A) BY <1>2, QueueAssumption, FS_Subset
<1>4. \A p \in A : net.heights[p] \in Nat BY <1>1, <1>2
<1>5. PICK f : f = net.heights OBVIOUS
<1>6. Max({f[p] : p \in A}) \in Nat BY <1>2, <1>3, <1>4, <1>5, MaxOfFinite
<1> QED BY <1>5, <1>6 DEF MaximumHeight, A

\* What a check may decide.
LEMMA VerdictFacts ==
  ASSUME NEW t, NEW r, NEW e
  PROVE  /\ Verdict(t, r, e) = "discard" =>
              Class(t, r) \in Discarded \/ progress[r].attempts >= MaxLeaderAttempts
         /\ Verdict(t, r, e) = "attempt" =>
              /\ Class(t, r) \notin Discarded
              /\ ~(progress[r].attempts >= MaxLeaderAttempts)
BY DEF Verdict

Attempted(p, A) ==
  [r \in RequestIds |-> IF r \in A THEN [p[r] EXCEPT !.attempts = @ + 1] ELSE p[r]]

NewTasks(p, A) ==
  {[id |-> r, attempt |-> p[r].attempts + 1,
    pc |-> IF p[r].computed THEN "submit" ELSE "compute"] : r \in A}

\* New attempts keep the work in order.
LEMMA AttemptsOK ==
  ASSUME NEW p \in ProgressType, NEW T \in SUBSET TaskType, OneTaskEach(T, p),
         NEW A \in SUBSET RequestIds,
         \A r \in A : ~(p[r].attempts >= MaxLeaderAttempts) /\ ~\E k \in T : k.id = r
  PROVE  /\ Attempted(p, A) \in ProgressType
         /\ T \cup NewTasks(p, A) \in SUBSET TaskType
         /\ OneTaskEach(T \cup NewTasks(p, A), Attempted(p, A))
         /\ \A r \in RequestIds : /\ p[r].attempts <= Attempted(p, A)[r].attempts
                                  /\ p[r].attempts < Attempted(p, A)[r].attempts => r \in A
<1> DEFINE p2 == Attempted(p, A)
<1>0. MaxLeaderAttempts \in Nat BY QueueAssumption
<1>1. \A r \in RequestIds :
        /\ p[r].attempts \in 0..MaxLeaderAttempts /\ p[r].computed \in BOOLEAN
        /\ p[r].waiting \in BOOLEAN
        /\ p[r] \in [attempts : 0..MaxLeaderAttempts, computed : BOOLEAN, waiting : BOOLEAN]
  BY DEF ProgressType
<1>2. \A r \in A : p[r].attempts + 1 \in 1..MaxLeaderAttempts BY <1>0, <1>1
<1>3. \A r \in RequestIds : r \in A => p2[r] = [p[r] EXCEPT !.attempts = @ + 1] BY DEF Attempted
<1>4. \A r \in RequestIds : r \notin A => p2[r] = p[r] BY DEF Attempted
<1>5. \A r \in A : /\ p2[r].attempts = p[r].attempts + 1
                   /\ p2[r].computed = p[r].computed
                   /\ p2[r] \in [attempts : 0..MaxLeaderAttempts, computed : BOOLEAN,
                                 waiting : BOOLEAN]
  <2> TAKE r \in A
  <2>1. PICK e : e = p[r] OBVIOUS
  <2>2. e \in [attempts : 0..MaxLeaderAttempts, computed : BOOLEAN, waiting : BOOLEAN]
    BY <1>1, <2>1
  <2>3. e.attempts + 1 \in 0..MaxLeaderAttempts BY <1>0, <1>2, <2>1
  <2>4. p2[r] = [e EXCEPT !.attempts = e.attempts + 1] BY <1>3, <2>1
  <2>5. PICK n : n = e.attempts + 1 OBVIOUS
  <2>6. p2[r] = [e EXCEPT !.attempts = n] BY <2>4, <2>5
  <2> HIDE DEF p2
  <2>7. p2[r].attempts = n /\ p2[r].computed = e.computed BY <2>2, <2>6
  <2>8. p2[r] \in [attempts : 0..MaxLeaderAttempts, computed : BOOLEAN, waiting : BOOLEAN]
    BY <2>2, <2>3, <2>5, <2>6
  <2> QED BY <2>1, <2>5, <2>7, <2>8
<1>6. p2 \in ProgressType
  <2>1. \A r \in RequestIds : p2[r] \in [attempts : 0..MaxLeaderAttempts, computed : BOOLEAN,
                                         waiting : BOOLEAN]
    BY <1>1, <1>4, <1>5
  <2>2. p2 = [r \in RequestIds |-> p2[r]] BY DEF Attempted
  <2> HIDE DEF p2
  <2> QED BY <2>1, <2>2 DEF ProgressType
<1>7. \A r \in RequestIds : p2[r].computed = p[r].computed BY <1>4, <1>5
<1> HIDE DEF p2
<1>8. ASSUME NEW k \in NewTasks(p, A)
      PROVE  k \in TaskType /\ k.id \in A /\ ((k.pc = "compute") <=> ~p2[k.id].computed)
             /\ k.attempt = p[k.id].attempts + 1
  <2>1. PICK r \in A : k = [id |-> r, attempt |-> p[r].attempts + 1,
                            pc |-> IF p[r].computed THEN "submit" ELSE "compute"]
    BY <1>8 DEF NewTasks
  <2>2. k.id = r /\ k.attempt = p[r].attempts + 1
        /\ k.pc = IF p[r].computed THEN "submit" ELSE "compute"
    BY <2>1
  <2>3. k \in TaskType BY <2>1, <1>2 DEF TaskType
  <2>4. p2[r].computed = p[r].computed BY <1>7
  <2> QED BY <2>2, <2>3, <2>4
<1>9. T \cup NewTasks(p, A) \in SUBSET TaskType BY <1>8
<1>10. OneTaskEach(T \cup NewTasks(p, A), p2)
  <2>1. ASSUME NEW k1 \in T \cup NewTasks(p, A), NEW k2 \in T \cup NewTasks(p, A), k1.id = k2.id
        PROVE  k1 = k2
    <3>1. CASE k1 \in T /\ k2 \in T BY <3>1, <2>1 DEF OneTaskEach
    <3>2. CASE k1 \in T /\ k2 \in NewTasks(p, A) BY <3>2, <2>1, <1>8
    <3>3. CASE k1 \in NewTasks(p, A) /\ k2 \in T BY <3>3, <2>1, <1>8
    <3>4. CASE k1 \in NewTasks(p, A) /\ k2 \in NewTasks(p, A) BY <3>4, <2>1 DEF NewTasks
    <3> QED BY <3>1, <3>2, <3>3, <3>4
  <2>2. ASSUME NEW k \in T PROVE (k.pc = "compute") <=> ~p2[k.id].computed
    <3>1. (k.pc = "compute") <=> ~p[k.id].computed BY DEF OneTaskEach
    <3>2. k.id \in RequestIds BY DEF TaskType
    <3>3. p2[k.id].computed = p[k.id].computed BY <3>2, <1>7
    <3> QED BY <3>1, <3>3
  <2> QED BY <2>1, <2>2, <1>8 DEF OneTaskEach
<1>11. \A r \in RequestIds : /\ p[r].attempts <= p2[r].attempts
                             /\ p[r].attempts < p2[r].attempts => r \in A
  BY <1>1, <1>4, <1>5
<1> QED BY <1>6, <1>9, <1>10, <1>11 DEF p2

\* The end of an iteration: checks of the requests that are due.
ChecksDone(D, q, s) ==
  /\ Tracks(tree, D, tracker') /\ StreamOK(tree, tracker', s)
  /\ Queued(tree, D, queue', s) /\ due' \subseteq queue'
  /\ NotForgotten(tree, D, tracker', queue', s, progress')
  /\ progress' \in ProgressType /\ tasks' \subseteq TaskType /\ OneTaskEach(tasks', progress')
  /\ \A r \in RequestIds : progress[r].attempts < progress'[r].attempts =>
       /\ r \in q /\ HomeOf(tree, r) \in D
       /\ ~Gone(tree, tracker'.final_head, tracker'.maximum_height_available, HomeOf(tree, r))

\* The stream depends on the final head of the tracker only.
LEMMA StreamSame ==
  ASSUME NEW c, NEW t, NEW u, t.final_head = u.final_head, NEW s, StreamOK(c, t, s)
  PROVE  StreamOK(c, u, s)
BY DEF StreamOK

\* The checks at the end of an iteration discard no request that can be answered.
LEMMA ChecksOK ==
  ASSUME IsBlockTree(tree), NEW D, NEW t, Tracks(tree, D, t), NEW q, NEW d \in SUBSET q,
         NEW s, StreamOK(tree, t, s), Queued(tree, D, q, s),
         NotForgotten(tree, D, t, q, s, progress), WorkInv, network' \in NetworkType,
         AfterEvent(t, q, d)
  PROVE  ChecksDone(D, q, s)
<1>w. progress \in ProgressType /\ tasks \in SUBSET TaskType /\ OneTaskEach(tasks, progress)
  BY DEF WorkInv
<1>1. CASE ~started
  <2>1. tracker' = t /\ queue' = q /\ due' = d /\ progress' = progress /\ tasks' = tasks
    BY <1>1 DEF AfterEvent
  <2>2. \A r \in RequestIds : progress[r].attempts \in Int BY <1>w, QueueAssumption DEF ProgressType
  <2>3. \A r \in RequestIds : ~(progress[r].attempts < progress'[r].attempts) BY <2>1, <2>2
  <2> QED BY <2>1, <2>3, <1>w DEF ChecksDone
<1>2. CASE started
  <2>1. GetRequestsToAttempt(t, q, d) BY <1>2 DEF AfterEvent
  <2>2. PICK k \in Nat : k = MaximumHeight(network') BY MaximumHeightNat
  <2>3. tracker' = NotifyMaximumHeightAvailable(t, k) BY <2>1, <2>2 DEF GetRequestsToAttempt
  <2>4. PICK u : u = tracker' OBVIOUS
  <2>5. Tracks(tree, D, u) /\ u.final_head = t.final_head /\ Later(tree, t, u)
    <3>1. TreeOK(tree, FinalSet(tree)) BY TreeFacts
    <3>2. PICK K, n : /\ NotifyMaximumHeightAvailable(t, k) =
                           TrackerOf(tree, FinalSet(tree), K, t.canonical_head, t.final_head, n)
                      /\ Keeps(tree, FinalSet(tree), D, K, t.canonical_head, t.final_head, n)
                      /\ t.maximum_height_available <= n
      BY <3>1, NotifyForm DEF Tracks
    <3>3. Tracks(tree, D, u) /\ u.final_head = t.final_head /\ u.maximum_height_available = n
      BY <3>2, <2>3, <2>4, TracksIntro
    <3>4. FinalHeight(tree, t.final_head) \in Int BY TracksTypes
    <3> QED BY <3>2, <3>3, <3>4 DEF Later
  <2>6. StreamOK(tree, u, s) BY <2>5, StreamSame
  <2> DEFINE verdict == [r \in {x \in d : ~HasAttempt(x)} |->
                           Verdict(tracker', r, EligibleLeaders(network'))]
             A == {r \in DOMAIN verdict : verdict[r] = "attempt"}
             B == {r \in DOMAIN verdict : verdict[r] = "discard"}
  <2>7. /\ queue' = q \ B
        /\ progress' = Attempted(progress, A)
        /\ tasks' = tasks \cup NewTasks(progress, A)
        /\ due' = {}
    BY <2>1 DEF GetRequestsToAttempt, Attempted, NewTasks
  <2>8. \A r \in DOMAIN verdict : /\ r \in d /\ ~HasAttempt(r)
                                  /\ verdict[r] = Verdict(u, r, EligibleLeaders(network'))
    BY <2>4
  <2> HIDE DEF verdict
  <2>9. ASSUME NEW r \in DOMAIN verdict
        PROVE  /\ r \in q /\ r \in RequestIds /\ HomeOf(tree, r) \in D
               /\ Class(u, r) \in Discarded <=>
                    Gone(tree, u.final_head, u.maximum_height_available, HomeOf(tree, r))
    <3>1. r \in q BY <2>8
    <3>2. r \in RequestIds /\ HomeOf(tree, r) \in D BY <3>1 DEF Queued
    <3>3. Class(u, r) = ClassifyBlock(u, HomeOf(tree, r), tree[HomeOf(tree, r)].height)
      BY DEF Class, BlockOf, HomeOf
    <3> QED BY <3>1, <3>2, <3>3, <2>5, ClassForm
  <2>10. ASSUME NEW r \in A
         PROVE  /\ r \in q /\ r \in RequestIds /\ HomeOf(tree, r) \in D /\ ~HasAttempt(r)
                /\ ~Gone(tree, u.final_head, u.maximum_height_available, HomeOf(tree, r))
                /\ ~(progress[r].attempts >= MaxLeaderAttempts)
    <3>1. r \in DOMAIN verdict /\ Verdict(u, r, EligibleLeaders(network')) = "attempt" BY <2>8
    <3>2. Class(u, r) \notin Discarded /\ ~(progress[r].attempts >= MaxLeaderAttempts)
      BY <3>1, VerdictFacts
    <3> QED BY <3>1, <3>2, <2>8, <2>9
  <2>11. ASSUME NEW r \in B
         PROVE  \/ Gone(tree, u.final_head, u.maximum_height_available, HomeOf(tree, r))
                \/ progress[r].attempts >= MaxLeaderAttempts
    <3>1. r \in DOMAIN verdict /\ Verdict(u, r, EligibleLeaders(network')) = "discard" BY <2>8
    <3>2. Class(u, r) \in Discarded \/ progress[r].attempts >= MaxLeaderAttempts
      BY <3>1, VerdictFacts
    <3> QED BY <3>1, <3>2, <2>9
  <2>12. /\ progress' \in ProgressType /\ tasks' \in SUBSET TaskType
         /\ OneTaskEach(tasks', progress')
         /\ \A r \in RequestIds : /\ progress[r].attempts <= progress'[r].attempts
                                  /\ progress[r].attempts < progress'[r].attempts => r \in A
    <3>1. A \in SUBSET RequestIds BY <2>10
    <3>2. \A r \in A : /\ ~(progress[r].attempts >= MaxLeaderAttempts)
                       /\ ~\E z \in tasks : z.id = r
      BY <2>10 DEF HasAttempt
    <3> HIDE DEF A, B
    <3>3. /\ Attempted(progress, A) \in ProgressType
          /\ tasks \cup NewTasks(progress, A) \in SUBSET TaskType
          /\ OneTaskEach(tasks \cup NewTasks(progress, A), Attempted(progress, A))
          /\ \A r \in RequestIds :
               /\ progress[r].attempts <= Attempted(progress, A)[r].attempts
               /\ progress[r].attempts < Attempted(progress, A)[r].attempts => r \in A
      BY <3>1, <3>2, <1>w, AttemptsOK
    <3> QED BY <3>3, <2>7
  <2> HIDE DEF A, B
  <2>13. Queued(tree, D, queue', s) BY <2>7 DEF Queued
  <2>14. NotForgotten(tree, D, u, queue', s, progress')
    <3> SUFFICES ASSUME NEW r \in RequestIds, Answerable(tree, D, u, s, progress', r)
                 PROVE  r \in queue'
      BY DEF NotForgotten
    <3>1. /\ HomeOf(tree, r) \in D /\ r \notin CompletedIn(tree, Range(s))
          /\ ~Gone(tree, u.final_head, u.maximum_height_available, HomeOf(tree, r))
          /\ progress'[r].attempts < MaxLeaderAttempts
      BY DEF Answerable
    <3>2. progress[r].attempts < MaxLeaderAttempts /\ progress[r].attempts \in Int
          /\ MaxLeaderAttempts \in Int
      <4>1. progress[r].attempts \in Int /\ progress'[r].attempts \in Int
            /\ MaxLeaderAttempts \in Int
        BY <1>w, <2>12, QueueAssumption DEF ProgressType
      <4> QED BY <4>1, <3>1, <2>12
    <3>3. HomeOf(tree, r) \in DOMAIN tree BY HomeFacts
    <3>4. ~Gone(tree, t.final_head, t.maximum_height_available, HomeOf(tree, r))
      BY <3>1, <3>3, <2>5, GoneStays
    <3>5. r \in q BY <3>1, <3>2, <3>4 DEF NotForgotten, Answerable
    <3>6. r \notin B BY <3>1, <3>2, <2>11
    <3> QED BY <3>5, <3>6, <2>7
  <2>15. \A r \in RequestIds : progress[r].attempts < progress'[r].attempts =>
           /\ r \in q /\ HomeOf(tree, r) \in D
           /\ ~Gone(tree, u.final_head, u.maximum_height_available, HomeOf(tree, r))
    BY <2>10, <2>12
  <2>16. due' \subseteq queue' BY <2>7
  <2> QED BY <2>4, <2>5, <2>6, <2>12, <2>13, <2>14, <2>15, <2>16 DEF ChecksDone
<1> QED BY <1>1, <1>2
-----------------------------------------------------------------------------
(* The invariant holds at the start and after every step. *)

\* The invariant holds at the start.
LEMMA QueueInitOK == Init => QueueInv
<1> SUFFICES ASSUME Init PROVE QueueInv OBVIOUS
<1>0. tree \in Chains /\ IsBlockTree(tree) BY TreeOfChains DEF Init
<1> DEFINE F == FinalSet(tree)
<1>1. TreeOK(tree, F) BY <1>0, TreeFacts
<1>2. tracker = TrackerOf(tree, F, {}, NoBlock, NoBlock, 0)
  BY DEF Init, NewTracker, TrackerOf
<1>3. Keeps(tree, F, {}, {}, NoBlock, NoBlock, 0) BY DEF Keeps
<1>4. Tracks(tree, {}, tracker) /\ tracker.final_head = NoBlock BY <1>2, <1>3, TracksIntro
<1>5. BlocksInv BY <1>0, <1>4 DEF BlocksInv, Init
<1>6. StreamInv
  <2>1. UpToFinal(tree, F, NoBlock) = {}
    <3>1. \A x \in F : tree[x].height \in Nat BY <1>1 DEF TreeOK, Rises
    <3> QED BY <3>1 DEF UpToFinal, FinalHeight
  <2>2. finalStream = <<>> /\ Range(<<>>) = {} BY DEF Init, Range
  <2>3. finalStream \in Seq(DOMAIN tree) /\ Len(finalStream) = 0 BY <2>2
  <2>4. Range(finalStream) = UpToFinal(tree, FinalSet(tree), tracker.final_head)
    BY <2>1, <2>2, <1>4
  <2>5. \A i, j \in 1 .. Len(finalStream) : i < j =>
          tree[finalStream[i]].height < tree[finalStream[j]].height
    <3>1. 1 .. Len(finalStream) = {} BY <2>3
    <3> QED BY <3>1
  <2> QED BY <2>3, <2>4, <2>5 DEF StreamInv, StreamOK
<1>7. QueuedInv BY DEF QueuedInv, Queued, Init
<1>8. KeptInv BY DEF KeptInv, NotForgotten, Answerable, Init
<1>9. WorkInv
  <2>1. progress \in ProgressType BY QueueAssumption DEF Init, ProgressType
  <2> QED BY <2>1 DEF WorkInv, OneTaskEach, Init
<1>10. QueueEnvInv
  <2>1. network = [connected |-> Participants \ {Me}, heights |-> [p \in Participants |-> 0]]
    BY DEF Init
  <2>2. [p \in Participants |-> 0] \in [Participants -> Nat] OBVIOUS
  <2>3. network \in NetworkType BY <2>1, <2>2 DEF NetworkType
  <2>4. started \in BOOLEAN BY DEF Init
  <2>5. networkChanges \in 0 .. MaxNetworkChanges BY QueueAssumption DEF Init
  <2> QED BY <2>3, <2>4, <2>5 DEF QueueEnvInv
<1> QED BY <1>5, <1>6, <1>7, <1>8, <1>9, <1>10 DEF QueueInv

\* Steps that leave the blocks, the queue and the number of attempts alone.
LEMMA QueueFrame ==
  ASSUME QueueInv,
         UNCHANGED <<tree, delivered, tracker, finalStream, queue>>, due' \subseteq queue',
         \A r \in RequestIds : progress'[r].attempts = progress[r].attempts
  PROVE  BlocksInv' /\ StreamInv' /\ QueuedInv' /\ KeptInv'
<1>1. BlocksInv' BY DEF QueueInv, BlocksInv
<1>2. StreamInv' BY DEF QueueInv, StreamInv
<1>3. QueuedInv' BY DEF QueueInv, QueuedInv
<1>4. NotForgotten(tree, delivered, tracker, queue, finalStream, progress')
  <2>1. NotForgotten(tree, delivered, tracker, queue, finalStream, progress)
    BY DEF QueueInv, KeptInv
  <2> QED BY <2>1 DEF NotForgotten, Answerable
<1>5. KeptInv' BY <1>4 DEF KeptInv
<1> QED BY <1>1, <1>2, <1>3, <1>5

\* The greater of two natural numbers is one.
LEMMA MaxOfTwoNat == ASSUME NEW a \in Nat, NEW b \in Nat PROVE Max({a, b}) \in Nat
BY MinMaxOfTwo

\* What the checks establish is the invariant.
LEMMA ChecksDoneInv ==
  ASSUME tree \in Chains, tree' = tree, NEW q, ChecksDone(delivered', q, finalStream'),
         QueueEnvInv'
  PROVE  QueueInv'
<1>1. BlocksInv' BY DEF ChecksDone, BlocksInv
<1>2. StreamInv' BY DEF ChecksDone, StreamInv
<1>3. QueuedInv' BY DEF ChecksDone, QueuedInv
<1>4. KeptInv' BY DEF ChecksDone, KeptInv
<1>5. WorkInv' BY DEF ChecksDone, WorkInv
<1> QED BY <1>1, <1>2, <1>3, <1>4, <1>5 DEF QueueInv

\* The queue after a block, as the checks find it.
LEMMA BlockUpdateChecked ==
  ASSUME QueueInv, NEW b \in DOMAIN tree, BlockUpdate(b)
  PROVE  /\ \E q : /\ Queued(tree, delivered', q, finalStream')
                   /\ ChecksDone(delivered', q, finalStream')
         /\ QueueEnvInv' /\ tree' = tree
<1>0. tree \in Chains /\ IsBlockTree(tree) BY TreeOfChains DEF QueueInv, BlocksInv
<1>1. /\ b \notin delivered /\ delivered' = delivered \cup {b} /\ tree' = tree
      /\ tree[b].prev_hash \in DOMAIN tree => tree[b].prev_hash \in delivered
      /\ network' = [network EXCEPT !.heights[Me] = Max({@, tree[b].height})]
      /\ started' = started /\ networkChanges' = networkChanges
      /\ NotifyNewBlock(b)
  BY DEF BlockUpdate
<1>2. QueueEnvInv'
  <2>1. network \in NetworkType /\ started \in BOOLEAN /\ networkChanges \in 0..MaxNetworkChanges
    BY DEF QueueInv, QueueEnvInv
  <2>2. network.heights[Me] \in Nat BY <2>1, QueueAssumption DEF NetworkType
  <2>3. tree[b].height \in Nat BY <1>0 DEF IsBlockTree
  <2>4. PICK n \in Nat : n = Max({network.heights[Me], tree[b].height})
    BY <2>2, <2>3, MaxOfTwoNat
  <2>5. network' = [network EXCEPT !.heights[Me] = n] BY <1>1, <2>4
  <2>6. network' \in NetworkType BY <2>1, <2>5, QueueAssumption DEF NetworkType
  <2> QED BY <2>1, <2>6, <1>1 DEF QueueEnvInv
<1> DEFINE new == NewFinalBlocks(tracker, b, tree[b])
           u == AddBlock(tracker, b, tree[b])
           q == (queue \ Completed(new)) \cup tree[b].requests
           d == (due \cap q) \cup tree[b].requests
           s2 == finalStream \o AscendingIn(tree, new)
<1>3. finalStream' = finalStream \o Ascending(new) /\ AfterEvent(u, q, d)
  BY <1>1 DEF NotifyNewBlock
<1>4. finalStream' = s2 BY <1>3 DEF Ascending, AscendingIn
<1>5. /\ Tracks(tree, delivered \cup {b}, u) /\ Later(tree, tracker, u)
      /\ StreamOK(tree, u, s2) /\ Range(s2) = Range(finalStream) \cup new
  BY <1>0, <1>1, BlockTracked DEF QueueInv, BlocksInv, StreamInv
<1>6. q = (queue \ CompletedIn(tree, new)) \cup tree[b].requests BY DEF Completed, CompletedIn
<1>7. d \in SUBSET q OBVIOUS
<1> HIDE DEF new, u, q, d, s2
<1>8. /\ Queued(tree, delivered \cup {b}, q, s2)
      /\ NotForgotten(tree, delivered \cup {b}, u, q, s2, progress)
  <2>1. Queued(tree, delivered, queue, finalStream) /\ Tracks(tree, delivered, tracker)
        /\ NotForgotten(tree, delivered, tracker, queue, finalStream, progress)
    BY DEF QueueInv, QueuedInv, KeptInv, BlocksInv
  <2> QED BY <2>1, <1>0, <1>1, <1>5, <1>6, BlockQueued
<1>9. network' \in NetworkType BY <1>2 DEF QueueEnvInv
<1>10. ChecksDone(delivered \cup {b}, q, s2)
  <2>1. WorkInv BY DEF QueueInv
  <2> QED BY <2>1, <1>0, <1>3, <1>5, <1>7, <1>8, <1>9, ChecksOK
<1> QED BY <1>1, <1>2, <1>4, <1>8, <1>10

\* The queue after a wait, as the checks find it.
LEMMA WakeChecked ==
  ASSUME QueueInv, Wake
  PROVE  /\ \E q : /\ Queued(tree, delivered', q, finalStream')
                   /\ ChecksDone(delivered', q, finalStream')
         /\ QueueEnvInv' /\ tree' = tree
<1>0. tree \in Chains /\ IsBlockTree(tree) BY TreeOfChains DEF QueueInv, BlocksInv
<1>1. /\ delivered' = delivered /\ tree' = tree /\ network' = network /\ finalStream' = finalStream
      /\ started' = started /\ networkChanges' = networkChanges
      /\ AfterEvent(tracker, queue, due)
  BY DEF Wake
<1>2. QueueEnvInv' BY <1>1 DEF QueueInv, QueueEnvInv
<1>3. network' \in NetworkType BY <1>2 DEF QueueEnvInv
<1>4. /\ Tracks(tree, delivered, tracker) /\ StreamOK(tree, tracker, finalStream)
      /\ Queued(tree, delivered, queue, finalStream) /\ due \in SUBSET queue
      /\ NotForgotten(tree, delivered, tracker, queue, finalStream, progress) /\ WorkInv
  BY DEF QueueInv, BlocksInv, StreamInv, QueuedInv, KeptInv
<1>5. ChecksDone(delivered, queue, finalStream) BY <1>0, <1>1, <1>3, <1>4, ChecksOK
<1> QED BY <1>1, <1>2, <1>4, <1>5

\* A flag of the progress of one request is set.
SetWaiting(p, r, v) == [p EXCEPT ![r].waiting = v]
SetComputed(p, r, v) == [p EXCEPT ![r].computed = v]

\* Setting `waiting` leaves the attempts and the flags `computed` alone.
LEMMA SetWaitingFacts ==
  ASSUME NEW p \in ProgressType, NEW r \in RequestIds, NEW v \in BOOLEAN
  PROVE  /\ SetWaiting(p, r, v) \in ProgressType
         /\ \A x \in RequestIds : SetWaiting(p, r, v)[x].attempts = p[x].attempts
         /\ \A x \in RequestIds : x # r => SetWaiting(p, r, v)[x].computed = p[x].computed
         /\ SetWaiting(p, r, v)[r].computed = p[r].computed
<1>1. PICK e, p2 : e = p[r] /\ p2 = SetWaiting(p, r, v) OBVIOUS
<1>2. e \in [attempts : 0..MaxLeaderAttempts, computed : BOOLEAN, waiting : BOOLEAN]
  BY <1>1 DEF ProgressType
<1>3. DOMAIN p = RequestIds BY DEF ProgressType
<1>4. p2 = [p EXCEPT ![r].waiting = v] BY <1>1 DEF SetWaiting
<1>5. p2[r] = [e EXCEPT !.waiting = v] BY <1>1, <1>3, <1>4
<1>6. \A x \in RequestIds : x # r => p2[x] = p[x] BY <1>3, <1>4
<1>7. /\ p2[r] \in [attempts : 0..MaxLeaderAttempts, computed : BOOLEAN, waiting : BOOLEAN]
      /\ p2[r].attempts = e.attempts /\ p2[r].computed = e.computed
  BY <1>2, <1>5
<1>8. p2 \in ProgressType BY <1>4, <1>6, <1>7 DEF ProgressType
<1> QED BY <1>1, <1>6, <1>7, <1>8

\* Setting `computed` leaves the attempts and the other requests alone.
LEMMA SetComputedFacts ==
  ASSUME NEW p \in ProgressType, NEW r \in RequestIds, NEW v \in BOOLEAN
  PROVE  /\ SetComputed(p, r, v) \in ProgressType
         /\ \A x \in RequestIds : SetComputed(p, r, v)[x].attempts = p[x].attempts
         /\ \A x \in RequestIds : x # r => SetComputed(p, r, v)[x].computed = p[x].computed
         /\ SetComputed(p, r, v)[r].computed = v
<1>1. PICK e, p2 : e = p[r] /\ p2 = SetComputed(p, r, v) OBVIOUS
<1>2. e \in [attempts : 0..MaxLeaderAttempts, computed : BOOLEAN, waiting : BOOLEAN]
  BY <1>1 DEF ProgressType
<1>3. DOMAIN p = RequestIds BY DEF ProgressType
<1>4. p2 = [p EXCEPT ![r].computed = v] BY <1>1 DEF SetComputed
<1>5. p2[r] = [e EXCEPT !.computed = v] BY <1>1, <1>3, <1>4
<1>6. \A x \in RequestIds : x # r => p2[x] = p[x] BY <1>3, <1>4
<1>7. /\ p2[r] \in [attempts : 0..MaxLeaderAttempts, computed : BOOLEAN, waiting : BOOLEAN]
      /\ p2[r].attempts = e.attempts /\ p2[r].computed = v
  BY <1>2, <1>5
<1>8. p2 \in ProgressType BY <1>4, <1>6, <1>7 DEF ProgressType
<1> QED BY <1>1, <1>6, <1>7, <1>8

\* The other steps change no block, no queue and no number of attempts.
QuietOK ==
  /\ WorkInv' /\ QueueEnvInv' /\ due' \subseteq queue'
  /\ UNCHANGED <<tree, delivered, tracker, finalStream, queue>>
  /\ \A r \in RequestIds : progress'[r].attempts = progress[r].attempts

\* What the invariant says of the work and of the environment.
LEMMA WorkFacts ==
  ASSUME QueueInv
  PROVE  /\ progress \in ProgressType /\ tasks \in SUBSET TaskType
         /\ OneTaskEach(tasks, progress) /\ network \in NetworkType /\ started \in BOOLEAN
         /\ networkChanges \in 0..MaxNetworkChanges /\ due \subseteq queue
         /\ \A k \in tasks : k.id \in RequestIds
<1>1. /\ progress \in ProgressType /\ tasks \in SUBSET TaskType
      /\ OneTaskEach(tasks, progress) /\ network \in NetworkType /\ started \in BOOLEAN
      /\ networkChanges \in 0..MaxNetworkChanges /\ due \subseteq queue
  BY DEF QueueInv, WorkInv, QueueEnvInv, QueuedInv
<1>2. \A k \in tasks : k.id \in RequestIds BY <1>1 DEF TaskType
<1> QED BY <1>1, <1>2

\* The end of the startup delay is quiet.
LEMMA StartupQuiet == ASSUME QueueInv, StartupDelayOver PROVE QuietOK
BY WorkFacts DEF StartupDelayOver, queueVars, WorkInv, QueueEnvInv, QuietOK

\* Time that makes checks due is quiet.
LEMMA ChecksDueQuiet == ASSUME QueueInv, ChecksDue PROVE QuietOK
BY WorkFacts DEF ChecksDue, WorkInv, QueueEnvInv, QuietOK

\* The end of the latency after a submission is quiet.
LEMMA LatencyQuiet == ASSUME QueueInv, NEW r \in RequestIds, LatencyOver(r) PROVE QuietOK
<1>1. /\ progress' = [progress EXCEPT ![r].waiting = FALSE] /\ tasks' = tasks
      /\ UNCHANGED <<tree, delivered, tracker, finalStream, queue, due>>
      /\ UNCHANGED <<network, started, networkChanges>>
  BY DEF LatencyOver, queueVars
<1>2. PICK p2, p : p2 = progress' /\ p = progress OBVIOUS
<1>3. progress \in ProgressType BY WorkFacts
<1>v. PICK v \in BOOLEAN : v = FALSE OBVIOUS
<1>f. p2 = SetWaiting(p, r, v) BY <1>1, <1>2, <1>v DEF SetWaiting
<1>g. p \in ProgressType BY <1>2, <1>3
<1>h. /\ p2 \in ProgressType
      /\ \A x \in RequestIds : p2[x].attempts = p[x].attempts
      /\ \A x \in RequestIds : p2[x].computed = p[x].computed
  BY <1>f, <1>g, <1>3, SetWaitingFacts
<1>4. /\ p2 \in ProgressType
      /\ \A x \in RequestIds : p2[x].attempts = progress[x].attempts
      /\ \A x \in RequestIds : p2[x].computed = progress[x].computed
  BY <1>h, <1>2
<1>5. OneTaskEach(tasks, p2) BY <1>4, WorkFacts DEF OneTaskEach
<1>6. WorkInv' BY <1>1, <1>2, <1>4, <1>5, WorkFacts DEF WorkInv
<1>7. QueueEnvInv' BY <1>1, WorkFacts DEF QueueEnvInv
<1> QED BY <1>1, <1>2, <1>4, <1>6, <1>7, WorkFacts DEF QuietOK

\* A computation that succeeds is quiet.
LEMMA ComputeQuiet == ASSUME QueueInv, NEW k \in tasks, Compute(k) PROVE QuietOK
<1>1. /\ progress' = [progress EXCEPT ![k.id].computed = TRUE]
      /\ tasks' = (tasks \ {k}) \cup {[k EXCEPT !.pc = "submit"]}
      /\ UNCHANGED <<tree, delivered, tracker, finalStream, queue, due>>
      /\ UNCHANGED <<network, started, networkChanges>>
  BY DEF Compute, queueVars
<1>2. PICK p2, p : p2 = progress' /\ p = progress OBVIOUS
<1>3. progress \in ProgressType /\ k.id \in RequestIds /\ k \in TaskType BY WorkFacts
<1>v. PICK v \in BOOLEAN : v = TRUE OBVIOUS
<1>f. p2 = SetComputed(p, k.id, v) BY <1>1, <1>2, <1>v DEF SetComputed
<1>g. p \in ProgressType BY <1>2, <1>3
<1>h. /\ p2 \in ProgressType
      /\ \A x \in RequestIds : p2[x].attempts = p[x].attempts
      /\ \A x \in RequestIds : x # k.id => p2[x].computed = p[x].computed
      /\ p2[k.id].computed = v
  BY <1>f, <1>g, <1>3, SetComputedFacts
<1>4. /\ p2 \in ProgressType
      /\ \A x \in RequestIds : p2[x].attempts = progress[x].attempts
      /\ \A x \in RequestIds : x # k.id => p2[x].computed = progress[x].computed
      /\ p2[k.id].computed
  BY <1>h, <1>v, <1>2
<1>5. PICK e : e = [k EXCEPT !.pc = "submit"] OBVIOUS
<1>6. e \in TaskType /\ e.id = k.id /\ e.pc = "submit" BY <1>3, <1>5 DEF TaskType
<1>7. PICK T : T = (tasks \ {k}) \cup {e} OBVIOUS
<1>8. \A j \in tasks : j # k => j.id # k.id BY WorkFacts DEF OneTaskEach
<1>9. OneTaskEach(T, p2)
  <2>1. \A j \in T : j = e \/ (j \in tasks /\ j.id # k.id) BY <1>7, <1>8
  <2>2. \A j1, j2 \in T : j1.id = j2.id => j1 = j2
    BY <2>1, <1>6, WorkFacts DEF OneTaskEach
  <2>3. \A j \in T : (j.pc = "compute") <=> ~p2[j.id].computed
    BY <2>1, <1>4, <1>6, WorkFacts DEF OneTaskEach
  <2> QED BY <2>2, <2>3 DEF OneTaskEach
<1>10. T \subseteq TaskType BY <1>6, <1>7, WorkFacts
<1>11. tasks' = T BY <1>1, <1>5, <1>7
<1>12. WorkInv' BY <1>2, <1>4, <1>9, <1>10, <1>11 DEF WorkInv
<1>13. QueueEnvInv' BY <1>1, WorkFacts DEF QueueEnvInv
<1> QED BY <1>1, <1>2, <1>4, <1>12, <1>13, WorkFacts DEF QuietOK

\* A computation that fails is quiet.
LEMMA FailsQuiet == ASSUME QueueInv, NEW k \in tasks, ComputeFails(k) PROVE QuietOK
<1>1. /\ tasks' = tasks \ {k} /\ progress' = progress
      /\ UNCHANGED <<tree, delivered, tracker, finalStream, queue, due>>
      /\ UNCHANGED <<network, started, networkChanges>>
  BY DEF ComputeFails, queueVars
<1>2. OneTaskEach(tasks \ {k}, progress) BY WorkFacts DEF OneTaskEach
<1>3. WorkInv' BY <1>1, <1>2, WorkFacts DEF WorkInv
<1>4. QueueEnvInv' BY <1>1, WorkFacts DEF QueueEnvInv
<1> QED BY <1>1, <1>3, <1>4, WorkFacts DEF QuietOK

\* A submission is quiet.
LEMMA SubmitQuiet == ASSUME QueueInv, NEW k \in tasks, Submit(k) PROVE QuietOK
<1>1. /\ progress' = [progress EXCEPT ![k.id].waiting = TRUE] /\ tasks' = tasks \ {k}
      /\ UNCHANGED <<tree, delivered, tracker, finalStream, queue, due>>
      /\ UNCHANGED <<network, started, networkChanges>>
  BY DEF Submit, queueVars
<1>2. PICK p2, p : p2 = progress' /\ p = progress OBVIOUS
<1>3. progress \in ProgressType /\ k.id \in RequestIds BY WorkFacts
<1>v. PICK v \in BOOLEAN : v = TRUE OBVIOUS
<1>f. p2 = SetWaiting(p, k.id, v) BY <1>1, <1>2, <1>v DEF SetWaiting
<1>g. p \in ProgressType BY <1>2, <1>3
<1>h. /\ p2 \in ProgressType
      /\ \A x \in RequestIds : p2[x].attempts = p[x].attempts
      /\ \A x \in RequestIds : p2[x].computed = p[x].computed
  BY <1>f, <1>g, <1>3, SetWaitingFacts
<1>4. /\ p2 \in ProgressType
      /\ \A x \in RequestIds : p2[x].attempts = progress[x].attempts
      /\ \A x \in RequestIds : p2[x].computed = progress[x].computed
  BY <1>h, <1>2
<1>5. OneTaskEach(tasks \ {k}, p2) BY <1>4, WorkFacts DEF OneTaskEach
<1>6. WorkInv' BY <1>1, <1>2, <1>4, <1>5, WorkFacts DEF WorkInv
<1>7. QueueEnvInv' BY <1>1, WorkFacts DEF QueueEnvInv
<1> QED BY <1>1, <1>2, <1>4, <1>6, <1>7, WorkFacts DEF QuietOK

\* A change of the peers is quiet.
LEMMA NetworkQuiet == ASSUME QueueInv, NetworkChange PROVE QuietOK
<1>1. /\ UNCHANGED <<tree, delivered, tracker, finalStream, queue, due>>
      /\ UNCHANGED <<progress, tasks, started>>
      /\ networkChanges < MaxNetworkChanges /\ networkChanges' = networkChanges + 1
  BY DEF NetworkChange, queueVars
<1>2. network' \in NetworkType
  <2>1. CASE \E c \in SUBSET (Participants \ {Me}) : network' = [network EXCEPT !.connected = c]
    BY <2>1, WorkFacts DEF NetworkType
  <2>2. CASE \E p \in Participants \ {Me}, h \in {tree[b].height : b \in DOMAIN tree} :
               network' = [network EXCEPT !.heights[p] = h]
    <3>1. PICK p \in Participants \ {Me}, h \in {tree[b].height : b \in DOMAIN tree} :
            network' = [network EXCEPT !.heights[p] = h]
      BY <2>2
    <3>2. IsBlockTree(tree) BY TreeOfChains DEF QueueInv, BlocksInv
    <3>3. h \in Nat BY <3>2 DEF IsBlockTree
    <3> QED BY <3>1, <3>3, WorkFacts DEF NetworkType
  <2> QED BY <2>1, <2>2 DEF NetworkChange
<1>3. networkChanges' \in 0..MaxNetworkChanges BY <1>1, WorkFacts, QueueAssumption
<1>4. WorkInv' BY <1>1, WorkFacts DEF WorkInv
<1>5. QueueEnvInv' BY <1>1, <1>2, <1>3, WorkFacts DEF QueueEnvInv
<1> QED BY <1>1, <1>4, <1>5, WorkFacts DEF QuietOK

\* A step checks requests after a block or a wait, or is quiet.
LEMMA StepKinds ==
  ASSUME QueueInv, [Next]_vars
  PROVE  \/ /\ \E q : /\ Queued(tree, delivered', q, finalStream')
                      /\ ChecksDone(delivered', q, finalStream')
            /\ QueueEnvInv' /\ tree' = tree
         \/ QuietOK
<1>1. ASSUME NEW b \in DOMAIN tree, BlockUpdate(b)
      PROVE  /\ \E q : /\ Queued(tree, delivered', q, finalStream')
                       /\ ChecksDone(delivered', q, finalStream')
             /\ QueueEnvInv' /\ tree' = tree
  BY <1>1, BlockUpdateChecked
<1>2. ASSUME Wake
      PROVE  /\ \E q : /\ Queued(tree, delivered', q, finalStream')
                       /\ ChecksDone(delivered', q, finalStream')
             /\ QueueEnvInv' /\ tree' = tree
  BY <1>2, WakeChecked
<1>3. CASE StartupDelayOver BY <1>3, StartupQuiet
<1>4. CASE ChecksDue BY <1>4, ChecksDueQuiet
<1>5. ASSUME NEW r \in RequestIds, LatencyOver(r) PROVE QuietOK BY <1>5, LatencyQuiet
<1>6. ASSUME NEW k \in tasks, Compute(k) \/ ComputeFails(k) \/ Submit(k) PROVE QuietOK
  BY <1>6, ComputeQuiet, FailsQuiet, SubmitQuiet
<1>7. CASE NetworkChange BY <1>7, NetworkQuiet
<1>8. CASE UNCHANGED vars
  BY <1>8, WorkFacts DEF vars, queueVars, WorkInv, QueueEnvInv, QuietOK
<1> QED BY <1>1, <1>2, <1>3, <1>4, <1>5, <1>6, <1>7, <1>8 DEF Next

\* Every step keeps the invariant.
LEMMA QueueStepOK == ASSUME QueueInv, [Next]_vars PROVE QueueInv'
<1>1. CASE QuietOK
  <2>1. BlocksInv' /\ StreamInv' /\ QueuedInv' /\ KeptInv' BY <1>1, QueueFrame DEF QuietOK
  <2> QED BY <2>1, <1>1 DEF QueueInv, QuietOK
<1>2. CASE /\ \E q : ChecksDone(delivered', q, finalStream')
           /\ QueueEnvInv' /\ tree' = tree
  <2>1. tree \in Chains BY DEF QueueInv, BlocksInv
  <2> QED BY <2>1, <1>2, ChecksDoneInv
<1> QED BY <1>1, <1>2, StepKinds

\* The invariant of the request queue: the tracker is the function of the delivered blocks
\* that Tracks describes, the stream is every final block up to the final head, and the
\* queue keeps exactly the requests that can still be answered.
THEOREM QueueInvariant == Spec => []QueueInv
<1>1. Init => QueueInv BY QueueInitOK
<1>2. QueueInv /\ [Next]_vars => QueueInv' BY QueueStepOK
<1> QED BY <1>1, <1>2, PTL DEF Spec
-----------------------------------------------------------------------------
(* The properties. *)

\* The flags canonical, from the invariant.
LEMMA CanonicalFromInv == ASSUME QueueInv PROVE CanonicalIsAncestry
<1> DEFINE H == Hashes(tracker)
           ch == tracker.canonical_head
<1>1. tree \in Chains /\ IsBlockTree(tree) /\ Tracks(tree, delivered, tracker)
  BY TreeOfChains DEF QueueInv, BlocksInv
<1>2. tracker = TrackerOf(tree, FinalSet(tree), H, ch, tracker.final_head,
                          tracker.maximum_height_available)
  BY <1>1 DEF Tracks
<1>3. NoBlock \notin H BY <1>1 DEF Tracks, Keeps, IsBlockTree
<1>4. \A x \in H : tracker.nodes[x].canonical = (x \in OnChain(tree, H, ch))
  BY <1>2, TrackerFields
<1>5. Ancestry(tracker, ch) = Anc(tree, H, ch) BY <1>2, <1>3, TrackerAncestry
<1>6. OnChain(tree, H, ch) \subseteq H BY AncSub DEF OnChain
<1> HIDE DEF H, ch
<1>7. {x \in H : tracker.nodes[x].canonical} = OnChain(tree, H, ch) BY <1>4, <1>6
<1> QED BY <1>5, <1>7 DEF CanonicalIsAncestry, OnChain, H, ch

\* One canonical chain and one stream of final blocks, from the invariant.
LEMMA BlocksFromInv == ASSUME QueueInv PROVE BlocksSound
<1>1. IsBlockTree(tree) /\ Tracks(tree, delivered, tracker) /\ StreamOK(tree, tracker, finalStream)
  BY TreeOfChains DEF QueueInv, BlocksInv, StreamInv
<1>2. FinalStreamContiguous BY <1>1, StreamContiguous DEF FinalStreamContiguous
<1> QED BY <1>2, CanonicalFromInv DEF BlocksSound

\* BlockOf is HomeOf in the tree of the behaviour.
LEMMA BlockOfHome == ASSUME NEW r PROVE BlockOf(r) = HomeOf(tree, r)
BY DEF BlockOf, HomeOf

\* No request is forgotten, from the invariant.
LEMMA KeptFromInv == ASSUME QueueInv PROVE RequestNotForgotten
<1>1. /\ IsBlockTree(tree) /\ Tracks(tree, delivered, tracker)
      /\ NotForgotten(tree, delivered, tracker, queue, finalStream, progress)
  BY TreeOfChains DEF QueueInv, BlocksInv, KeptInv
<1> SUFFICES ASSUME NEW r \in RequestIds, BlockOf(r) \in delivered,
                    Class(tracker, r) \notin Discarded, r \notin Completed(Range(finalStream)),
                    progress[r].attempts < MaxLeaderAttempts
             PROVE  r \in queue
  BY DEF RequestNotForgotten
<1>2. PICK h : h = BlockOf(r) OBVIOUS
<1>3. h = HomeOf(tree, r) BY <1>2, BlockOfHome
<1>4. ClassifyBlock(tracker, h, tree[h].height) \notin Discarded BY <1>2 DEF Class
<1>5. ~Gone(tree, tracker.final_head, tracker.maximum_height_available, h)
  BY <1>1, <1>2, <1>4, ClassForm
<1>6. r \notin CompletedIn(tree, Range(finalStream)) BY DEF Completed, CompletedIn
<1> QED BY <1>1, <1>2, <1>3, <1>5, <1>6 DEF NotForgotten, Answerable

\* The types, from the invariant.
LEMMA QueueTypes == ASSUME QueueInv PROVE TypeOK
<1>1. tree \in Chains /\ Tracks(tree, delivered, tracker) BY DEF QueueInv, BlocksInv
<1>2. /\ delivered \subseteq DOMAIN tree /\ Hashes(tracker) \subseteq delivered
      /\ tracker.canonical_head \in Hashes(tracker) \cup {NoBlock}
      /\ tracker.final_head \in Hashes(tracker) \cup {NoBlock}
  BY <1>1 DEF Tracks, Keeps
<1>3. queue \subseteq RequestIds BY DEF QueueInv, QueuedInv, Queued
<1>4. network.connected \subseteq Participants \ {Me} BY WorkFacts DEF NetworkType
<1> QED BY <1>1, <1>2, <1>3, <1>4, WorkFacts DEF TypeOK, ProgressType, TaskType

\* Requests are neither forgotten nor worked on twice, from the invariant.
LEMMA RequestsFromInv == ASSUME QueueInv PROVE RequestsSound
<1>1. NoRedundantComputation BY WorkFacts DEF OneTaskEach, NoRedundantComputation
<1> QED BY <1>1, KeptFromInv, QueueTypes DEF RequestsSound

\* No step from the invariant starts a futile attempt.
LEMMA AttemptFromInv == ASSUME QueueInv, [Next]_vars PROVE NoFutileAttemptStep
<1> SUFFICES ASSUME NEW r \in RequestIds, progress'[r].attempts > progress[r].attempts
             PROVE  /\ r \notin Completed(Range(finalStream'))
                    /\ \A f \in Range(finalStream') :
                          tree[f].height >= tree[BlockOf(r)].height
                            => BlockOf(r) \in Range(finalStream')
  BY DEF NoFutileAttemptStep
<1>0. IsBlockTree(tree) BY TreeOfChains DEF QueueInv, BlocksInv
<1>n. QueueInv' BY QueueStepOK
<1>1. progress \in ProgressType BY WorkFacts
<1>2. progress[r].attempts \in Int BY <1>1, QueueAssumption DEF ProgressType
<1>3. ~QuietOK BY <1>2 DEF QuietOK
<1>4. PICK q : Queued(tree, delivered', q, finalStream') /\ ChecksDone(delivered', q, finalStream')
  BY <1>3, StepKinds
<1>5. progress' \in ProgressType BY <1>4 DEF ChecksDone
<1>6. progress'[r].attempts \in Int BY <1>5, QueueAssumption DEF ProgressType
<1>7. progress[r].attempts < progress'[r].attempts BY <1>2, <1>6
<1>8. PICK h, u, s : h = HomeOf(tree, r) /\ u = tracker' /\ s = finalStream' OBVIOUS
<1>9. /\ r \in q /\ h \in delivered' /\ Tracks(tree, delivered', u) /\ StreamOK(tree, u, s)
      /\ ~Gone(tree, u.final_head, u.maximum_height_available, h)
  BY <1>4, <1>7, <1>8 DEF ChecksDone
<1>10. r \notin CompletedIn(tree, Range(s)) BY <1>4, <1>8, <1>9 DEF Queued
<1>11. h \in DOMAIN tree BY <1>0, <1>8, HomeFacts
<1>12. ASSUME NEW f \in Range(s), tree[f].height >= tree[h].height PROVE h \in Range(s)
  <2>1. f \in UpToFinal(tree, FinalSet(tree), u.final_head) BY <1>9, <1>12 DEF StreamOK
  <2>2. TreeOK(tree, FinalSet(tree)) BY <1>0, TreeFacts
  <2>3. f \in FinalSet(tree) /\ tree[f].height <= FinalHeight(tree, u.final_head)
    BY <2>1 DEF UpToFinal
  <2>4. tree[f].height \in Int /\ tree[h].height \in Int
    BY <2>2, <2>3, <1>0, <1>11 DEF IsBlockTree, TreeOK
  <2>5. FinalHeight(tree, u.final_head) \in Int
    <3>1. u.final_head \in DOMAIN tree \cup {NoBlock} BY <1>9 DEF Tracks, Keeps
    <3> QED BY <3>1, <1>0 DEF FinalHeight, IsBlockTree
  <2>6. tree[h].height <= FinalHeight(tree, u.final_head) BY <2>3, <2>4, <2>5, <1>12
  <2>7. h \in FinalSet(tree) BY <2>6, <1>9 DEF Gone
  <2>8. h \in UpToFinal(tree, FinalSet(tree), u.final_head) BY <2>6, <2>7 DEF UpToFinal
  <2> QED BY <2>8, <1>9 DEF StreamOK
<1>13. BlockOf(r) = h BY <1>8, BlockOfHome
<1> QED BY <1>8, <1>10, <1>12, <1>13 DEF Completed, CompletedIn

\* Whatever forks, pruning and reorganisations the indexer delivers, the blocks flagged
\* canonical are the chain of the canonical head, and the final blocks that the calls of
\* add_block return form one contiguous stream.
THEOREM BlocksSoundAlways == Spec => []BlocksSound
<1>1. QueueInv => BlocksSound BY BlocksFromInv
<1> QED BY <1>1, QueueInvariant, PTL

\* The queue keeps every request that can still be answered, a request has one attempt at a
\* time, and a computed response is submitted again rather than computed again.
THEOREM RequestsSoundAlways == Spec => []RequestsSound
<1>1. QueueInv => RequestsSound BY RequestsFromInv
<1> QED BY <1>1, QueueInvariant, PTL

\* get_requests_to_attempt starts no attempt for a request that a final block answered, or
\* whose block finality has passed by.
THEOREM NoFutileAttemptAlways == Spec => NoFutileAttempt
<1>1. QueueInv /\ [Next]_vars => NoFutileAttemptStep BY AttemptFromInv
<1>2. QueueInv /\ [Next]_vars => [NoFutileAttemptStep]_vars BY <1>1
<1> QED BY <1>2, QueueInvariant, PTL DEF Spec, NoFutileAttempt
=============================================================================
