----------------------------- MODULE NodeProofs -----------------------------
(***************************************************************************)
(* Proofs about one node.                                                  *)
(*                                                                         *)
(* Connectivity: the connection of two nodes, for any number of faults,    *)
(* messages, restarts and connections at the same time: what send promises *)
(* about the messages of one connection version, and that the listener     *)
(* never goes back to a connection that the dialer has given up.           *)
(*                                                                         *)
(* NodeKeys: the key shares of a node, for any number of epochs, domains,  *)
(* attempts and crashes: the node runs no key id twice, serves with the    *)
(* certified shares only, can promote what the contract asks for, and      *)
(* loses no share that the contract counts on.                             *)
(***************************************************************************)
EXTENDS Connectivity, NodeKeys, SequenceTheorems, TLAPS

(***************************************************************************)
(*                          Part 1: Connectivity.                          *)
(***************************************************************************)

-----------------------------------------------------------------------------
(* The inductive invariant. *)

Side == {"handshake", "open", "closed"}
PipeMessage == [kind : {"Mpc"}, number : Nat] \cup [kind : {"IndexerHeight"}, height : Nat]
Conn == [d : Side, l : Side, cid : 0..(CidModulus - 1), min : Nat, mesh : Nat, cut : BOOLEAN,
         pipe : Seq(PipeMessage)]
Dialer == [pc : {"dial", "handshake", "connected"}, slot : Slots \cup {0},
           attempt : 0..(CidModulus - 1)]
Versioned == [version : Nat, slot : Slots \cup {0}]

TypeInv ==
  /\ peer_version \in {"Unsupported", "Dec2025", "Jan2026"}
  /\ conns \in [Slots -> Conn] /\ dialer \in Dialer
  /\ outgoing \in Versioned /\ incoming \in Versioned
  /\ mesh \in Nat /\ sent \in Seq(Nat \X Nat)
  /\ height \in Nat /\ peer_height \in Nat

(* Who holds which connection. *)
HoldInv ==
  /\ outgoing.slot # 0 => dialer.pc = "connected" /\ outgoing.slot = dialer.slot
  /\ incoming.slot # 0 => conns[incoming.slot].l = "open"
  /\ dialer.pc # "dial" => dialer.slot \in Slots
  /\ \A s \in Slots : conns[s].d = "open" => dialer.pc = "connected" /\ dialer.slot = s

Mpc(m) == m.kind = "Mpc"

(* One of the first k messages of the pipe is the MPC message n. *)
Carries(pipe, k, n) == \E j \in 1..k : Mpc(pipe[j]) /\ pipe[j].number = n

(* MPC message i of a pipe: it has been sent and not been received, it is younger than the
   ones before it, and what was sent earlier under its version has been received or is
   before it in the pipe. *)
InOrder(snt, lg, pipe, i) ==
  LET k == pipe[i].number IN
  /\ k \in 1..Len(snt) /\ k \notin ToSet(lg)
  /\ \A j \in 1..(i - 1) : Mpc(pipe[j]) => pipe[j].number < k
  /\ \A n \in 1..(k - 1) : snt[n] = snt[k] => n \in ToSet(lg) \/ Carries(pipe, i - 1, n)

PipeOK(snt, lg, pipe) ==
  /\ pipe \in Seq(PipeMessage)
  /\ \A i \in 1..Len(pipe) : Mpc(pipe[i]) => InOrder(snt, lg, pipe, i)

Disjoint(p, q) ==
  \A i \in 1..Len(p), j \in 1..Len(q) : Mpc(p[i]) /\ Mpc(q[j]) => p[i].number # q[j].number

(* The connections whose listener may still receive. *)
StreamsOK(snt, lg, cs) ==
  /\ \A s \in Slots : cs[s].l # "closed" => PipeOK(snt, lg, cs[s].pipe)
  /\ \A s, t \in Slots : s # t /\ cs[s].l # "closed" /\ cs[t].l # "closed"
                           => Disjoint(cs[s].pipe, cs[t].pipe)

(* The sent messages are of this mesh and version or of earlier ones. *)
KeysOK(snt, m, v) ==
  \A n \in 1..Len(snt) : snt[n][1] <= m /\ (snt[n][1] = m => snt[n][2] <= v)

(* Nothing of the version in use is lost as long as its connection is open. *)
OutOK(snt, lg, cs, o, m, v) ==
  o # 0 /\ cs[o].d = "open" /\ cs[o].l # "closed" =>
    \A n \in 1..Len(snt) : snt[n] = <<m, v>> =>
      n \in ToSet(lg) \/ Carries(cs[o].pipe, Len(cs[o].pipe), n)

LogOK(snt, lg) ==
  /\ lg \in Seq(Nat) /\ ToSet(lg) \subseteq 1..Len(snt)
  /\ \A i \in 1..Len(lg) :
       /\ \A n \in 1..(lg[i] - 1) : snt[n] = snt[lg[i]] => \E j \in 1..(i - 1) : lg[j] = n
       /\ \A j \in 1..(i - 1) : lg[j] # lg[i]

DataInv ==
  /\ StreamsOK(sent, log, conns) /\ LogOK(sent, log)
  /\ KeysOK(sent, mesh, outgoing.version)
  /\ OutOK(sent, log, conns, outgoing.slot, mesh, outgoing.version)

DeliveryInv == TypeInv /\ HoldInv /\ DataInv

(* The parts about data, in the next state. *)
LEMMA DataPrimed ==
  ASSUME StreamsOK(sent', log', conns'), LogOK(sent', log'),
         KeysOK(sent', mesh', outgoing'.version),
         OutOK(sent', log', conns', outgoing'.slot, mesh', outgoing'.version)
  PROVE  DataInv'
<1>1. StreamsOK(sent, log, conns)'
  BY DEF StreamsOK, PipeOK, InOrder, Disjoint, Carries, Mpc
<1>2. LogOK(sent, log)' /\ KeysOK(sent, mesh, outgoing.version)'
  BY DEF LogOK, KeysOK
<1>3. OutOK(sent, log, conns, outgoing.slot, mesh, outgoing.version)'
  BY DEF OutOK, Carries, Mpc
<1> QED BY <1>1, <1>2, <1>3 DEF DataInv

-----------------------------------------------------------------------------
(* Pipes. *)

Prefixed(p, q) ==
  p \in Seq(PipeMessage) /\ Len(p) <= Len(q) /\ \A i \in 1..Len(p) : p[i] = q[i]

(* What is left of a stream that is cut short is in order. *)
LEMMA PrefixOK ==
  ASSUME NEW snt, NEW lg, NEW q, PipeOK(snt, lg, q), NEW p, Prefixed(p, q)
  PROVE  PipeOK(snt, lg, p)
<1>1. p \in Seq(PipeMessage) /\ q \in Seq(PipeMessage) /\ Len(p) \in Nat /\ Len(q) \in Nat
      /\ Len(p) <= Len(q)
  BY DEF PipeOK, Prefixed
<1>2. \A i \in 1..Len(p) : i \in 1..Len(q) /\ p[i] = q[i]
  BY <1>1 DEF Prefixed
<1>3. ASSUME NEW i \in 1..Len(p), Mpc(p[i]) PROVE InOrder(snt, lg, p, i)
  <2>1. InOrder(snt, lg, q, i)
    BY <1>2, <1>3 DEF PipeOK
  <2>2. \A j \in 1..(i - 1) : p[j] = q[j]
    BY <1>1, <1>2
  <2>3. p[i] = q[i]
    BY <1>2
  <2>4. \A n : Carries(q, i - 1, n) => Carries(p, i - 1, n)
    BY <2>2 DEF Carries
  <2> QED BY <2>1, <2>2, <2>3, <2>4 DEF InOrder
<1> QED BY <1>1, <1>3 DEF PipeOK

(* An empty stream is in order. *)
LEMMA EmptyOK ==
  ASSUME NEW snt, NEW lg
  PROVE  PipeOK(snt, lg, <<>>) /\ \A p : Disjoint(<<>>, p) /\ Disjoint(p, <<>>)
BY DEF PipeOK, Disjoint

(* Prefixes of streams without a common message have none either. *)
LEMMA PrefixDisjoint ==
  ASSUME NEW p, NEW q, NEW p2, NEW q2, p \in Seq(PipeMessage), q \in Seq(PipeMessage),
         Disjoint(p, q), Prefixed(p2, p), Prefixed(q2, q)
  PROVE  Disjoint(p2, q2)
<1>1. Len(p) \in Nat /\ Len(q) \in Nat /\ Len(p2) \in Nat /\ Len(q2) \in Nat
      /\ Len(p2) <= Len(p) /\ Len(q2) <= Len(q)
  BY DEF Prefixed
<1>2. /\ \A i \in 1..Len(p2) : i \in 1..Len(p) /\ p2[i] = p[i]
      /\ \A i \in 1..Len(q2) : i \in 1..Len(q) /\ q2[i] = q[i]
  BY <1>1 DEF Prefixed
<1> QED BY <1>2 DEF Disjoint

(* An initial part of a stream is a prefix. *)
LEMMA SubSeqPrefixed ==
  ASSUME NEW q \in Seq(PipeMessage), NEW k \in 0..Len(q)
  PROVE  Prefixed(SubSeq(q, 1, k), q)
<1> DEFINE t == SubSeq(q, 1, k)
<1>1. Len(q) \in Nat /\ k \in Nat /\ k <= Len(q)
  OBVIOUS
<1>2. 1 \in Int /\ k \in Int /\ \A i \in 1..k : q[i] \in PipeMessage
  BY <1>1
<1>3. /\ SubSeq(q, 1, k) \in Seq(PipeMessage)
      /\ Len(SubSeq(q, 1, k)) = IF 1 <= k THEN k - 1 + 1 ELSE 0
      /\ \A i \in 1..k - 1 + 1 : SubSeq(q, 1, k)[i] = q[1 + i - 1]
  BY <1>2, SubSeqProperties
<1>4. /\ t \in Seq(PipeMessage) /\ Len(t) = IF 1 <= k THEN k - 1 + 1 ELSE 0
      /\ \A i \in 1..k - 1 + 1 : t[i] = q[1 + i - 1]
  BY <1>3
<1> HIDE DEF t
<1>5. Len(t) = k /\ \A i \in 1..k : t[i] = q[i]
  BY <1>1, <1>4
<1>6. Prefixed(t, q)
  BY <1>1, <1>4, <1>5 DEF Prefixed
<1> QED BY <1>6 DEF t

(* A stream is its own prefix. *)
LEMMA SamePrefixed ==
  ASSUME NEW q \in Seq(PipeMessage)
  PROVE  Prefixed(q, q)
BY DEF Prefixed

-----------------------------------------------------------------------------
(* Steps that send and receive nothing. *)

(* What the listener may still receive of slot s is a prefix of what it was. *)
Narrows(s) ==
  \/ conns[s].l # "closed" /\ Prefixed(conns'[s].pipe, conns[s].pipe)
  \/ conns'[s].pipe = <<>>

(* Streams that only get shorter stay in order. *)
LEMMA Narrowed ==
  ASSUME NEW snt, NEW lg, StreamsOK(snt, lg, conns),
         \A s \in Slots : conns'[s].l # "closed" => Narrows(s)
  PROVE  StreamsOK(snt, lg, conns')
<1>1. ASSUME NEW s \in Slots, conns'[s].l # "closed"
      PROVE  PipeOK(snt, lg, conns'[s].pipe)
  <2>1. CASE conns[s].l # "closed" /\ Prefixed(conns'[s].pipe, conns[s].pipe)
    <3>1. PipeOK(snt, lg, conns[s].pipe)
      BY <2>1 DEF StreamsOK
    <3> QED BY <2>1, <3>1, PrefixOK
  <2>2. CASE conns'[s].pipe = <<>>
    BY <2>2, EmptyOK
  <2> QED BY <1>1, <2>1, <2>2 DEF Narrows
<1>2. ASSUME NEW s \in Slots, NEW t \in Slots, s # t, conns'[s].l # "closed",
             conns'[t].l # "closed"
      PROVE  Disjoint(conns'[s].pipe, conns'[t].pipe)
  <2>1. CASE conns'[s].pipe = <<>>
    BY <2>1, EmptyOK
  <2>2. CASE conns'[t].pipe = <<>>
    BY <2>2, EmptyOK
  <2>3. CASE /\ conns[s].l # "closed" /\ Prefixed(conns'[s].pipe, conns[s].pipe)
             /\ conns[t].l # "closed" /\ Prefixed(conns'[t].pipe, conns[t].pipe)
    <3>1. Disjoint(conns[s].pipe, conns[t].pipe)
      BY <1>2, <2>3 DEF StreamsOK
    <3>2. conns[s].pipe \in Seq(PipeMessage) /\ conns[t].pipe \in Seq(PipeMessage)
      BY <2>3 DEF StreamsOK, PipeOK
    <3> QED BY <2>3, <3>1, <3>2, PrefixDisjoint
  <2> QED BY <1>2, <2>1, <2>2, <2>3 DEF Narrows
<1> QED BY <1>1, <1>2 DEF StreamsOK

(* The connection in use is dropped, stays what it was, or is one of a new version. *)
OutKept ==
  \/ outgoing'.slot = 0 \/ conns'[outgoing'.slot].d # "open"
  \/ conns'[outgoing'.slot].l = "closed"
  \/ /\ outgoing' = outgoing /\ mesh' = mesh
     /\ conns[outgoing.slot].d = "open" /\ conns[outgoing.slot].l # "closed"
     /\ conns'[outgoing.slot].pipe = conns[outgoing.slot].pipe
  \/ mesh' = mesh /\ outgoing'.version = outgoing.version + 1

(* A step that sends and receives nothing keeps the parts about data. *)
LEMMA QuietOK ==
  ASSUME DeliveryInv, TypeInv', UNCHANGED <<sent, log>>,
         \A s \in Slots : conns'[s].l # "closed" => Narrows(s), OutKept,
         (mesh' = mesh /\ outgoing'.version >= outgoing.version) \/ mesh' > mesh
  PROVE  DataInv'
<1>0. TypeInv /\ DataInv
  BY DEF DeliveryInv
<1>1. StreamsOK(sent', log', conns') /\ LogOK(sent', log')
  BY <1>0, Narrowed DEF DataInv
<1>a. /\ mesh \in Nat /\ mesh' \in Nat /\ outgoing.version \in Nat /\ outgoing'.version \in Nat
      /\ sent \in Seq(Nat \X Nat)
  BY <1>0 DEF TypeInv, Versioned
<1>b. \A n \in 1..Len(sent) : sent[n] \in Nat \X Nat /\ sent[n][1] \in Nat /\ sent[n][2] \in Nat
  BY <1>a
<1>c. KeysOK(sent, mesh, outgoing.version)
  BY <1>0 DEF DataInv
<1>2. KeysOK(sent', mesh', outgoing'.version)
  BY <1>a, <1>b, <1>c DEF KeysOK
<1>3. OutOK(sent', log', conns', outgoing'.slot, mesh', outgoing'.version)
  <2>1. CASE \/ outgoing'.slot = 0 \/ conns'[outgoing'.slot].d # "open"
             \/ conns'[outgoing'.slot].l = "closed"
    BY <2>1 DEF OutOK
  <2>2. CASE /\ outgoing' = outgoing /\ mesh' = mesh
             /\ conns[outgoing.slot].d = "open" /\ conns[outgoing.slot].l # "closed"
             /\ conns'[outgoing.slot].pipe = conns[outgoing.slot].pipe
    BY <1>0, <2>2 DEF DataInv, OutOK
  <2>3. CASE mesh' = mesh /\ outgoing'.version = outgoing.version + 1
    <3>1. ASSUME NEW n \in 1..Len(sent), sent[n] = <<mesh', outgoing'.version>> PROVE FALSE
      <4>1. sent[n][1] = mesh /\ sent[n][2] = outgoing.version + 1
        BY <2>3, <3>1
      <4> QED BY <1>a, <1>b, <1>c, <4>1, SMTT(60) DEF KeysOK
    <3> QED BY <3>1 DEF OutOK
  <2> QED BY <2>1, <2>2, <2>3 DEF OutKept
<1> QED BY <1>1, <1>2, <1>3, DataPrimed

(* One connection changes. *)
LEMMA ConnSet ==
  ASSUME TypeInv, NEW s \in Slots, NEW r \in Conn, conns' = [conns EXCEPT ![s] = r]
  PROVE  /\ conns' \in [Slots -> Conn] /\ conns'[s] = r
         /\ \A t \in Slots \ {s} : conns'[t] = conns[t]
BY DEF TypeInv

(* The fields of a connection. *)
LEMMA ConnFacts ==
  ASSUME TypeInv, NEW s \in Slots
  PROVE  /\ conns[s] \in Conn /\ conns[s].d \in Side /\ conns[s].l \in Side
         /\ conns[s].cid \in 0..(CidModulus - 1)
         /\ conns[s].min \in Nat /\ conns[s].cut \in BOOLEAN /\ conns[s].pipe \in Seq(PipeMessage)
         /\ Prefixed(conns[s].pipe, conns[s].pipe)
<1>1. conns[s] \in Conn
  BY DEF TypeInv
<1>2. /\ conns[s].d \in Side /\ conns[s].l \in Side
      /\ conns[s].cid \in 0..(CidModulus - 1)
      /\ conns[s].min \in Nat /\ conns[s].cut \in BOOLEAN /\ conns[s].pipe \in Seq(PipeMessage)
  BY <1>1 DEF Conn
<1> QED BY <1>1, <1>2, SamePrefixed

(* A connection whose listener opens, closes or stays, with a prefix of its pipe. *)
LEMMA OneNarrows ==
  ASSUME TypeInv, NEW s \in Slots, NEW r \in Conn, conns' = [conns EXCEPT ![s] = r],
         \/ r.l = "closed" \/ r.pipe = <<>>
         \/ conns[s].l # "closed" /\ Prefixed(r.pipe, conns[s].pipe)
  PROVE  \A t \in Slots : conns'[t].l # "closed" => Narrows(t)
<1>1. conns'[s] = r /\ \A t \in Slots \ {s} : conns'[t] = conns[t]
  BY ConnSet
<1>2. ASSUME NEW t \in Slots, conns'[t].l # "closed" PROVE Narrows(t)
  <2>1. CASE t = s
    BY <1>1, <1>2, <2>1 DEF Narrows
  <2>2. CASE t # s
    <3>1. conns'[t] = conns[t] /\ Prefixed(conns[t].pipe, conns[t].pipe)
      BY <1>1, <2>2, ConnFacts
    <3> QED BY <1>2, <3>1 DEF Narrows
  <2> QED BY <2>1, <2>2
<1> QED BY <1>2

(* Connection ids wrap around within their width. *)
LEMMA WrappingAddOK ==
  ASSUME NEW c \in 0..(CidModulus - 1)
  PROVE  WrappingAdd(c) \in 0..(CidModulus - 1)
<1>1. CidModulus \in Nat \ {0, 1}
  BY ConnectivityAssumption
<1> QED BY <1>1 DEF WrappingAdd

-----------------------------------------------------------------------------
(* The handshake. *)

(* The least id a listener expects is an id. *)
LEMMA MinExpectedOK ==
  ASSUME TypeInv
  PROVE  MinExpected \in 0..(CidModulus - 1)
<1>1. CidModulus \in Nat \ {0, 1}
  BY ConnectivityAssumption
<1>2. CASE IncomingConnected
  <2>1. incoming.slot \in Slots
    BY <1>2 DEF TypeInv, Versioned, IncomingConnected
  <2>2. conns[incoming.slot].cid \in 0..(CidModulus - 1)
    BY <2>1, ConnFacts
  <2> QED BY <1>2, <2>2, WrappingAddOK DEF MinExpected
<1>3. CASE ~IncomingConnected
  BY <1>1, <1>3 DEF MinExpected
<1> QED BY <1>2, <1>3

(* The dialer opens a connection. *)
LEMMA DialOK ==
  ASSUME DeliveryInv, Dial
  PROVE  DeliveryInv'
<1>0. TypeInv /\ HoldInv
  BY DEF DeliveryInv
<1>1. PICK s \in Slots :
        /\ IsFree(s)
        /\ conns' = [conns EXCEPT ![s] = [Free EXCEPT !.d = "handshake", !.l = "handshake",
                                          !.cid = dialer.attempt, !.min = MinExpected,
                                          !.mesh = mesh]]
        /\ dialer' = [dialer EXCEPT !.pc = "handshake", !.slot = s]
  BY DEF Dial
<1> DEFINE r == [Free EXCEPT !.d = "handshake", !.l = "handshake",
                             !.cid = dialer.attempt, !.min = MinExpected, !.mesh = mesh]
<1>2. r \in Conn /\ r.d = "handshake" /\ r.l = "handshake" /\ r.pipe = <<>>
  <2>1. dialer.attempt \in 0..(CidModulus - 1) /\ MinExpected \in Nat /\ mesh \in Nat
    BY <1>0, MinExpectedOK DEF TypeInv, Dialer
  <2>2. <<>> \in Seq(PipeMessage)
    OBVIOUS
  <2> QED BY <2>1, <2>2 DEF Free, Conn, Side
<1> HIDE DEF r
<1>3. conns' = [conns EXCEPT ![s] = r]
  BY <1>1 DEF r
<1>4. conns' \in [Slots -> Conn] /\ conns'[s] = r /\ \A t \in Slots \ {s} : conns'[t] = conns[t]
  BY <1>0, <1>2, <1>3, ConnSet
<1>5. /\ dialer.pc = "dial" /\ outgoing.slot = 0 /\ s # incoming.slot
      /\ UNCHANGED <<peer_version, outgoing, incoming, mesh, log, sent, height, peer_height>>
  BY <1>0, <1>1 DEF Dial, HoldInv, IsFree
<1>6. dialer' \in Dialer /\ dialer'.pc = "handshake" /\ dialer'.slot = s
  BY <1>0, <1>1 DEF TypeInv, Dialer
<1>7. TypeInv'
  BY <1>0, <1>4, <1>5, <1>6 DEF TypeInv
<1>8. HoldInv'
  <2>1. incoming.slot \in Slots \cup {0}
    BY <1>0 DEF TypeInv, Versioned
  <2> QED BY <1>0, <1>2, <1>4, <1>5, <1>6, <2>1 DEF HoldInv
<1>9. \A t \in Slots : conns'[t].l # "closed" => Narrows(t)
  BY <1>0, <1>2, <1>3, OneNarrows
<1>10. OutKept
  BY <1>5 DEF OutKept
<1>11. mesh' = mesh /\ outgoing'.version >= outgoing.version
  BY <1>0, <1>5 DEF TypeInv, Versioned
<1>12. DataInv'
  BY <1>5, <1>7, <1>9, <1>10, <1>11, QuietOK
<1> QED BY <1>7, <1>8, <1>12 DEF DeliveryInv

(* A step that changes one connection and neither sends, receives nor restarts. *)
Touches(s, r) ==
  /\ s \in Slots /\ r \in Conn /\ conns' = [conns EXCEPT ![s] = r]
  /\ \/ r.l = "closed" \/ r.pipe = <<>>
     \/ conns[s].l # "closed" /\ Prefixed(r.pipe, conns[s].pipe)
  /\ UNCHANGED <<peer_version, mesh, log, sent, height, peer_height>>

(* A step that changes one connection and sends nothing. *)
LEMMA TouchesOK ==
  ASSUME DeliveryInv, NEW s, NEW r, Touches(s, r), dialer' \in Dialer, outgoing' \in Versioned,
         incoming' \in Versioned, outgoing'.version >= outgoing.version, HoldInv', OutKept
  PROVE  DeliveryInv'
<1>0. TypeInv
  BY DEF DeliveryInv
<1>1. s \in Slots /\ r \in Conn /\ conns' = [conns EXCEPT ![s] = r]
  BY DEF Touches
<1>2. conns' \in [Slots -> Conn]
  BY <1>0, <1>1, ConnSet
<1>3. TypeInv'
  BY <1>0, <1>2 DEF TypeInv, Touches
<1>4. \A t \in Slots : conns'[t].l # "closed" => Narrows(t)
  BY <1>0, <1>1, OneNarrows DEF Touches
<1>5. DataInv'
  BY <1>3, <1>4, QuietOK DEF Touches
<1> QED BY <1>3, <1>5 DEF DeliveryInv

(* The connection in use stays what it was if nothing of it changes but the listener. *)
LEMMA OutUntouched ==
  ASSUME TypeInv, HoldInv, NEW s \in Slots, NEW r \in Conn, conns' = [conns EXCEPT ![s] = r],
         UNCHANGED <<outgoing, mesh>>,
         \/ r.d # "open" \/ r.l = "closed"
         \/ r.d = conns[s].d /\ conns[s].l # "closed" /\ r.pipe = conns[s].pipe
  PROVE  OutKept
<1>1. conns'[s] = r /\ \A t \in Slots \ {s} : conns'[t] = conns[t]
  BY ConnSet
<1>2. outgoing.slot \in Slots \cup {0}
  BY DEF TypeInv, Versioned
<1>3. CASE outgoing.slot = s
  BY <1>1, <1>3 DEF OutKept
<1>4. CASE outgoing.slot # s
  BY <1>1, <1>2, <1>4 DEF OutKept
<1> QED BY <1>3, <1>4

(* The dialer closes its side during the handshake and dials again. *)
LEMMA DialerGivesUp ==
  ASSUME DeliveryInv, dialer.pc = "handshake",
         conns' = [conns EXCEPT ![dialer.slot].d = "closed"],
         dialer' = [dialer EXCEPT !.pc = "dial", !.slot = 0],
         UNCHANGED <<peer_version, outgoing, incoming, mesh, log, sent, height, peer_height>>
  PROVE  DeliveryInv'
<1> DEFINE s == dialer.slot
           r == [conns[s] EXCEPT !.d = "closed"]
<1>0. TypeInv /\ HoldInv
  BY DEF DeliveryInv
<1>1. /\ s \in Slots /\ outgoing.slot = 0 /\ dialer \in Dialer
      /\ outgoing \in Versioned /\ incoming \in Versioned
  BY <1>0 DEF HoldInv, TypeInv
<1>2. conns[s] \in Conn /\ Prefixed(conns[s].pipe, conns[s].pipe)
  BY <1>0, <1>1, ConnFacts
<1>3. r \in Conn /\ r.d = "closed" /\ r.l = conns[s].l /\ r.pipe = conns[s].pipe
  BY <1>2 DEF Conn, Side
<1>4. conns' = [conns EXCEPT ![s] = r]
  OBVIOUS
<1> HIDE DEF r
<1>5. conns'[s] = r /\ \A t \in Slots \ {s} : conns'[t] = conns[t]
  BY <1>0, <1>1, <1>3, <1>4, ConnSet
<1>6. dialer' \in Dialer /\ dialer'.pc = "dial"
  BY <1>1 DEF Dialer
<1>7. Touches(s, r)
  BY <1>1, <1>2, <1>3, <1>4 DEF Touches
<1>8. incoming.slot \in Slots \cup {0} /\ outgoing'.version >= outgoing.version
  BY <1>1 DEF Versioned
<1>9. HoldInv'
  BY <1>0, <1>1, <1>3, <1>5, <1>6, <1>8 DEF HoldInv
<1>10. OutKept
  BY <1>1 DEF OutKept
<1>11. outgoing' \in Versioned /\ incoming' \in Versioned
  BY <1>1
<1> QED BY <1>6, <1>7, <1>8, <1>9, <1>10, <1>11, TouchesOK

(* The dialer finishes its handshake. *)
LEMMA DialerHandshakeOK ==
  ASSUME DeliveryInv, DialerHandshake
  PROVE  DeliveryInv'
<1> DEFINE s == dialer.slot
<1>0. TypeInv /\ HoldInv
  BY DEF DeliveryInv
<1>1. /\ dialer.pc = "handshake" /\ s \in Slots /\ outgoing.slot = 0 /\ dialer \in Dialer
      /\ outgoing \in Versioned /\ incoming \in Versioned /\ 0 \notin Slots
      /\ UNCHANGED <<peer_version, incoming, mesh, log, sent, height, peer_height>>
  BY <1>0, ConnectivityAssumption DEF DialerHandshake, HoldInv, TypeInv
<1>2. /\ conns[s] \in Conn /\ Prefixed(conns[s].pipe, conns[s].pipe)
      /\ conns \in [Slots -> Conn]
  BY <1>0, <1>1, ConnFacts DEF TypeInv
<1>a. \A t \in Slots : conns[t].d # "open"
  BY <1>0, <1>1 DEF HoldInv
<1>b. outgoing.version \in Nat /\ incoming.slot \in Slots \cup {0}
  BY <1>1 DEF Versioned
<1>3. CASE /\ conns' = [conns EXCEPT ![s].d = "open"]
           /\ outgoing' = SetOutgoing(s)
           /\ dialer' = [dialer EXCEPT !.pc = "connected"]
  <2> DEFINE r == [conns[s] EXCEPT !.d = "open"]
  <2>1. r \in Conn /\ r.d = "open" /\ r.l = conns[s].l /\ r.pipe = conns[s].pipe
    BY <1>2 DEF Conn, Side
  <2>2. conns' = [conns EXCEPT ![s] = r]
    BY <1>3
  <2> HIDE DEF r
  <2>3. conns'[s] = r /\ \A t \in Slots \ {s} : conns'[t] = conns[t]
    BY <1>0, <1>1, <2>1, <2>2, ConnSet
  <2>4. Touches(s, r)
    BY <1>1, <1>2, <2>1, <2>2 DEF Touches
  <2>5. dialer' \in Dialer /\ dialer'.pc = "connected" /\ dialer'.slot = s
    BY <1>1, <1>3 DEF Dialer
  <2>6. outgoing' \in Versioned /\ outgoing'.version = outgoing.version + 1 /\ outgoing'.slot = s
        /\ outgoing'.version >= outgoing.version
    BY <1>1, <1>3, <1>b DEF SetOutgoing, Versioned
  <2>7. HoldInv'
    BY <1>0, <1>1, <1>a, <1>b, <2>1, <2>3, <2>5, <2>6 DEF HoldInv
  <2>8. OutKept
    BY <1>1, <2>6 DEF OutKept
  <2> QED BY <1>1, <2>4, <2>5, <2>6, <2>7, <2>8, TouchesOK
<1>4. CASE /\ conns' = [conns EXCEPT ![s].d = "closed"]
           /\ dialer' = [dialer EXCEPT !.pc = "dial", !.slot = 0]
           /\ UNCHANGED outgoing
  BY <1>0, <1>1, <1>4, DialerGivesUp
<1> QED BY <1>3, <1>4 DEF DialerHandshake

(* The dialer gives its handshake up. *)
LEMMA DialerHandshakeTimeoutOK ==
  ASSUME DeliveryInv, DialerHandshakeTimeout
  PROVE  DeliveryInv'
BY DialerGivesUp DEF DialerHandshakeTimeout

(* A step of the listener, or of the path, at one connection. *)
LEMMA ListenerTouches ==
  ASSUME DeliveryInv, NEW s \in Slots, NEW r \in Conn, conns' = [conns EXCEPT ![s] = r],
         r.d = conns[s].d,
         r.l = "closed" \/ (conns[s].l # "closed" /\ r.pipe = conns[s].pipe),
         incoming' \in Versioned,
         incoming'.slot # 0 => conns'[incoming'.slot].l = "open",
         UNCHANGED <<peer_version, dialer, outgoing, mesh, log, sent, height, peer_height>>
  PROVE  DeliveryInv'
<1>0. TypeInv /\ HoldInv
  BY DEF DeliveryInv
<1>1. dialer' \in Dialer /\ outgoing' \in Versioned /\ outgoing'.version >= outgoing.version
  BY <1>0 DEF TypeInv, Versioned
<1>2. conns'[s] = r /\ \A t \in Slots \ {s} : conns'[t] = conns[t]
  BY <1>0, ConnSet
<1>3. Touches(s, r)
  BY <1>0, ConnFacts DEF Touches
<1>4. HoldInv'
  BY <1>0, <1>2 DEF HoldInv
<1>5. OutKept
  BY <1>0, OutUntouched
<1> QED BY <1>1, <1>3, <1>4, <1>5, TouchesOK

(* The listener drops a connection it has not taken. *)
LEMMA ListenerGivesUp ==
  ASSUME DeliveryInv, NEW s \in Slots, conns[s].l = "handshake",
         conns' = [conns EXCEPT ![s].l = "closed"],
         UNCHANGED <<peer_version, dialer, outgoing, incoming, mesh, log, sent, height,
                     peer_height>>
  PROVE  DeliveryInv'
<1> DEFINE r == [conns[s] EXCEPT !.l = "closed"]
<1>0. TypeInv /\ HoldInv
  BY DEF DeliveryInv
<1>1. conns[s] \in Conn /\ incoming \in Versioned /\ incoming' = incoming
  BY <1>0, ConnFacts DEF TypeInv
<1>2. r \in Conn /\ r.d = conns[s].d /\ r.l = "closed"
  BY <1>1 DEF Conn, Side
<1>3. conns' = [conns EXCEPT ![s] = r]
  OBVIOUS
<1> HIDE DEF r
<1>4. conns'[s] = r /\ \A t \in Slots \ {s} : conns'[t] = conns[t]
  BY <1>0, <1>2, <1>3, ConnSet
<1>5. incoming.slot # 0 => conns'[incoming.slot].l = "open"
  <2>1. incoming.slot \in Slots \cup {0}
    BY <1>1 DEF Versioned
  <2> QED BY <1>0, <1>4, <2>1 DEF HoldInv
<1>6. r.l = "closed" \/ (conns[s].l # "closed" /\ r.pipe = conns[s].pipe)
  BY <1>2
<1>7. incoming' \in Versioned /\ (incoming'.slot # 0 => conns'[incoming'.slot].l = "open")
  BY <1>1, <1>5
<1> QED BY <1>2, <1>3, <1>6, <1>7, ListenerTouches

(* The listener finishes its handshake. *)
LEMMA ListenerHandshakeOK ==
  ASSUME DeliveryInv, NEW s \in Slots, ListenerHandshake(s)
  PROVE  DeliveryInv'
<1> DEFINE id == SenderConnectionId(conns[s])
<1>0. TypeInv /\ HoldInv
  BY DEF DeliveryInv
<1>1. /\ conns[s] \in Conn /\ conns[s].l = "handshake" /\ conns \in [Slots -> Conn]
      /\ id \in 0..(CidModulus - 1)
      /\ incoming \in Versioned /\ incoming.version + 1 \in Nat
      /\ UNCHANGED <<peer_version, dialer, outgoing, mesh, log, sent, height, peer_height>>
  <2>1. conns[s].cid \in 0..(CidModulus - 1) /\ 1 \in 0..(CidModulus - 1)
    BY <1>0, ConnFacts, ConnectivityAssumption
  <2>2. incoming \in Versioned /\ incoming.version \in Nat
    BY <1>0 DEF TypeInv, Versioned
  <2> QED BY <1>0, <2>1, <2>2, ConnFacts DEF ListenerHandshake, SenderConnectionId, TypeInv
<1> HIDE DEF id
<1>2. CASE /\ conns' = [conns EXCEPT ![s].l = "open", ![s].cid = id]
           /\ incoming' = [version |-> incoming.version + 1, slot |-> s]
  <2> DEFINE r == [conns[s] EXCEPT !.l = "open", !.cid = id]
  <2>1. /\ r \in Conn /\ r.d = conns[s].d /\ r.l = "open" /\ r.pipe = conns[s].pipe
    BY <1>1 DEF Conn, Side
  <2>2. conns' = [conns EXCEPT ![s] = r]
    BY <1>1, <1>2
  <2> HIDE DEF r
  <2>3. conns'[s] = r
    BY <1>0, <2>1, <2>2, ConnSet
  <2>4. incoming' \in Versioned /\ incoming'.slot = s
    BY <1>1, <1>2 DEF Versioned
  <2> QED BY <1>1, <2>1, <2>2, <2>3, <2>4, ListenerTouches
<1>3. CASE conns' = [conns EXCEPT ![s].l = "closed"] /\ UNCHANGED incoming
  BY <1>1, <1>3, ListenerGivesUp
<1> QED BY <1>2, <1>3 DEF ListenerHandshake, id

(* The listener gives its handshake up. *)
LEMMA ListenerHandshakeTimeoutOK ==
  ASSUME DeliveryInv, NEW s \in Slots, ListenerHandshakeTimeout(s)
  PROVE  DeliveryInv'
BY ListenerGivesUp DEF ListenerHandshakeTimeout

(* The network cuts a connection. *)
LEMMA CutOK ==
  ASSUME DeliveryInv, NEW s \in Slots, Cut(s)
  PROVE  DeliveryInv'
<1> DEFINE r == [conns[s] EXCEPT !.cut = TRUE]
<1>0. TypeInv /\ HoldInv
  BY DEF DeliveryInv
<1>1. conns[s] \in Conn /\ conns[s].l \in Side /\ incoming \in Versioned
  BY <1>0, ConnFacts DEF TypeInv
<1>2. r \in Conn /\ r.d = conns[s].d /\ r.l = conns[s].l /\ r.pipe = conns[s].pipe
  BY <1>1 DEF Conn
<1>3. conns' = [conns EXCEPT ![s] = r]
  BY DEF Cut
<1> HIDE DEF r
<1>4. conns'[s] = r /\ \A t \in Slots \ {s} : conns'[t] = conns[t]
  BY <1>0, <1>2, <1>3, ConnSet
<1>5. incoming' = incoming /\ (incoming.slot # 0 => conns'[incoming.slot].l = "open")
  <2>1. incoming.slot \in Slots \cup {0}
    BY <1>1 DEF Versioned
  <2> QED BY <1>0, <1>2, <1>4, <2>1 DEF HoldInv, Cut
<1>6. UNCHANGED <<peer_version, dialer, outgoing, mesh, log, sent, height, peer_height>>
  BY DEF Cut
<1> QED BY <1>1, <1>2, <1>3, <1>5, <1>6, ListenerTouches

(* The listener's handler ends. *)
LEMMA HandlerEndsOK ==
  ASSUME DeliveryInv, NEW s \in Slots, HandlerEnds(s)
  PROVE  DeliveryInv'
<1> DEFINE r == [conns[s] EXCEPT !.l = "closed", !.pipe = <<>>]
<1>0. TypeInv /\ HoldInv
  BY DEF DeliveryInv
<1>1. conns[s] \in Conn /\ incoming \in Versioned /\ conns \in [Slots -> Conn]
  BY <1>0, ConnFacts DEF TypeInv
<1>2. r \in Conn /\ r.d = conns[s].d /\ r.l = "closed"
  <2>1. <<>> \in Seq(PipeMessage)
    OBVIOUS
  <2> QED BY <1>1, <2>1 DEF Conn, Side
<1>3. conns' = [conns EXCEPT ![s] = r]
  BY <1>1 DEF HandlerEnds
<1> HIDE DEF r
<1>4. conns'[s] = r /\ \A t \in Slots \ {s} : conns'[t] = conns[t]
  BY <1>0, <1>2, <1>3, ConnSet
<1>5. incoming' \in Versioned /\ (incoming'.slot # 0 => conns'[incoming'.slot].l = "open")
  <2>1. incoming.slot \in Slots \cup {0}
    BY <1>1 DEF Versioned
  <2>2. CASE incoming.slot = s
    BY <1>1, <2>2 DEF HandlerEnds, Versioned
  <2>3. CASE incoming.slot # s
    BY <1>0, <1>1, <1>4, <2>1, <2>3 DEF HandlerEnds, HoldInv
  <2> QED BY <2>2, <2>3
<1>6. UNCHANGED <<peer_version, dialer, outgoing, mesh, log, sent, height, peer_height>>
  BY DEF HandlerEnds
<1>7. r.l = "closed" \/ (conns[s].l # "closed" /\ r.pipe = conns[s].pipe)
  BY <1>2
<1> QED BY <1>2, <1>3, <1>5, <1>6, <1>7, ListenerTouches

-----------------------------------------------------------------------------
(* The end of a connection. *)

(* The sender task ends: the messages it had not written are lost, and the connection is
   not used any more. *)
LEMMA SenderEnds ==
  ASSUME DeliveryInv, dialer.pc = "connected",
         NEW i \in 0..Len(conns[dialer.slot].pipe),
         conns' = [conns EXCEPT ![dialer.slot].d = "closed",
                                ![dialer.slot].pipe = SubSeq(@, 1, i)],
         UNCHANGED <<peer_version, dialer, outgoing, incoming, mesh, log, sent, height,
                     peer_height>>
  PROVE  DeliveryInv'
<1> DEFINE s == dialer.slot
           t == SubSeq(conns[s].pipe, 1, i)
           r == [conns[s] EXCEPT !.d = "closed", !.pipe = t]
<1>0. TypeInv /\ HoldInv
  BY DEF DeliveryInv
<1>1. /\ s \in Slots /\ dialer \in Dialer /\ outgoing \in Versioned /\ incoming \in Versioned
      /\ conns \in [Slots -> Conn]
  BY <1>0 DEF HoldInv, TypeInv
<1>2. conns[s] \in Conn /\ conns[s].pipe \in Seq(PipeMessage) /\ conns[s].l \in Side
  BY <1>0, <1>1, ConnFacts
<1>3. Prefixed(t, conns[s].pipe)
  BY <1>2, SubSeqPrefixed
<1>4. t \in Seq(PipeMessage)
  BY <1>3 DEF Prefixed
<1>5. conns' = [conns EXCEPT ![s] = r]
  <2> HIDE DEF t
  <2>1. conns' = [conns EXCEPT ![s].d = "closed", ![s].pipe = t]
    BY <1>1, <1>2 DEF t
  <2> QED BY <1>1, <1>2, <2>1
<1> HIDE DEF t
<1>6. r \in Conn /\ r.d = "closed" /\ r.l = conns[s].l /\ r.pipe = t
  BY <1>2, <1>4 DEF Conn, Side
<1> HIDE DEF r
<1>7. conns'[s] = r /\ \A u \in Slots \ {s} : conns'[u] = conns[u]
  BY <1>0, <1>1, <1>5, <1>6, ConnSet
<1>8. Touches(s, r)
  BY <1>1, <1>3, <1>5, <1>6 DEF Touches
<1>9. incoming.slot \in Slots \cup {0} /\ outgoing'.version >= outgoing.version
  BY <1>1 DEF Versioned
<1>10. HoldInv'
  BY <1>0, <1>1, <1>6, <1>7, <1>9 DEF HoldInv
<1>11. OutKept
  BY <1>0, <1>1, <1>5, <1>6, OutUntouched
<1>12. dialer' \in Dialer /\ outgoing' \in Versioned /\ incoming' \in Versioned
  BY <1>1
<1> QED BY <1>8, <1>9, <1>10, <1>11, <1>12, TouchesOK

(* The dialer's sending task ends. *)
LEMMA SenderTaskEndsOK ==
  ASSUME DeliveryInv, SenderTaskEnds
  PROVE  DeliveryInv'
<1>1. PICK i \in 0..Len(conns[dialer.slot].pipe) :
        conns' = [conns EXCEPT ![dialer.slot].d = "closed",
                               ![dialer.slot].pipe = SubSeq(@, 1, i)]
  BY DEF SenderTaskEnds
<1> QED BY <1>1, SenderEnds DEF SenderTaskEnds

(* A write takes too long. *)
LEMMA WriteTimeoutOK ==
  ASSUME DeliveryInv, WriteTimeout
  PROVE  DeliveryInv'
<1>1. PICK i \in 0..Len(conns[dialer.slot].pipe) :
        conns' = [conns EXCEPT ![dialer.slot].d = "closed",
                               ![dialer.slot].pipe = SubSeq(@, 1, i)]
  BY DEF WriteTimeout
<1> QED BY <1>1, SenderEnds DEF WriteTimeout

(* The dialer notices that its connection is closed. *)
LEMMA ConnectionClosedOK ==
  ASSUME DeliveryInv, ConnectionClosed
  PROVE  DeliveryInv'
<1>0. TypeInv /\ HoldInv
  BY DEF DeliveryInv
<1>1. /\ dialer.pc = "connected" /\ dialer.slot \in Slots /\ conns[dialer.slot].d = "closed"
      /\ dialer \in Dialer /\ outgoing \in Versioned
      /\ UNCHANGED <<peer_version, conns, incoming, mesh, log, sent, height, peer_height>>
  BY <1>0 DEF ConnectionClosed, HoldInv, TypeInv
<1>2. dialer' \in Dialer /\ dialer'.pc = "dial"
  <2>1. WrappingAdd(dialer.attempt) \in 0..(CidModulus - 1)
    BY <1>1, WrappingAddOK DEF Dialer
  <2> QED BY <2>1 DEF ConnectionClosed, Dialer
<1>3. outgoing' \in Versioned /\ outgoing'.slot = 0 /\ outgoing'.version >= outgoing.version
  BY <1>1 DEF ConnectionClosed, Versioned
<1>4. TypeInv'
  BY <1>0, <1>1, <1>2, <1>3 DEF TypeInv
<1>5. HoldInv'
  BY <1>0, <1>1, <1>2, <1>3 DEF HoldInv
<1>6. \A s \in Slots : conns'[s].l # "closed" => Narrows(s)
  BY <1>0, <1>1, ConnFacts DEF Narrows
<1>7. OutKept
  BY <1>3 DEF OutKept
<1>8. DataInv'
  BY <1>1, <1>3, <1>4, <1>6, <1>7, QuietOK
<1> QED BY <1>4, <1>5, <1>8 DEF DeliveryInv

(* The dialing node restarts. *)
LEMMA DialerRestartOK ==
  ASSUME DeliveryInv, DialerRestart
  PROVE  DeliveryInv'
<1>0. TypeInv /\ HoldInv
  BY DEF DeliveryInv
<1>1. /\ conns' = [s \in Slots |-> [conns[s] EXCEPT !.d = "closed"]]
      /\ dialer' = [pc |-> "dial", slot |-> 0, attempt |-> 0]
      /\ outgoing' = [version |-> 0, slot |-> 0] /\ mesh' = mesh + 1 /\ mesh \in Nat
      /\ UNCHANGED <<peer_version, incoming, log, sent, height, peer_height>>
  BY <1>0 DEF DialerRestart, TypeInv
<1>2. ASSUME NEW s \in Slots
      PROVE  /\ conns'[s] \in Conn /\ conns'[s].d = "closed" /\ conns'[s].l = conns[s].l
             /\ conns'[s].pipe = conns[s].pipe
  <2>1. conns[s] \in Conn
    BY <1>0, ConnFacts
  <2> QED BY <1>1, <2>1 DEF Conn, Side
<1>3. conns' \in [Slots -> Conn]
  BY <1>1, <1>2
<1>4. dialer' \in Dialer /\ outgoing' \in Versioned /\ outgoing'.slot = 0 /\ dialer'.pc = "dial"
  BY <1>1, ConnectivityAssumption DEF Dialer, Versioned
<1>5. TypeInv'
  BY <1>0, <1>1, <1>3, <1>4 DEF TypeInv
<1>6. HoldInv'
  <2>1. incoming.slot \in Slots \cup {0}
    BY <1>0 DEF TypeInv, Versioned
  <2> QED BY <1>0, <1>1, <1>2, <1>4, <2>1 DEF HoldInv
<1>7. \A s \in Slots : conns'[s].l # "closed" => Narrows(s)
  BY <1>0, <1>2, ConnFacts DEF Narrows
<1>8. OutKept
  BY <1>4 DEF OutKept
<1>9. mesh' > mesh
  BY <1>1
<1>10. DataInv'
  BY <1>1, <1>5, <1>7, <1>8, <1>9, QuietOK
<1> QED BY <1>5, <1>6, <1>10 DEF DeliveryInv

(* The listening node restarts. *)
LEMMA ListenerRestartOK ==
  ASSUME DeliveryInv, ListenerRestart
  PROVE  DeliveryInv'
<1>0. TypeInv /\ HoldInv
  BY DEF DeliveryInv
<1>1. /\ conns' = [s \in Slots |-> [conns[s] EXCEPT !.l = "closed", !.pipe = <<>>]]
      /\ incoming' = [version |-> 0, slot |-> 0] /\ peer_height' = 0
      /\ UNCHANGED <<peer_version, dialer, outgoing, mesh, log, sent, height>>
  BY DEF ListenerRestart
<1>2. ASSUME NEW s \in Slots
      PROVE  conns'[s] \in Conn /\ conns'[s].d = conns[s].d /\ conns'[s].l = "closed"
  <2>1. conns[s] \in Conn /\ <<>> \in Seq(PipeMessage)
    BY <1>0, ConnFacts
  <2> QED BY <1>1, <2>1 DEF Conn, Side
<1>3. conns' \in [Slots -> Conn]
  BY <1>1, <1>2
<1>4. incoming' \in Versioned /\ incoming'.slot = 0
  BY <1>1 DEF Versioned
<1>5. TypeInv'
  BY <1>0, <1>1, <1>3, <1>4 DEF TypeInv
<1>6. HoldInv'
  BY <1>0, <1>1, <1>2, <1>4 DEF HoldInv
<1>7. \A s \in Slots : conns'[s].l # "closed" => Narrows(s)
  BY <1>2
<1>8. OutKept /\ outgoing'.version >= outgoing.version
  <2>1. outgoing.slot \in Slots \cup {0} /\ outgoing.version \in Nat
    BY <1>0 DEF TypeInv, Versioned
  <2>2. OutKept
    BY <1>1, <1>2, <2>1 DEF OutKept
  <2>3. outgoing' = outgoing
    BY <1>1
  <2>4. outgoing'.version >= outgoing.version
    BY <2>1, <2>3
  <2> QED BY <2>2, <2>4
<1>9. DataInv'
  BY <1>1, <1>5, <1>7, <1>8, QuietOK
<1> QED BY <1>5, <1>6, <1>9 DEF DeliveryInv

-----------------------------------------------------------------------------
(* Sending. *)

(* A stream stays in order with a message that may follow at its end. *)
LEMMA AppendOK ==
  ASSUME NEW snt, NEW lg, NEW pipe, PipeOK(snt, lg, pipe), NEW m \in PipeMessage,
         Mpc(m) => /\ m.number \in 1..Len(snt) /\ m.number \notin ToSet(lg)
                   /\ \A j \in 1..Len(pipe) : Mpc(pipe[j]) => pipe[j].number < m.number
                   /\ \A n \in 1..(m.number - 1) :
                        snt[n] = snt[m.number] => n \in ToSet(lg) \/ Carries(pipe, Len(pipe), n)
  PROVE  PipeOK(snt, lg, Append(pipe, m))
<1> DEFINE t == Append(pipe, m)
<1>1. pipe \in Seq(PipeMessage) /\ Len(pipe) \in Nat
  BY DEF PipeOK
<1>2. /\ t \in Seq(PipeMessage) /\ Len(t) = Len(pipe) + 1
      /\ \A i \in 1..Len(pipe) : t[i] = pipe[i]
      /\ t[Len(pipe) + 1] = m
  BY <1>1
<1> HIDE DEF t
<1>3. \A k \in 0..Len(pipe) : \A n : Carries(pipe, k, n) => Carries(t, k, n)
  BY <1>1, <1>2 DEF Carries
<1>4. ASSUME NEW i \in 1..Len(pipe), Mpc(t[i]) PROVE InOrder(snt, lg, t, i)
  <2>1. InOrder(snt, lg, pipe, i) /\ t[i] = pipe[i]
    BY <1>2, <1>4 DEF PipeOK
  <2>2. \A j \in 1..(i - 1) : t[j] = pipe[j]
    BY <1>1, <1>2
  <2>3. \A n : Carries(pipe, i - 1, n) => Carries(t, i - 1, n)
    BY <2>2 DEF Carries
  <2> QED BY <2>1, <2>2, <2>3 DEF InOrder
<1>5. ASSUME NEW i, i = Len(pipe) + 1, Mpc(t[i]) PROVE InOrder(snt, lg, t, i)
  <2>1. t[i] = m /\ i - 1 = Len(pipe)
    BY <1>1, <1>2, <1>5
  <2>2. \A n : Carries(pipe, Len(pipe), n) => Carries(t, Len(pipe), n)
    BY <1>1, <1>3
  <2> QED BY <1>2, <1>5, <2>1, <2>2 DEF InOrder
<1>6. \A i \in 1..Len(t) : i \in 1..Len(pipe) \/ i = Len(pipe) + 1
  BY <1>1, <1>2
<1>7. PipeOK(snt, lg, t)
  BY <1>2, <1>4, <1>5, <1>6 DEF PipeOK
<1> QED BY <1>7 DEF t

(* More messages have been sent elsewhere. *)
LEMMA LongerOK ==
  ASSUME NEW snt \in Seq(Nat \X Nat), NEW key \in Nat \X Nat, NEW lg, NEW pipe,
         PipeOK(snt, lg, pipe)
  PROVE  PipeOK(Append(snt, key), lg, pipe)
<1> DEFINE t == Append(snt, key)
<1>1. /\ Len(snt) \in Nat /\ Len(t) = Len(snt) + 1 /\ \A n \in 1..Len(snt) : t[n] = snt[n]
  OBVIOUS
<1> HIDE DEF t
<1>2. ASSUME NEW i \in 1..Len(pipe), Mpc(pipe[i]) PROVE InOrder(t, lg, pipe, i)
  <2>1. InOrder(snt, lg, pipe, i)
    BY <1>2 DEF PipeOK
  <2> DEFINE k == pipe[i].number
  <2>2. k \in 1..Len(snt) /\ k \in 1..Len(t) /\ t[k] = snt[k]
    BY <1>1, <2>1, SMTT(60) DEF InOrder
  <2>3. \A n \in 1..(k - 1) : n \in 1..Len(snt) /\ t[n] = snt[n]
    <3> HIDE DEF k
    <3>1. k \in 1..Len(snt) /\ Len(snt) \in Nat
      BY <1>1, <2>2
    <3>2. \A n \in 1..(k - 1) : n \in 1..Len(snt)
      BY <3>1
    <3> QED BY <1>1, <3>2
  <2> QED BY <2>1, <2>2, <2>3 DEF InOrder
<1>3. PipeOK(t, lg, pipe)
  BY <1>2 DEF PipeOK
<1> QED BY <1>3 DEF t

(* What was received stays in order when another message is sent. *)
LEMMA LongerLogOK ==
  ASSUME NEW snt \in Seq(Nat \X Nat), NEW key \in Nat \X Nat, NEW lg, LogOK(snt, lg)
  PROVE  LogOK(Append(snt, key), lg)
<1> DEFINE t == Append(snt, key)
<1>1. /\ Len(snt) \in Nat /\ Len(t) = Len(snt) + 1 /\ \A n \in 1..Len(snt) : t[n] = snt[n]
  OBVIOUS
<1> HIDE DEF t
<1>2. lg \in Seq(Nat) /\ ToSet(lg) \subseteq 1..Len(snt) /\ 1..Len(snt) \subseteq 1..Len(t)
  BY <1>1 DEF LogOK
<1>3. ASSUME NEW i \in 1..Len(lg)
      PROVE  /\ \A n \in 1..(lg[i] - 1) : t[n] = t[lg[i]] => \E j \in 1..(i - 1) : lg[j] = n
             /\ \A j \in 1..(i - 1) : lg[j] # lg[i]
  <2>1. lg[i] \in 1..Len(snt)
    BY <1>2 DEF ToSet
  <2> DEFINE k == lg[i]
  <2>2. /\ \A n \in 1..(k - 1) : snt[n] = snt[k] => \E j \in 1..(i - 1) : lg[j] = n
        /\ \A j \in 1..(i - 1) : lg[j] # k
    BY DEF LogOK
  <2>3. k \in 1..Len(snt)
    BY <2>1
  <2> HIDE DEF k
  <2>4. t[k] = snt[k] /\ \A n \in 1..(k - 1) : n \in 1..Len(snt) /\ t[n] = snt[n]
    <3>1. \A n \in 1..(k - 1) : n \in 1..Len(snt)
      <4>1. Len(snt) \in Nat
        BY <1>1
      <4> QED BY <2>3, <4>1
    <3> QED BY <1>1, <2>3, <3>1
  <2>5. \A n \in 1..(k - 1) : t[n] = t[k] => \E j \in 1..(i - 1) : lg[j] = n
    BY <2>2, <2>4
  <2> QED BY <2>2, <2>5 DEF k
<1>4. LogOK(t, lg)
  BY <1>2, <1>3 DEF LogOK
<1> QED BY <1>4 DEF t

(* The message is in none of the other pipes. *)
Elsewhere(s, m) ==
  \A t \in Slots \ {s} : conns[t].l # "closed" =>
    \A i \in 1..Len(conns[t].pipe) :
      Mpc(m) /\ Mpc(conns[t].pipe[i]) => conns[t].pipe[i].number # m.number

(* The pipe of one connection gets one more message. *)
LEMMA AppendedStreams ==
  ASSUME NEW snt, NEW lg, TypeInv, StreamsOK(snt, lg, conns), NEW s \in Slots, NEW r \in Conn,
         conns' = [conns EXCEPT ![s] = r], NEW m \in PipeMessage,
         r.l = conns[s].l, r.pipe = Append(conns[s].pipe, m),
         conns[s].l # "closed" => PipeOK(snt, lg, Append(conns[s].pipe, m)),
         Elsewhere(s, m)
  PROVE  StreamsOK(snt, lg, conns')
<1>1. conns'[s] = r /\ \A t \in Slots \ {s} : conns'[t] = conns[t]
  BY ConnSet
<1>2. conns[s].pipe \in Seq(PipeMessage)
  BY ConnFacts
<1>3. ASSUME NEW t \in Slots, conns'[t].l # "closed" PROVE PipeOK(snt, lg, conns'[t].pipe)
  <2>1. CASE t = s
    BY <1>1, <1>3, <2>1
  <2>2. CASE t # s
    BY <1>1, <1>3, <2>2 DEF StreamsOK
  <2> QED BY <2>1, <2>2
<1>4. ASSUME NEW t \in Slots \ {s}, conns[t].l # "closed", conns[s].l # "closed"
      PROVE  Disjoint(r.pipe, conns[t].pipe) /\ Disjoint(conns[t].pipe, r.pipe)
  <2> DEFINE p == conns[s].pipe
             a == Append(p, m)
             q == conns[t].pipe
  <2>1. Disjoint(p, q) /\ Disjoint(q, p)
    BY <1>4 DEF StreamsOK
  <2>2. /\ Len(p) \in Nat /\ Len(a) = Len(p) + 1 /\ \A i \in 1..Len(p) : a[i] = p[i]
        /\ a[Len(p) + 1] = m
    BY <1>2
  <2>3. \A i \in 1..Len(q) : Mpc(m) /\ Mpc(q[i]) => q[i].number # m.number
    BY <1>4 DEF Elsewhere
  <2> HIDE DEF p, a, q
  <2>4. \A i \in 1..Len(a) : i \in 1..Len(p) \/ i = Len(p) + 1
    BY <2>2
  <2>5. Disjoint(a, q) /\ Disjoint(q, a)
    BY <2>1, <2>2, <2>3, <2>4 DEF Disjoint
  <2> QED BY <2>5 DEF a, p, q
<1>5. ASSUME NEW t \in Slots, NEW u \in Slots, t # u, conns'[t].l # "closed",
             conns'[u].l # "closed"
      PROVE  Disjoint(conns'[t].pipe, conns'[u].pipe)
  <2>1. CASE t = s
    BY <1>1, <1>4, <1>5, <2>1
  <2>2. CASE u = s
    BY <1>1, <1>4, <1>5, <2>2
  <2>3. CASE t # s /\ u # s
    BY <1>1, <1>5, <2>3 DEF StreamsOK
  <2> QED BY <2>1, <2>2, <2>3
<1> QED BY <1>3, <1>5 DEF StreamsOK

(* The connection that the dialer sends over. *)
LEMMA OutFacts ==
  ASSUME DeliveryInv, outgoing.slot # 0
  PROVE  /\ outgoing.slot \in Slots /\ conns[outgoing.slot] \in Conn
         /\ conns[outgoing.slot].pipe \in Seq(PipeMessage)
<1>1. TypeInv
  BY DEF DeliveryInv
<1>2. outgoing.slot \in Slots
  BY <1>1 DEF TypeInv, Versioned
<1> QED BY <1>1, <1>2, ConnFacts

(* The dialer sends a message under a connection version. *)
LEMMA SendOK ==
  ASSUME DeliveryInv, NEW version \in Nat, Send(version)
  PROVE  DeliveryInv'
<1> DEFINE s == outgoing.slot
           key == <<mesh, version>>
           m == [kind |-> "Mpc", number |-> Len(sent')]
           pipe == conns[s].pipe
           r == [conns[s] EXCEPT !.pipe = Append(pipe, m)]
<1>0. TypeInv /\ HoldInv /\ DataInv
  BY DEF DeliveryInv
<1>1. /\ s # 0 /\ outgoing.version = version /\ conns[s].d = "open"
      /\ sent' = Append(sent, key) /\ conns' = [conns EXCEPT ![s] = r]
      /\ UNCHANGED <<peer_version, dialer, outgoing, incoming, mesh, log, height, peer_height>>
  BY DEF Send, OutgoingAsserting, OutgoingConnected
<1>2. s \in Slots /\ conns[s] \in Conn /\ pipe \in Seq(PipeMessage)
  BY <1>1, OutFacts
<1>3. mesh \in Nat /\ sent \in Seq(Nat \X Nat) /\ key \in Nat \X Nat /\ key[1] = mesh /\ key[2] = version
  BY <1>0 DEF TypeInv
<1> HIDE DEF key
<1>4. /\ sent' \in Seq(Nat \X Nat) /\ Len(sent) \in Nat /\ Len(sent') = Len(sent) + 1
      /\ \A n \in 1..Len(sent) : sent'[n] = sent[n]
      /\ sent'[Len(sent) + 1] = key
  BY <1>1, <1>3
<1>5. m \in PipeMessage /\ Mpc(m) /\ m.number = Len(sent) + 1
  BY <1>4 DEF PipeMessage, Mpc
<1>6. r \in Conn /\ r.d = "open" /\ r.l = conns[s].l /\ r.pipe = Append(pipe, m)
  <2>1. Append(pipe, m) \in Seq(PipeMessage)
    BY <1>2, <1>5
  <2> HIDE DEF m, pipe
  <2> QED BY <1>1, <1>2, <2>1 DEF Conn
<1> HIDE DEF m, r
<1>7. /\ conns' \in [Slots -> Conn] /\ conns'[s] = r
      /\ \A t \in Slots \ {s} : conns'[t] = conns[t]
  BY <1>0, <1>1, <1>2, <1>6, ConnSet
<1>8. TypeInv'
  BY <1>0, <1>1, <1>4, <1>7 DEF TypeInv
<1>9. HoldInv'
  <2>1. incoming.slot \in Slots \cup {0}
    BY <1>0 DEF TypeInv, Versioned
  <2> QED BY <1>0, <1>1, <1>2, <1>6, <1>7, <2>1 DEF HoldInv
<1>10. /\ StreamsOK(sent, log, conns) /\ LogOK(sent, log) /\ KeysOK(sent, mesh, version)
       /\ OutOK(sent, log, conns, s, mesh, version)
  BY <1>0, <1>1 DEF DataInv
<1>11. LogOK(sent', log')
  BY <1>1, <1>3, <1>10, LongerLogOK
<1>12. KeysOK(sent', mesh', outgoing'.version)
  <2>1. ASSUME NEW n \in 1..Len(sent')
        PROVE  sent'[n][1] <= mesh /\ (sent'[n][1] = mesh => sent'[n][2] <= version)
    <3>1. CASE n \in 1..Len(sent)
      BY <1>4, <1>10, <3>1 DEF KeysOK
    <3>2. CASE n = Len(sent) + 1
      BY <1>3, <1>4, <3>2
    <3> QED BY <1>4, <3>1, <3>2
  <2> QED BY <1>1, <2>1 DEF KeysOK
<1>13. StreamsOK(sent', log, conns)
  BY <1>1, <1>3, <1>10, LongerOK DEF StreamsOK
<1>14. ASSUME NEW t \in Slots, conns[t].l # "closed", NEW i \in 1..Len(conns[t].pipe),
              Mpc(conns[t].pipe[i])
       PROVE  conns[t].pipe[i].number < m.number
  <2>1. conns[t].pipe[i].number \in 1..Len(sent)
    BY <1>10, <1>14 DEF StreamsOK, PipeOK, InOrder
  <2> QED BY <1>4, <1>5, <2>1
<1>15. ASSUME conns[s].l # "closed"
       PROVE  PipeOK(sent', log, Append(pipe, m))
  <2>1. m.number \in 1..Len(sent') /\ m.number \notin ToSet(log)
    BY <1>4, <1>5, <1>10 DEF LogOK
  <2>2. \A j \in 1..Len(pipe) : Mpc(pipe[j]) => pipe[j].number < m.number
    BY <1>2, <1>14, <1>15
  <2>3. ASSUME NEW n \in 1..(m.number - 1), sent'[n] = sent'[m.number]
        PROVE  n \in ToSet(log) \/ Carries(pipe, Len(pipe), n)
    <3>1. n \in 1..Len(sent) /\ sent[n] = <<mesh, version>>
      BY <1>4, <1>5, <2>3 DEF key
    <3> QED BY <1>1, <1>10, <1>15, <3>1 DEF OutOK
  <2>4. PipeOK(sent', log, pipe)
    BY <1>2, <1>13, <1>15 DEF StreamsOK
  <2> HIDE DEF pipe
  <2> QED BY <1>5, <2>1, <2>2, <2>3, <2>4, AppendOK
<1>16. StreamsOK(sent', log', conns')
  <2>1. Elsewhere(s, m)
    <3> SUFFICES ASSUME NEW t \in Slots \ {s}, conns[t].l # "closed",
                        NEW i \in 1..Len(conns[t].pipe), Mpc(conns[t].pipe[i])
                 PROVE  conns[t].pipe[i].number # m.number
      BY DEF Elsewhere
    <3>1. conns[t].pipe[i].number < m.number /\ conns[t].pipe[i].number \in 1..Len(sent)
      BY <1>10, <1>14 DEF StreamsOK, PipeOK, InOrder
    <3> QED BY <1>4, <1>5, <3>1
  <2>2. r.pipe = Append(conns[s].pipe, m)
        /\ (conns[s].l # "closed" => PipeOK(sent', log, Append(conns[s].pipe, m)))
    BY <1>6, <1>15
  <2>3. s \in Slots /\ r \in Conn /\ r.l = conns[s].l /\ conns' = [conns EXCEPT ![s] = r]
    BY <1>1, <1>2, <1>6
  <2> HIDE DEF s, pipe
  <2>4. StreamsOK(sent', log, conns')
    BY <1>0, <1>5, <1>13, <2>1, <2>2, <2>3, AppendedStreams
  <2> QED BY <1>1, <2>4
<1>17. OutOK(sent', log', conns', outgoing'.slot, mesh', outgoing'.version)
  <2> SUFFICES ASSUME conns[s].l # "closed", NEW n \in 1..Len(sent'),
                      sent'[n] = <<mesh, version>>
               PROVE  n \in ToSet(log) \/ Carries(r.pipe, Len(r.pipe), n)
    BY <1>1, <1>6, <1>7 DEF OutOK
  <2>1. /\ Len(pipe) \in Nat /\ Len(r.pipe) = Len(pipe) + 1
        /\ \A i \in 1..Len(pipe) : r.pipe[i] = pipe[i]
        /\ r.pipe[Len(pipe) + 1] = m
    BY <1>2, <1>5, <1>6, SMTT(60)
  <2> HIDE DEF pipe
  <2>2. CASE n = Len(sent) + 1
    <3>1. Len(pipe) + 1 \in 1..Len(r.pipe)
      BY <2>1
    <3> QED BY <1>5, <2>1, <2>2, <3>1 DEF Carries
  <2>3. CASE n \in 1..Len(sent)
    <3>1. n \in ToSet(log) \/ Carries(pipe, Len(pipe), n)
      BY <1>1, <1>4, <1>10, <2>3 DEF OutOK, pipe
    <3>2. \A j \in 1..Len(pipe) : j \in 1..Len(r.pipe) /\ r.pipe[j] = pipe[j]
      BY <2>1
    <3> QED BY <3>1, <3>2 DEF Carries
  <2> QED BY <1>4, <2>2, <2>3
<1> QED BY <1>8, <1>9, <1>11, <1>12, <1>16, <1>17, DataPrimed DEF DeliveryInv

(* The dialer sends its indexer's height. *)
LEMMA SendIndexerHeightOK ==
  ASSUME DeliveryInv, SendIndexerHeight
  PROVE  DeliveryInv'
<1> DEFINE s == outgoing.slot
           m == [kind |-> "IndexerHeight", height |-> height']
           pipe == conns[s].pipe
           r == [conns[s] EXCEPT !.pipe = Append(pipe, m)]
<1>0. TypeInv /\ HoldInv /\ DataInv
  BY DEF DeliveryInv
<1>1. /\ height' = height + 1 /\ height \in Nat /\ height' \in Nat
      /\ UNCHANGED <<peer_version, dialer, outgoing, incoming, mesh, log, sent, peer_height>>
  BY <1>0 DEF SendIndexerHeight, TypeInv
<1>2. CASE conns' = conns
  <2>1. TypeInv' /\ HoldInv'
    BY <1>0, <1>1, <1>2 DEF TypeInv, HoldInv
  <2>2. DataInv'
    BY <1>0, <1>1, <1>2, DataPrimed DEF DataInv
  <2> QED BY <2>1, <2>2 DEF DeliveryInv
<1>3. CASE s # 0 /\ conns' = [conns EXCEPT ![s] = r]
  <2>1. s \in Slots /\ conns[s] \in Conn /\ pipe \in Seq(PipeMessage)
    BY <1>3, OutFacts
  <2>2. m \in PipeMessage /\ ~Mpc(m)
    BY <1>1 DEF PipeMessage, Mpc
  <2>3. r \in Conn /\ r.d = conns[s].d /\ r.l = conns[s].l /\ r.pipe = Append(pipe, m)
    <3>1. Append(pipe, m) \in Seq(PipeMessage)
      BY <2>1, <2>2
    <3> HIDE DEF m, pipe
    <3> QED BY <2>1, <3>1 DEF Conn
  <2> HIDE DEF m, r
  <2>4. /\ conns' \in [Slots -> Conn] /\ conns'[s] = r
        /\ \A t \in Slots \ {s} : conns'[t] = conns[t]
    BY <1>0, <1>3, <2>1, <2>3, ConnSet
  <2>5. TypeInv'
    BY <1>0, <1>1, <2>4 DEF TypeInv
  <2>6. HoldInv'
    <3>1. incoming.slot \in Slots \cup {0}
      BY <1>0 DEF TypeInv, Versioned
    <3> QED BY <1>0, <1>1, <2>1, <2>3, <2>4, <3>1 DEF HoldInv
  <2>7. StreamsOK(sent, log, conns)
    BY <1>0 DEF DataInv
  <2>8. conns[s].l # "closed" => PipeOK(sent, log, Append(pipe, m))
    BY <2>1, <2>2, <2>7, AppendOK DEF StreamsOK
  <2>9. StreamsOK(sent', log', conns')
    <3>a. Elsewhere(s, m)
      BY <2>2 DEF Elsewhere
    <3>1. StreamsOK(sent, log, conns')
      BY <1>0, <1>3, <2>1, <2>2, <2>3, <2>7, <2>8, <3>a, AppendedStreams
    <3> QED BY <1>1, <3>1
  <2>10. OutOK(sent', log', conns', outgoing'.slot, mesh', outgoing'.version)
    <3>1. OutOK(sent, log, conns, s, mesh, outgoing.version)
      BY <1>0 DEF DataInv
    <3>2. Len(r.pipe) = Len(pipe) + 1 /\ Len(pipe) \in Nat /\ \A i \in 1..Len(pipe) : r.pipe[i] = pipe[i]
      BY <2>1, <2>2, <2>3
    <3> HIDE DEF pipe
    <3>3. \A j \in 1..Len(pipe) : j \in 1..Len(r.pipe) /\ r.pipe[j] = pipe[j]
      BY <3>2
    <3>4. \A n : Carries(pipe, Len(pipe), n) => Carries(r.pipe, Len(r.pipe), n)
      BY <3>3 DEF Carries
    <3> QED BY <1>1, <2>3, <2>4, <3>1, <3>4 DEF OutOK, pipe
  <2>11. LogOK(sent', log') /\ KeysOK(sent', mesh', outgoing'.version)
    BY <1>0, <1>1 DEF DataInv
  <2> QED BY <2>5, <2>6, <2>9, <2>10, <2>11, DataPrimed DEF DeliveryInv
<1> QED BY <1>2, <1>3 DEF SendIndexerHeight, OutgoingConnected

-----------------------------------------------------------------------------
(* Receiving. *)

(* A sequence with one more element. *)
LEMMA ToSetAppend ==
  ASSUME NEW lg \in Seq(Nat), NEW k \in Nat
  PROVE  /\ Append(lg, k) \in Seq(Nat) /\ Len(lg) \in Nat /\ Len(Append(lg, k)) = Len(lg) + 1
         /\ \A i \in 1..Len(lg) : Append(lg, k)[i] = lg[i]
         /\ Append(lg, k)[Len(lg) + 1] = k
         /\ ToSet(Append(lg, k)) = ToSet(lg) \cup {k}
<1> DEFINE t == Append(lg, k)
<1>1. /\ t \in Seq(Nat) /\ Len(lg) \in Nat /\ Len(t) = Len(lg) + 1
      /\ \A i \in 1..Len(lg) : t[i] = lg[i]
      /\ t[Len(lg) + 1] = k
  OBVIOUS
<1>2. DOMAIN t = 1..Len(lg) + 1 /\ DOMAIN lg = 1..Len(lg)
  BY <1>1
<1> HIDE DEF t
<1>3. ASSUME NEW x \in ToSet(t) PROVE x \in ToSet(lg) \cup {k}
  <2>1. PICK i \in 1..Len(lg) + 1 : x = t[i]
    BY <1>2 DEF ToSet
  <2>2. CASE i \in 1..Len(lg)
    BY <1>1, <1>2, <2>1, <2>2 DEF ToSet
  <2>3. CASE i = Len(lg) + 1
    BY <1>1, <2>1, <2>3
  <2> QED BY <1>1, <2>1, <2>2, <2>3
<1>4. ASSUME NEW x \in ToSet(lg) \cup {k} PROVE x \in ToSet(t)
  <2>1. CASE x \in ToSet(lg)
    <3>1. PICK i \in 1..Len(lg) : x = lg[i]
      BY <1>2, <2>1 DEF ToSet
    <3>2. i \in 1..Len(lg) + 1 /\ t[i] = x
      BY <1>1, <3>1
    <3> QED BY <1>2, <3>2 DEF ToSet
  <2>2. CASE x = k
    <3>1. Len(lg) + 1 \in 1..Len(lg) + 1
      BY <1>1
    <3> QED BY <1>1, <1>2, <2>2, <3>1 DEF ToSet
  <2> QED BY <1>4, <2>1, <2>2
<1> QED BY <1>1, <1>3, <1>4 DEF t

(* The log after the first message of a pipe has been received. *)
LogAfter(lg, m) == IF Mpc(m) THEN Append(lg, m.number) ELSE lg

(* What was received stays in order with the head of a stream. *)
LEMMA LogAfterOK ==
  ASSUME NEW snt \in Seq(Nat \X Nat), NEW lg, LogOK(snt, lg), NEW pipe, PipeOK(snt, lg, pipe),
         pipe # <<>>
  PROVE  LogOK(snt, LogAfter(lg, Head(pipe)))
<1> DEFINE m == Head(pipe)
           k == m.number
           t == Append(lg, k)
<1>1. pipe \in Seq(PipeMessage) /\ Len(pipe) \in Nat \ {0} /\ m = pipe[1] /\ 1 \in 1..Len(pipe)
  BY DEF PipeOK
<1>2. CASE ~Mpc(m)
  BY <1>2 DEF LogAfter
<1>3. CASE Mpc(m)
  <2>1. InOrder(snt, lg, pipe, 1)
    BY <1>1, <1>3 DEF PipeOK
  <2>2. /\ k \in 1..Len(snt) /\ k \notin ToSet(lg)
        /\ \A n \in 1..(k - 1) : snt[n] = snt[k] => n \in ToSet(lg) \/ Carries(pipe, 0, n)
    BY <1>1, <2>1, SMTT(60) DEF InOrder
  <2>3. k \in Nat /\ lg \in Seq(Nat) /\ ToSet(lg) \subseteq 1..Len(snt) /\ Len(snt) \in Nat
    BY <2>2 DEF LogOK
  <2>4. \A n : ~Carries(pipe, 0, n)
    BY DEF Carries
  <2>5. /\ t \in Seq(Nat) /\ Len(lg) \in Nat /\ Len(t) = Len(lg) + 1
        /\ \A i \in 1..Len(lg) : t[i] = lg[i]
        /\ t[Len(lg) + 1] = k
        /\ ToSet(t) = ToSet(lg) \cup {k}
    BY <2>3, ToSetAppend
  <2> HIDE DEF t, k, m
  <2>6. ASSUME NEW i \in 1..Len(t)
        PROVE  /\ \A n \in 1..(t[i] - 1) : snt[n] = snt[t[i]] => \E j \in 1..(i - 1) : t[j] = n
               /\ \A j \in 1..(i - 1) : t[j] # t[i]
    <3>1. CASE i \in 1..Len(lg)
      <4>1. /\ \A n \in 1..(lg[i] - 1) : snt[n] = snt[lg[i]] => \E j \in 1..(i - 1) : lg[j] = n
            /\ \A j \in 1..(i - 1) : lg[j] # lg[i]
        BY <3>1 DEF LogOK
      <4>2. t[i] = lg[i] /\ \A j \in 1..(i - 1) : t[j] = lg[j]
        BY <2>5, <3>1
      <4> QED BY <4>1, <4>2
    <3>2. CASE i = Len(lg) + 1
      <4>1. t[i] = k /\ i - 1 = Len(lg) /\ \A j \in 1..(i - 1) : t[j] = lg[j]
        BY <2>5, <3>2
      <4>2. \A x \in ToSet(lg) : \E j \in 1..Len(lg) : lg[j] = x
        BY <2>3 DEF ToSet
      <4>3. \A j \in 1..Len(lg) : lg[j] \in ToSet(lg)
        BY <2>3 DEF ToSet
      <4> QED BY <2>2, <2>4, <4>1, <4>2, <4>3
    <3> QED BY <2>5, <3>1, <3>2
  <2>7. LogOK(snt, t)
    BY <2>2, <2>3, <2>5, <2>6 DEF LogOK
  <2> QED BY <1>3, <2>7 DEF LogAfter, t, k, m
<1> QED BY <1>2, <1>3

(* What is left of the pipe. *)
LEMMA TailOK ==
  ASSUME NEW snt, NEW lg \in Seq(Nat), NEW pipe, PipeOK(snt, lg, pipe), pipe # <<>>
  PROVE  PipeOK(snt, LogAfter(lg, Head(pipe)), Tail(pipe))
<1> DEFINE t == Tail(pipe)
           m == Head(pipe)
           l2 == LogAfter(lg, m)
<1>1. pipe \in Seq(PipeMessage) /\ Len(pipe) \in Nat \ {0}
  BY DEF PipeOK
<1>2. /\ t \in Seq(PipeMessage) /\ Len(t) = Len(pipe) - 1
      /\ \A i \in 1..Len(pipe) - 1 : t[i] = pipe[i + 1]
      /\ m = pipe[1] /\ m \in PipeMessage
  BY <1>1
<1> HIDE DEF t, m
<1>3. \A x : x \in ToSet(l2) <=> x \in ToSet(lg) \/ (Mpc(m) /\ x = m.number)
  <2>1. CASE Mpc(m)
    <3>1. m.number \in Nat
      BY <1>2, <2>1 DEF PipeMessage, Mpc
    <3>2. ToSet(Append(lg, m.number)) = ToSet(lg) \cup {m.number}
      BY <3>1, ToSetAppend
    <3> QED BY <2>1, <3>2 DEF LogAfter
  <2>2. CASE ~Mpc(m)
    BY <2>2 DEF LogAfter
  <2> QED BY <2>1, <2>2
<1> HIDE DEF l2
<1>4. ASSUME NEW i \in 1..Len(t), Mpc(t[i]) PROVE InOrder(snt, l2, t, i)
  <2> DEFINE k == t[i].number
  <2>1. i + 1 \in 1..Len(pipe) /\ t[i] = pipe[i + 1] /\ i \in Nat /\ (i + 1) - 1 = i
    BY <1>1, <1>2
  <2>2. InOrder(snt, lg, pipe, i + 1)
    BY <1>4, <2>1 DEF PipeOK
  <2>3. /\ k \in 1..Len(snt) /\ k \notin ToSet(lg)
        /\ \A j \in 1..i : Mpc(pipe[j]) => pipe[j].number < k
        /\ \A n \in 1..(k - 1) : snt[n] = snt[k] => n \in ToSet(lg) \/ Carries(pipe, i, n)
    BY <2>1, <2>2 DEF InOrder
  <2>4. 1 \in 1..i /\ \A j \in 1..(i - 1) : j + 1 \in 1..i /\ t[j] = pipe[j + 1]
    BY <1>1, <1>2, <2>1
  <2>5. \A j \in 1..(i - 1) : Mpc(t[j]) => t[j].number < k
    BY <2>3, <2>4
  <2>6. Mpc(m) => m.number # k
    <3>1. Mpc(m) => m.number < k
      BY <1>2, <2>3, <2>4
    <3>2. Mpc(m) => m.number \in Nat
      BY <1>2 DEF PipeMessage, Mpc
    <3> QED BY <2>3, <3>1, <3>2
  <2>7. \A n : Carries(pipe, i, n) => Carries(t, i - 1, n) \/ (Mpc(m) /\ n = m.number)
    <3> SUFFICES ASSUME NEW n, NEW j \in 1..i, Mpc(pipe[j]), pipe[j].number = n
                 PROVE  Carries(t, i - 1, n) \/ (Mpc(m) /\ n = m.number)
      BY DEF Carries
    <3>1. CASE j = 1
      BY <1>2, <3>1
    <3>2. CASE j # 1
      <4>1. j - 1 \in 1..(i - 1) /\ (j - 1) + 1 = j
        BY <2>1, <3>2
      <4>2. t[j - 1] = pipe[j]
        BY <2>4, <4>1
      <4> QED BY <4>1, <4>2 DEF Carries
    <3> QED BY <3>1, <3>2
  <2> HIDE DEF k
  <2>8. k \notin ToSet(l2)
    BY <1>3, <2>3, <2>6
  <2>9. \A n \in 1..(k - 1) : snt[n] = snt[k] => n \in ToSet(l2) \/ Carries(t, i - 1, n)
    BY <1>3, <2>3, <2>7
  <2> QED BY <2>3, <2>5, <2>8, <2>9 DEF InOrder, k
<1>5. PipeOK(snt, l2, t)
  BY <1>2, <1>4 DEF PipeOK
<1> QED BY <1>5 DEF t, m, l2

(* The other pipes. *)
LEMMA OtherOK ==
  ASSUME NEW snt, NEW lg \in Seq(Nat), NEW q, PipeOK(snt, lg, q), NEW m \in PipeMessage,
         \A i \in 1..Len(q) : Mpc(m) /\ Mpc(q[i]) => m.number # q[i].number
  PROVE  PipeOK(snt, LogAfter(lg, m), q)
<1>1. CASE ~Mpc(m)
  BY <1>1 DEF LogAfter
<1>2. CASE Mpc(m)
  <2> DEFINE l2 == Append(lg, m.number)
  <2>1. m.number \in Nat
    BY <1>2 DEF PipeMessage, Mpc
  <2>2. ToSet(l2) = ToSet(lg) \cup {m.number}
    BY <2>1, ToSetAppend
  <2> HIDE DEF l2
  <2>3. ASSUME NEW i \in 1..Len(q), Mpc(q[i]) PROVE InOrder(snt, l2, q, i)
    <3>1. InOrder(snt, lg, q, i) /\ q[i].number # m.number
      BY <1>2, <2>3 DEF PipeOK
    <3> QED BY <2>2, <3>1 DEF InOrder
  <2>4. PipeOK(snt, l2, q)
    BY <2>3 DEF PipeOK
  <2> QED BY <1>2, <2>4 DEF LogAfter, l2
<1> QED BY <1>1, <1>2

(* What is left of a stream has no message of another one, nor has its head. *)
LEMMA TailDisjoint ==
  ASSUME NEW p \in Seq(PipeMessage), p # <<>>, NEW q, Disjoint(p, q), Disjoint(q, p)
  PROVE  /\ Disjoint(Tail(p), q) /\ Disjoint(q, Tail(p))
         /\ \A i \in 1..Len(q) : Mpc(Head(p)) /\ Mpc(q[i]) => Head(p).number # q[i].number
<1> DEFINE t == Tail(p)
           h == Head(p)
<1>1. /\ Len(p) \in Nat \ {0} /\ Len(t) = Len(p) - 1
      /\ \A i \in 1..Len(p) - 1 : t[i] = p[i + 1]
      /\ h = p[1] /\ 1 \in 1..Len(p)
  OBVIOUS
<1> HIDE DEF t, h
<1>2. \A i \in 1..Len(t) : i + 1 \in 1..Len(p) /\ t[i] = p[i + 1]
  BY <1>1
<1>3. Disjoint(t, q) /\ Disjoint(q, t)
  BY <1>2 DEF Disjoint
<1>4. \A i \in 1..Len(q) : Mpc(h) /\ Mpc(q[i]) => h.number # q[i].number
  BY <1>1 DEF Disjoint
<1> QED BY <1>3, <1>4 DEF t, h

(* The listener receives a message. *)
LEMMA ReceiveOK ==
  ASSUME DeliveryInv, NEW s \in Slots, Receive(s)
  PROVE  DeliveryInv'
<1> DEFINE pipe == conns[s].pipe
           m == Head(pipe)
           r == [conns[s] EXCEPT !.pipe = Tail(pipe)]
<1>0. TypeInv /\ HoldInv /\ DataInv
  BY DEF DeliveryInv
<1>1. /\ conns[s].l = "open" /\ pipe # <<>> /\ conns' = [conns EXCEPT ![s] = r]
      /\ log' = LogAfter(log, m)
      /\ UNCHANGED <<peer_version, dialer, outgoing, incoming, mesh, sent, height>>
  BY DEF Receive, LogAfter, Mpc
<1>2. conns[s] \in Conn /\ pipe \in Seq(PipeMessage)
  BY <1>0, ConnFacts
<1>3. m \in PipeMessage /\ Tail(pipe) \in Seq(PipeMessage)
  <2> HIDE DEF pipe
  <2> QED BY <1>1, <1>2
<1>4. r \in Conn /\ r.d = conns[s].d /\ r.l = "open" /\ r.pipe = Tail(pipe)
  <2> HIDE DEF pipe
  <2> QED BY <1>1, <1>2, <1>3 DEF Conn
<1>5. peer_height' \in Nat
  <2>1. peer_height \in Nat
    BY <1>0 DEF TypeInv
  <2>2. CASE m.kind = "Mpc"
    BY <2>1, <2>2 DEF Receive
  <2>3. CASE m.kind # "Mpc"
    <3>1. m.height \in Nat /\ peer_height' = SetHeight(m.height)
      BY <1>3, <2>3 DEF PipeMessage, Receive
    <3> QED BY <2>1, <3>1 DEF SetHeight
  <2> QED BY <2>2, <2>3
<1> HIDE DEF r, m
<1>6. /\ conns' \in [Slots -> Conn] /\ conns'[s] = r
      /\ \A t \in Slots \ {s} : conns'[t] = conns[t]
  BY <1>0, <1>1, <1>4, ConnSet
<1>7. TypeInv'
  BY <1>0, <1>1, <1>5, <1>6 DEF TypeInv
<1>8. HoldInv'
  <2>1. incoming.slot \in Slots \cup {0}
    BY <1>0 DEF TypeInv, Versioned
  <2> QED BY <1>0, <1>1, <1>4, <1>6, <2>1 DEF HoldInv
<1>9. StreamsOK(sent, log, conns) /\ LogOK(sent, log) /\ log \in Seq(Nat)
      /\ sent \in Seq(Nat \X Nat) /\ PipeOK(sent, log, pipe)
  BY <1>0, <1>1 DEF DataInv, LogOK, TypeInv, StreamsOK
<1>10. LogOK(sent', log')
  <2> HIDE DEF pipe
  <2> QED BY <1>1, <1>9, LogAfterOK DEF m
<1>11. PipeOK(sent, log', r.pipe)
  <2> HIDE DEF pipe
  <2> QED BY <1>1, <1>4, <1>9, TailOK DEF m
<1>12. ASSUME NEW t \in Slots \ {s}, conns[t].l # "closed"
       PROVE  /\ PipeOK(sent, log', conns[t].pipe)
              /\ Disjoint(r.pipe, conns[t].pipe) /\ Disjoint(conns[t].pipe, r.pipe)
  <2> DEFINE q == conns[t].pipe
  <2>1. Disjoint(pipe, q) /\ Disjoint(q, pipe) /\ PipeOK(sent, log, q)
    BY <1>1, <1>9, <1>12 DEF StreamsOK
  <2> HIDE DEF q, pipe
  <2>2. /\ Disjoint(Tail(pipe), q) /\ Disjoint(q, Tail(pipe))
        /\ \A i \in 1..Len(q) : Mpc(m) /\ Mpc(q[i]) => m.number # q[i].number
    BY <1>1, <1>2, <2>1, TailDisjoint DEF m
  <2>3. PipeOK(sent, LogAfter(log, m), q)
    BY <1>3, <1>9, <2>1, <2>2, OtherOK
  <2> QED BY <1>1, <1>4, <2>2, <2>3 DEF q
<1>13. StreamsOK(sent', log', conns')
  <2>1. ASSUME NEW t \in Slots, conns'[t].l # "closed" PROVE PipeOK(sent', log', conns'[t].pipe)
    BY <1>1, <1>6, <1>11, <1>12, <2>1
  <2>2. ASSUME NEW t \in Slots, NEW u \in Slots, t # u, conns'[t].l # "closed",
               conns'[u].l # "closed"
        PROVE  Disjoint(conns'[t].pipe, conns'[u].pipe)
    <3>1. CASE t = s
      BY <1>6, <1>12, <2>2, <3>1
    <3>2. CASE u = s
      BY <1>6, <1>12, <2>2, <3>2
    <3>3. CASE t # s /\ u # s
      BY <1>6, <1>9, <2>2, <3>3 DEF StreamsOK
    <3> QED BY <3>1, <3>2, <3>3
  <2> QED BY <2>1, <2>2 DEF StreamsOK
<1>14. OutOK(sent', log', conns', outgoing'.slot, mesh', outgoing'.version)
  <2> DEFINE o == outgoing.slot
  <2>1. OutOK(sent, log, conns, o, mesh, outgoing.version)
    BY <1>0 DEF DataInv
  <2>2. \A x : x \in ToSet(log') <=> x \in ToSet(log) \/ (Mpc(m) /\ x = m.number)
    <3>1. CASE Mpc(m)
      <4>1. m.number \in Nat
        BY <1>3, <3>1 DEF PipeMessage, Mpc
      <4>2. ToSet(Append(log, m.number)) = ToSet(log) \cup {m.number}
        BY <1>9, <4>1, ToSetAppend
      <4> QED BY <1>1, <3>1, <4>2 DEF LogAfter
    <3>2. CASE ~Mpc(m)
      BY <1>1, <3>2 DEF LogAfter
    <3> QED BY <3>1, <3>2
  <2>3. CASE o = s
    <3>1. ASSUME NEW n, Carries(pipe, Len(pipe), n)
          PROVE  Carries(r.pipe, Len(r.pipe), n) \/ (Mpc(m) /\ n = m.number)
      <4>1. PICK j \in 1..Len(pipe) : Mpc(pipe[j]) /\ pipe[j].number = n
        BY <3>1 DEF Carries
      <4>2. /\ Len(pipe) \in Nat \ {0} /\ Len(r.pipe) = Len(pipe) - 1 /\ m = pipe[1]
            /\ \A i \in 1..Len(pipe) - 1 : r.pipe[i] = pipe[i + 1]
        <5> HIDE DEF pipe
        <5> QED BY <1>1, <1>2, <1>4 DEF m
      <4> HIDE DEF pipe
      <4>3. CASE j = 1
        BY <4>1, <4>2, <4>3
      <4>4. CASE j # 1
        <5>1. j - 1 \in 1..Len(pipe) - 1 /\ (j - 1) + 1 = j
          BY <4>2, <4>4
        <5>2. r.pipe[j - 1] = pipe[j] /\ j - 1 \in 1..Len(r.pipe)
          BY <4>2, <5>1
        <5> QED BY <4>1, <5>2 DEF Carries
      <4> QED BY <4>3, <4>4
    <3>2. ASSUME conns'[o].d = "open", o # 0, NEW n \in 1..Len(sent),
                 sent[n] = <<mesh, outgoing.version>>
          PROVE  n \in ToSet(log') \/ Carries(conns'[o].pipe, Len(conns'[o].pipe), n)
      <4>1. n \in ToSet(log) \/ Carries(pipe, Len(pipe), n)
        BY <1>1, <1>4, <1>6, <2>1, <2>3, <3>2 DEF OutOK
      <4> QED BY <1>6, <2>2, <2>3, <3>1, <4>1
    <3> QED BY <1>1, <3>2 DEF OutOK
  <2>4. CASE o # s
    <3>1. o \in Slots \cup {0}
      BY <1>0 DEF TypeInv, Versioned
    <3>2. o # 0 => conns'[o] = conns[o]
      BY <1>6, <2>4, <3>1
    <3> QED BY <1>1, <2>1, <2>2, <3>2 DEF OutOK
  <2> QED BY <2>3, <2>4
<1>15. KeysOK(sent', mesh', outgoing'.version)
  BY <1>0, <1>1 DEF DataInv
<1> QED BY <1>7, <1>8, <1>10, <1>13, <1>14, <1>15, DataPrimed DEF DeliveryInv

-----------------------------------------------------------------------------
(* The theorem. *)

(* The invariant holds at the start. *)
LEMMA InitOK == Init => DeliveryInv
<1> SUFFICES ASSUME Init PROVE DeliveryInv
  OBVIOUS
<1> USE DEF Init
<1>1. CidModulus \in Nat \ {0, 1} /\ 0 \in 0..(CidModulus - 1)
  BY ConnectivityAssumption
<1>2. Free \in Conn /\ Free.d = "closed" /\ Free.l = "closed"
  BY <1>1 DEF Free, Conn, Side
<1>3. conns \in [Slots -> Conn] /\ \A s \in Slots : conns[s].d = "closed" /\ conns[s].l = "closed"
  BY <1>2
<1>4. TypeInv
  BY <1>1, <1>3, ConnectivityAssumption DEF TypeInv, Dialer, Versioned
<1>5. HoldInv
  BY <1>3 DEF HoldInv
<1>6. DataInv
  <2>1. StreamsOK(sent, log, conns)
    BY <1>3 DEF StreamsOK
  <2>2. LogOK(sent, log)
    BY DEF LogOK, ToSet
  <2>3. KeysOK(sent, mesh, outgoing.version)
    BY DEF KeysOK
  <2>4. OutOK(sent, log, conns, outgoing.slot, mesh, outgoing.version)
    BY DEF OutOK
  <2> QED BY <2>1, <2>2, <2>3, <2>4 DEF DataInv
<1> QED BY <1>4, <1>5, <1>6 DEF DeliveryInv

(* And when nothing changes. *)
LEMMA UnchangedOK ==
  ASSUME DeliveryInv, UNCHANGED vars
  PROVE  DeliveryInv'
<1>0. TypeInv /\ HoldInv /\ DataInv
  BY DEF DeliveryInv
<1>1. TypeInv' /\ HoldInv'
  BY <1>0 DEF TypeInv, HoldInv, vars
<1>2. DataInv'
  BY <1>0, DataPrimed DEF DataInv, vars
<1> QED BY <1>1, <1>2 DEF DeliveryInv

(* Every step preserves the invariant. *)
LEMMA NextOK == DeliveryInv /\ [Next]_vars => DeliveryInv'
<1> SUFFICES ASSUME DeliveryInv, [Next]_vars PROVE DeliveryInv'
  OBVIOUS
<1>1. CASE Dial \/ DialerHandshake \/ DialerHandshakeTimeout
  BY <1>1, DialOK, DialerHandshakeOK, DialerHandshakeTimeoutOK
<1>2. ASSUME NEW s \in Slots,
             \/ ListenerHandshake(s) \/ ListenerHandshakeTimeout(s) \/ Receive(s)
             \/ Cut(s) \/ HandlerEnds(s)
      PROVE  DeliveryInv'
  BY <1>2, ListenerHandshakeOK, ListenerHandshakeTimeoutOK, ReceiveOK, CutOK, HandlerEndsOK
<1>3. ASSUME NEW version \in 1..(MaxFaults + 2), Send(version) PROVE DeliveryInv'
  <2>1. version \in Nat
    BY ConnectivityAssumption
  <2> QED BY <1>3, <2>1, SendOK
<1>4. CASE SendIndexerHeight \/ SenderTaskEnds \/ WriteTimeout \/ ConnectionClosed
  BY <1>4, SendIndexerHeightOK, SenderTaskEndsOK, WriteTimeoutOK, ConnectionClosedOK
<1>5. CASE DialerRestart \/ ListenerRestart
  BY <1>5, DialerRestartOK, ListenerRestartOK
<1>6. CASE UNCHANGED vars
  BY <1>6, UnchangedOK
<1> QED BY <1>1, <1>2, <1>3, <1>4, <1>5, <1>6 DEF Next

(* The invariant contains what is claimed of deliveries. *)
LEMMA DeliveryInvSound == DeliveryInv => DeliverySound
<1> SUFFICES ASSUME DeliveryInv PROVE DeliverySound
  OBVIOUS
<1>0. TypeInv /\ HoldInv /\ LogOK(sent, log)
  BY DEF DeliveryInv, DataInv
<1>1. TypeOK
  <2>1. \A s \in Slots : conns[s].d \in Side /\ conns[s].l \in Side
                         /\ conns[s].cid \in 0..(CidModulus - 1)
    BY <1>0, ConnFacts
  <2>2. dialer.pc \in {"dial", "handshake", "connected"} /\ outgoing.slot \in Slots \cup {0}
        /\ incoming.slot \in Slots \cup {0}
    BY <1>0 DEF TypeInv, Dialer, Versioned
  <2> QED BY <1>0, <2>1, <2>2 DEF TypeOK, HoldInv, Side
<1>2. PrefixDelivered
  BY <1>0 DEF PrefixDelivered, LogOK
<1> QED BY <1>1, <1>2 DEF DeliverySound

(* The invariant always holds. *)
LEMMA DeliveryInvAlways == Spec => []DeliveryInv
BY InitOK, NextOK, PTL DEF Spec

(* What the comment of send promises, for any number of broken connections, timeouts and
   restarts of either node: of the messages that send accepted under one connection version
   the other node receives a prefix, in their order and each once, although handlers of
   several connections forward messages at the same time. *)
THEOREM DeliverySoundAlways == Spec => []DeliverySound
BY DeliveryInvAlways, DeliveryInvSound, PTL

-----------------------------------------------------------------------------
(* The listener never goes back. *)

(* The counter of attempts has not reached its last value. *)
NoWrap == dialer.attempt < CidModulus - 1

(* No handshake of this mesh has a later id than the attempt under way, which the
   connection of the dialer has, and old dialers' connections all have id 1. *)
IdInv ==
  /\ \A s \in Slots : conns[s].mesh <= mesh
  /\ \A s \in Slots : conns[s].l = "handshake" /\ conns[s].mesh = mesh
                        => conns[s].cid <= dialer.attempt
  /\ dialer.pc # "dial" /\ conns[dialer.slot].l = "handshake"
       => conns[dialer.slot].cid = dialer.attempt
  /\ dialer.pc # "dial" /\ conns[dialer.slot].l = "open" /\ peer_version = "Jan2026"
       => conns[dialer.slot].cid = dialer.attempt
  /\ \A s \in Slots : conns[s].l = "open" /\ peer_version = "Dec2025" => conns[s].cid = 1

(* One connection keeps its id, and its listener's side or closes that. *)
LEMMA IdKept ==
  ASSUME DeliveryInv, IdInv, NEW s \in Slots, NEW r \in Conn, conns' = [conns EXCEPT ![s] = r],
         r.cid = conns[s].cid, r.mesh = conns[s].mesh, r.l = conns[s].l \/ r.l = "closed",
         dialer'.pc = "dial" \/ (dialer.pc # "dial" /\ dialer'.slot = dialer.slot),
         dialer'.attempt = dialer.attempt, peer_version' = peer_version, mesh' = mesh
  PROVE  IdInv'
<1>0. TypeInv /\ HoldInv
  BY DEF DeliveryInv
<1>1. conns'[s] = r /\ \A t \in Slots \ {s} : conns'[t] = conns[t]
  BY <1>0, ConnSet
<1>2. \A t \in Slots : /\ conns'[t].cid = conns[t].cid /\ conns'[t].mesh = conns[t].mesh
                       /\ conns'[t].l = conns[t].l \/ conns'[t].l = "closed"
  BY <1>1
<1>3. dialer'.pc # "dial" => dialer'.slot \in Slots /\ dialer'.slot = dialer.slot /\ dialer.pc # "dial"
  BY <1>0 DEF HoldInv
<1> QED BY <1>2, <1>3 DEF IdInv

(* A step that leaves the connections alone and the dialer where it is. *)
LEMMA IdSame ==
  ASSUME IdInv, UNCHANGED <<peer_version, dialer, mesh>>, DeliveryInv,
         \A t \in Slots : conns'[t].cid = conns[t].cid /\ conns'[t].mesh = conns[t].mesh
                          /\ (conns'[t].l = conns[t].l \/ conns'[t].l = "closed")
  PROVE  IdInv'
<1>1. dialer.pc # "dial" => dialer.slot \in Slots
  BY DEF DeliveryInv, HoldInv
<1> QED BY <1>1 DEF IdInv

(* The part about ids is preserved as long as ids do not wrap around. *)
LEMMA IdNext ==
  ASSUME DeliveryInv, IdInv, NoWrap, [Next]_vars
  PROVE  IdInv'
<1>0. TypeInv /\ HoldInv /\ conns \in [Slots -> Conn] /\ dialer \in Dialer
  BY DEF DeliveryInv, TypeInv
<1>a. dialer.attempt \in 0..(CidModulus - 1) /\ CidModulus \in Nat \ {0, 1}
  BY <1>0, ConnectivityAssumption DEF Dialer
<1>b. \A s \in Slots : conns[s] \in Conn
  BY <1>0, ConnFacts
<1>1. CASE Dial
  <2>1. PICK s \in Slots :
          /\ conns' = [conns EXCEPT ![s] = [Free EXCEPT !.d = "handshake", !.l = "handshake",
                                            !.cid = dialer.attempt, !.min = MinExpected,
                                            !.mesh = mesh]]
          /\ dialer' = [dialer EXCEPT !.pc = "handshake", !.slot = s]
    BY <1>1 DEF Dial
  <2> DEFINE r == [Free EXCEPT !.d = "handshake", !.l = "handshake",
                               !.cid = dialer.attempt, !.min = MinExpected, !.mesh = mesh]
  <2>2. r.l = "handshake" /\ r.cid = dialer.attempt /\ r.mesh = mesh
    BY DEF Free
  <2>3. conns' = [conns EXCEPT ![s] = r]
    BY <2>1
  <2> HIDE DEF r
  <2>4. conns'[s] = r /\ \A t \in Slots \ {s} : conns'[t] = conns[t]
    BY <1>0, <2>3
  <2>5. dialer'.slot = s /\ dialer'.attempt = dialer.attempt /\ dialer'.pc = "handshake"
    BY <1>0, <2>1 DEF Dialer
  <2>6. peer_version' = peer_version /\ mesh' = mesh
    BY <1>1 DEF Dial
  <2>7. dialer.attempt <= dialer.attempt /\ mesh <= mesh
    BY <1>0, <1>a DEF TypeInv
  <2> QED BY <2>2, <2>4, <2>5, <2>6, <2>7 DEF IdInv
<1>2. CASE DialerHandshake \/ DialerHandshakeTimeout
  <2> DEFINE s == dialer.slot
  <2>1. dialer.pc = "handshake" /\ s \in Slots /\ UNCHANGED <<peer_version, mesh>>
    BY <1>0, <1>2 DEF DialerHandshake, DialerHandshakeTimeout, HoldInv
  <2>2. \/ conns' = [conns EXCEPT ![s] = [conns[s] EXCEPT !.d = "open"]]
        \/ conns' = [conns EXCEPT ![s] = [conns[s] EXCEPT !.d = "closed"]]
    BY <1>2 DEF DialerHandshake, DialerHandshakeTimeout
  <2>3. /\ dialer'.pc = "dial" \/ dialer'.slot = dialer.slot
        /\ dialer'.attempt = dialer.attempt
    BY <1>0, <1>2 DEF DialerHandshake, DialerHandshakeTimeout, Dialer
  <2>4. \A x \in {"open", "closed"} :
          LET r == [conns[s] EXCEPT !.d = x] IN
          /\ r \in Conn /\ r.cid = conns[s].cid /\ r.l = conns[s].l
          /\ r.mesh = conns[s].mesh
    BY <1>b, <2>1 DEF Conn, Side
  <2>5. PICK r \in Conn : /\ conns' = [conns EXCEPT ![s] = r]
                          /\ r.cid = conns[s].cid /\ r.l = conns[s].l
                          /\ r.mesh = conns[s].mesh
    BY <2>2, <2>4
  <2>6. dialer'.pc = "dial" \/ (dialer.pc # "dial" /\ dialer'.slot = dialer.slot)
    BY <2>1, <2>3
  <2> QED BY <2>1, <2>3, <2>5, <2>6, IdKept
<1>3. ASSUME NEW s \in Slots, ListenerHandshake(s) PROVE IdInv'
  <2> DEFINE id == SenderConnectionId(conns[s])
  <2>1. conns[s].l = "handshake" /\ UNCHANGED <<peer_version, dialer, mesh>>
    BY <1>3 DEF ListenerHandshake
  <2>2. CASE /\ ListenerAccepts(conns[s])
             /\ conns' = [conns EXCEPT ![s].l = "open", ![s].cid = id]
    <3> DEFINE r == [conns[s] EXCEPT !.l = "open", !.cid = id]
    <3>1. conns' = [conns EXCEPT ![s] = r]
      BY <1>0, <1>b, <2>2
    <3>2. r.l = "open" /\ r.cid = id /\ r.mesh = conns[s].mesh
      BY <1>b DEF Conn
    <3>3. /\ peer_version = "Jan2026" => id = conns[s].cid
          /\ peer_version = "Dec2025" => id = 1
      BY DEF SenderConnectionId
    <3> HIDE DEF r, id
    <3>4. conns'[s] = r /\ \A t \in Slots \ {s} : conns'[t] = conns[t]
      BY <1>0, <3>1
    <3>5. dialer.pc # "dial" => dialer.slot \in Slots
      BY <1>0 DEF HoldInv
    <3> QED BY <2>1, <3>2, <3>3, <3>4, <3>5 DEF IdInv
  <2>3. CASE conns' = [conns EXCEPT ![s].l = "closed"]
    <3>1. \A t \in Slots : conns'[t].cid = conns[t].cid /\ conns'[t].mesh = conns[t].mesh
                           /\ (conns'[t].l = conns[t].l \/ conns'[t].l = "closed")
      BY <1>0, <1>b, <2>3 DEF Conn
    <3> QED BY <2>1, <3>1, IdSame
  <2> QED BY <1>3, <2>2, <2>3 DEF ListenerHandshake
<1>4. ASSUME NEW s \in Slots,
             ListenerHandshakeTimeout(s) \/ Receive(s) \/ Cut(s) \/ HandlerEnds(s)
      PROVE  IdInv'
  <2>1. UNCHANGED <<peer_version, dialer, mesh>>
    BY <1>4 DEF ListenerHandshakeTimeout, Receive, Cut, HandlerEnds
  <2>2. \A t \in Slots : conns'[t].cid = conns[t].cid /\ conns'[t].mesh = conns[t].mesh
                         /\ (conns'[t].l = conns[t].l \/ conns'[t].l = "closed")
    <3>1. CASE ListenerHandshakeTimeout(s)
      BY <1>0, <1>b, <3>1 DEF Conn, ListenerHandshakeTimeout
    <3>2. CASE Receive(s)
      <4>1. conns' = [conns EXCEPT ![s].pipe = Tail(@)]
        BY <3>2 DEF Receive
      <4> QED BY <1>0, <1>b, <4>1 DEF Conn
    <3>3. CASE Cut(s)
      BY <1>0, <1>b, <3>3 DEF Conn, Cut
    <3>4. CASE HandlerEnds(s)
      <4>1. conns' = [conns EXCEPT ![s].l = "closed", ![s].pipe = <<>>]
        BY <3>4 DEF HandlerEnds
      <4> QED BY <1>0, <1>b, <4>1 DEF Conn
    <3> QED BY <1>4, <3>1, <3>2, <3>3, <3>4
  <2> QED BY <2>1, <2>2, IdSame
<1>5. ASSUME NEW version, Send(version) PROVE IdInv'
  <2>1. UNCHANGED <<peer_version, dialer, mesh>>
    BY <1>5 DEF Send
  <2>2. \A t \in Slots : conns'[t].cid = conns[t].cid /\ conns'[t].l = conns[t].l
                         /\ conns'[t].mesh = conns[t].mesh
    BY <1>0, <1>5, <1>b DEF Conn, Send
  <2> QED BY <2>1, <2>2, IdSame
<1>6. CASE SendIndexerHeight
  <2>1. UNCHANGED <<peer_version, dialer, mesh>>
    BY <1>6 DEF SendIndexerHeight
  <2>2. \A t \in Slots : conns'[t].cid = conns[t].cid /\ conns'[t].l = conns[t].l
                         /\ conns'[t].mesh = conns[t].mesh
    BY <1>0, <1>6, <1>b DEF Conn, SendIndexerHeight
  <2> QED BY <2>1, <2>2, IdSame
<1>7. CASE SenderTaskEnds \/ WriteTimeout
  <2>1. UNCHANGED <<peer_version, dialer, mesh>>
    BY <1>7 DEF SenderTaskEnds, WriteTimeout
  <2>2. PICK i : conns' = [conns EXCEPT ![dialer.slot].d = "closed",
                                        ![dialer.slot].pipe = SubSeq(@, 1, i)]
    BY <1>7 DEF SenderTaskEnds, WriteTimeout
  <2>3. \A t \in Slots : conns'[t].cid = conns[t].cid /\ conns'[t].l = conns[t].l
                         /\ conns'[t].mesh = conns[t].mesh
    BY <1>0, <1>b, <2>2 DEF Conn
  <2> QED BY <2>1, <2>3, IdSame
<1>8. CASE ConnectionClosed
  <2>1. WrappingAdd(dialer.attempt) = dialer.attempt + 1
    BY <1>a DEF NoWrap, WrappingAdd
  <2>2. dialer'.pc = "dial" /\ dialer'.attempt = dialer.attempt + 1
        /\ UNCHANGED <<conns, peer_version, mesh>>
    BY <1>8, <2>1 DEF ConnectionClosed
  <2>3. ASSUME NEW s \in Slots, conns[s].l = "handshake", conns[s].mesh = mesh
        PROVE  conns[s].cid <= dialer.attempt + 1
    <3>1. conns[s].cid \in 0..(CidModulus - 1) /\ conns[s].cid <= dialer.attempt
      BY <1>0, <2>3, ConnFacts DEF IdInv
    <3> QED BY <1>a, <3>1
  <2> QED BY <2>2, <2>3 DEF IdInv
<1>9. CASE DialerRestart
  <2>1. /\ dialer'.pc = "dial" /\ peer_version' = peer_version /\ mesh' = mesh + 1
        /\ conns' = [s \in Slots |-> [conns[s] EXCEPT !.d = "closed"]]
    BY <1>9 DEF DialerRestart
  <2>2. \A s \in Slots : /\ conns'[s].l = conns[s].l /\ conns'[s].cid = conns[s].cid
                         /\ conns'[s].mesh = conns[s].mesh
    BY <1>b, <2>1 DEF Conn
  <2>3. \A s \in Slots : conns[s].mesh \in Nat /\ conns[s].mesh <= mesh /\ mesh \in Nat
    BY <1>0, <1>b DEF Conn, IdInv, TypeInv
  <2>4. \A s \in Slots : conns'[s].mesh <= mesh' /\ conns'[s].mesh # mesh'
    BY <2>1, <2>2, <2>3
  <2> QED BY <2>1, <2>2, <2>4 DEF IdInv
<1>10. CASE ListenerRestart
  <2>1. UNCHANGED <<peer_version, dialer, mesh>>
        /\ conns' = [s \in Slots |-> [conns[s] EXCEPT !.l = "closed", !.pipe = <<>>]]
    BY <1>10 DEF ListenerRestart
  <2>2. \A t \in Slots : /\ conns'[t].cid = conns[t].cid /\ conns'[t].l = "closed"
                         /\ conns'[t].mesh = conns[t].mesh
    BY <1>b, <2>1 DEF Conn
  <2> QED BY <2>1, <2>2, IdSame
<1>11. CASE UNCHANGED vars
  BY <1>11 DEF vars, IdInv
<1> QED BY <1>1, <1>2, <1>3, <1>4, <1>5, <1>6, <1>7, <1>8, <1>9, <1>10, <1>11 DEF Next

(* It holds at the start. *)
LEMMA IdInit == Init => IdInv
<1> SUFFICES ASSUME Init PROVE IdInv
  OBVIOUS
<1>1. dialer.pc = "dial" /\ mesh = 0 /\ \A s \in Slots : conns[s].l = "closed" /\ conns[s].mesh = 0
  BY DEF Init, Free
<1> QED BY <1>1 DEF IdInv

(* A listener replaces only a connection that its dialer has abandoned. *)
LEMMA Replaces ==
  ASSUME DeliveryInv, IdInv, [Next]_vars
  PROVE  ReplacesAbandonedStep
<1>0. TypeInv /\ HoldInv
  BY DEF DeliveryInv
<1> SUFFICES ASSUME incoming'.slot # incoming.slot, incoming'.slot # 0, IncomingConnected,
                    conns[incoming.slot].d = "open", ~(conns[incoming'.slot].mesh < mesh)
             PROVE  FALSE
  BY DEF ReplacesAbandonedStep
<1>1. PICK s \in Slots : ListenerHandshake(s)
  <2>1. \/ \E s \in Slots : ListenerHandshake(s)
        \/ incoming' = incoming \/ incoming'.slot = 0
    <3>1. CASE \E s \in Slots : HandlerEnds(s)
      <4>1. incoming' = incoming \/ incoming' = [incoming EXCEPT !.slot = 0]
        BY <3>1 DEF HandlerEnds
      <4>2. incoming \in Versioned
        BY <1>0 DEF TypeInv
      <4> QED BY <4>1, <4>2 DEF Versioned
    <3>2. CASE ListenerRestart
      BY <3>2 DEF ListenerRestart
    <3>3. \/ \E s \in Slots : ListenerHandshake(s) \/ HandlerEnds(s)
          \/ ListenerRestart \/ incoming' = incoming
      BY DEF Next, vars, Dial, DialerHandshake, DialerHandshakeTimeout, ListenerHandshakeTimeout,
             Receive, Cut, Send, SendIndexerHeight, SenderTaskEnds, WriteTimeout,
             ConnectionClosed, DialerRestart
    <3> QED BY <3>1, <3>2, <3>3
  <2> QED BY <2>1
<1> DEFINE id == SenderConnectionId(conns[s])
           i == incoming.slot
<1>2. ListenerAccepts(conns[s]) /\ MayReplace(id) /\ conns[s].l = "handshake"
  BY <1>1 DEF ListenerHandshake
<1>3. i \in Slots /\ conns[i].l = "open"
  BY <1>0 DEF TypeInv, Versioned, HoldInv, IncomingConnected
<1>4. dialer.pc = "connected" /\ dialer.slot = i
  BY <1>0, <1>3 DEF HoldInv
<1>5. conns[i].cid < id
  BY <1>2 DEF MayReplace
<1>6. CASE peer_version = "Jan2026"
  <2>m. conns[s].mesh = mesh
    <3>1. incoming'.slot = s BY <1>1, <1>2 DEF ListenerHandshake
    <3>2. conns[s].mesh \in Nat /\ mesh \in Nat /\ conns[s].mesh <= mesh
      BY <1>0, ConnFacts DEF Conn, TypeInv, IdInv
    <3> QED BY <3>1, <3>2
  <2>1. id = conns[s].cid /\ conns[s].cid <= dialer.attempt /\ conns[i].cid = dialer.attempt
    BY <2>m, <1>2, <1>3, <1>4, <1>6 DEF SenderConnectionId, IdInv
  <2>2. conns[i].cid \in 0..(CidModulus - 1) /\ conns[s].cid \in 0..(CidModulus - 1)
    BY <1>0, <1>3, ConnFacts
  <2> HIDE DEF id
  <2> QED BY <1>5, <2>1, <2>2, ConnectivityAssumption
<1>7. CASE peer_version = "Dec2025"
  <2>1. id = 1 /\ conns[i].cid = 1
    BY <1>3, <1>7 DEF SenderConnectionId, IdInv
  <2> HIDE DEF id
  <2> QED BY <1>5, <2>1
<1> QED BY <1>2, <1>6, <1>7 DEF ListenerAccepts

(* The height of a peer does not go back, except when the listener starts anew. *)
LEMMA HeightsGrow ==
  ASSUME DeliveryInv, [Next]_vars
  PROVE  HeightMonotoneStep
<1>0. TypeInv /\ peer_height \in Nat
  BY DEF DeliveryInv, TypeInv
<1>1. ASSUME NEW s \in Slots, Receive(s) PROVE HeightMonotoneStep
  <2> DEFINE m == Head(conns[s].pipe)
  <2>1. m \in PipeMessage
    <3>1. conns[s].pipe \in Seq(PipeMessage) /\ conns[s].pipe # <<>>
      BY <1>0, <1>1, ConnFacts DEF Receive
    <3> QED BY <3>1
  <2>2. \/ peer_height' = peer_height
        \/ m.kind # "Mpc" /\ peer_height' = SetHeight(m.height)
    BY <1>1 DEF Receive
  <2>3. m.kind # "Mpc" => m.height \in Nat
    BY <2>1 DEF PipeMessage
  <2> HIDE DEF m
  <2>4. ~(peer_height' < peer_height)
    BY <1>0, <2>2, <2>3 DEF SetHeight
  <2> QED BY <2>4 DEF HeightMonotoneStep
<1>2. CASE ListenerRestart
  BY <1>2 DEF ListenerRestart, HeightMonotoneStep
<1>3. CASE peer_height' = peer_height
  BY <1>0, <1>3 DEF HeightMonotoneStep
<1>4. \/ \E s \in Slots : Receive(s)
      \/ ListenerRestart \/ peer_height' = peer_height
  BY DEF Next, vars, Dial, DialerHandshake, DialerHandshakeTimeout, ListenerHandshake,
         ListenerHandshakeTimeout, Cut, HandlerEnds, Send, SendIndexerHeight, SenderTaskEnds,
         WriteTimeout, ConnectionClosed, DialerRestart
<1> QED BY <1>1, <1>2, <1>3, <1>4

(* As long as the counter of connection attempts does not wrap, the listener replaces a live
   incoming connection only after the dialer has given it up, or by a connection left over
   from the mesh before a restart of the dialer; and the peer's height it shows never goes
   back without a restart of its own. *)
THEOREM ListenerStepsAlways == Spec /\ []NoWrap => ListenerSteps
<1>1. DeliveryInv /\ IdInv /\ NoWrap /\ [Next]_vars => IdInv'
  BY IdNext
<1>2. DeliveryInv /\ IdInv /\ [Next]_vars => [ReplacesAbandonedStep]_vars
  BY Replaces
<1>3. DeliveryInv /\ [Next]_vars => [HeightMonotoneStep]_vars
  BY HeightsGrow
<1>4. Spec /\ []NoWrap => []IdInv
  BY <1>1, IdInit, DeliveryInvAlways, PTL DEF Spec
<1> QED BY <1>2, <1>3, <1>4, DeliveryInvAlways, PTL
     DEF Spec, ListenerSteps, ReplacesAbandoned, HeightMonotone

(***************************************************************************)
(*                            Part 2: NodeKeys.                            *)
(***************************************************************************)

(***************************************************************************)
(* The inductive invariant.                                                *)
(***************************************************************************)
IdType == [epoch_id : Int, domain_id : Nat, attempt_id : Nat]
KeyType == [domain_id : Nat, attempt : Nat, key : Nat, instance : Nat]
KeysetType == [epoch_id : Int, keys : Seq(KeyType)]
ShareType == [key_id : IdType, public_key : Nat, instance : Nat]
DataType == [epoch_id : Int, keyshares : Seq(ShareType)]
StateType ==
  [phase : {"Running", "Initializing", "Resharing"}, keyset : KeysetType,
   completed : Seq(KeyType), id : IdType, started : BOOLEAN, member : BOOLEAN,
   joins : BOOLEAN, migrating : BOOLEAN]
JobType ==
  [kind : {"None", "Onboarding", "Running", "Initializing", "Resharing"}, epoch_id : Int,
   keyset : KeysetType, status : {"new", "ready", "serving", "concluded", "failed", "halted"},
   member : BOOLEAN]
TaskType == [id : IdType, instance : Nat, pc : {"waiting", "running", "created", "committed"}]
ChannelType == [kind : {"Initializing", "Resharing"}, id : IdType, instance : Nat]
StoringType == [pc : {"idle", "created", "written", "removed", "linked"}, data : DataType]

\* The domains of a keyset ascend.
Ascends(keys) == \A i, j \in DOMAIN keys : i < j => keys[i].domain_id < keys[j].domain_id

\* The key b carries on the key a.
SameKey(a, b) == a.domain_id = b.domain_id /\ a.key = b.key

\* A contract state that can occur.
Shape(c) ==
  /\ c.keyset.epoch_id \in Nat
  /\ Ascends(c.keyset.keys)
  /\ c.phase = "Running" => ~c.started
  /\ c.phase = "Initializing" =>
       /\ c.id.epoch_id = c.keyset.epoch_id /\ c.completed = c.keyset.keys
       /\ \A i \in DOMAIN c.keyset.keys : c.keyset.keys[i].domain_id < c.id.domain_id
  /\ c.phase = "Resharing" =>
       /\ c.keyset.epoch_id < c.id.epoch_id
       /\ Len(c.completed) < Len(c.keyset.keys)
       /\ c.id.domain_id = c.keyset.keys[Len(c.completed) + 1].domain_id
       /\ \A i \in DOMAIN c.completed : SameKey(c.completed[i], c.keyset.keys[i])
  /\ c.migrating => ~c.member /\ ~c.joins

\* The domains of the state are below n.
Below(c, n) ==
  /\ \A i \in DOMAIN c.keyset.keys : c.keyset.keys[i].domain_id < n
  /\ c.phase = "Initializing" => c.id.domain_id < n

\* The contract counts on the node's shares, or will when it has migrated.
Counted(c) == c.member \/ c.migrating

\* The keyset b has come from a.
Grown(a, b) ==
  /\ a.epoch_id <= b.epoch_id
  /\ Len(a.keys) <= Len(b.keys)
  /\ \A i \in DOMAIN a.keys : /\ SameKey(a.keys[i], b.keys[i])
                              /\ a.epoch_id = b.epoch_id => a.keys[i] = b.keys[i]

\* Stored shares are of keys of the keyset, which may be newer.
StoredOf(data, ks) ==
  /\ data.epoch_id <= ks.epoch_id
  /\ Len(data.keyshares) <= Len(ks.keys)
  /\ \A i \in DOMAIN data.keyshares :
       /\ data.keyshares[i].key_id.domain_id = ks.keys[i].domain_id
       /\ data.keyshares[i].public_key = ks.keys[i].key

\* Stored shares of the epoch are those of the certified runs.
Certified(data, ks) ==
  data.epoch_id = ks.epoch_id =>
    \A i \in DOMAIN data.keyshares : data.keyshares[i] = BackupShare(ks.epoch_id, ks.keys[i])

\* A share under the id of a key of the keyset is one of that key.
Fits(s, ks) ==
  \A i \in DOMAIN ks.keys :
    s.key_id = IdOf(ks.epoch_id, ks.keys[i]) => s.public_key = ks.keys[i].key

\* The contract can only come to certify the share's id with the share's key.
Certifiable(s, c) ==
  /\ Fits(s, c.keyset)
  /\ c.keyset.epoch_id < s.key_id.epoch_id =>
       \E i \in DOMAIN c.keyset.keys :
         /\ c.keyset.keys[i].domain_id = s.key_id.domain_id
         /\ c.keyset.keys[i].key = s.public_key
  /\ c.phase = "Initializing" /\ s.key_id.domain_id = c.id.domain_id =>
       s.public_key = s.instance

\* A share the node has from a run of its own.
OwnShare(s, r, c, v, j) ==
  /\ <<s.key_id, s.instance>> \in r
  /\ Certifiable(s, c) /\ Fits(s, v.keyset) /\ Fits(s, j.keyset)

\* The key for the domain in the keyset of the job j.
PreviousKey(domain, j) ==
  LET keys == j.keyset.keys IN keys[CHOOSE i \in DOMAIN keys : keys[i].domain_id = domain].key

\* The share that the task t of the job j will have written.
ShareOf(t, j) ==
  Keyshare(t.id, IF j.kind = "Initializing" THEN t.instance ELSE PreviousKey(t.id.domain_id, j),
           t.instance)

\* What a task that has begun its run has to be.
TaskFits(t, r, c, v, j) ==
  /\ OwnShare(ShareOf(t, j), r, c, v, j)
  /\ j.kind = "Resharing" =>
       \E i \in DOMAIN j.keyset.keys : j.keyset.keys[i].domain_id = t.id.domain_id

\* The state v was the contract's before c.
Lags(v, c) ==
  /\ Grown(v.keyset, c.keyset)
  /\ c.migrating => v.migrating
  /\ v.keyset.epoch_id = c.keyset.epoch_id =>
       /\ v.member => c.member
       /\ Counted(c) => Counted(v)
       /\ v.phase = "Running" /\ v.member => v.keyset = c.keyset
  /\ /\ v.phase = "Initializing" /\ c.phase = "Initializing"
     /\ v.id.domain_id = c.id.domain_id
     => v.keyset = c.keyset

\* A run for the domain being generated is one of the state the node sees.
RunsSeen(r, c, v) ==
  c.phase = "Initializing" =>
    \A x \in r : x[1].domain_id = c.id.domain_id =>
      v.phase = "Initializing" /\ v.id.domain_id = c.id.domain_id /\ v.member

\* No key id is run twice: its marker is there, or its epoch has passed.
OneRun(r) == \A x, y \in r : x[1] = y[1] => x = y

RunsMarked(r, m, v) == \A x \in r : x[1] \in m \/ x[1].epoch_id < v.keyset.epoch_id

\* The node has no other run for a key of the keyset it sees.
NoOtherRun(r, v) ==
  Counted(v) =>
    \A i \in DOMAIN v.keyset.keys : \A x \in r :
      x[1] = IdOf(v.keyset.epoch_id, v.keyset.keys[i]) => x[2] = v.keyset.keys[i].instance

\* A key that counts on the node is from a run of its own, or the node knows it.
Settled(k, r, c, v) ==
  \/ <<IdOf(c.keyset.epoch_id, k), k.instance>> \in r
  \/ v.migrating
  \/ /\ v.keyset.epoch_id = c.keyset.epoch_id
     /\ \E i \in DOMAIN v.keyset.keys : v.keyset.keys[i] = k

AllSettled(r, c, v) ==
  /\ Counted(c) => \A i \in DOMAIN c.keyset.keys : Settled(c.keyset.keys[i], r, c, v)
  /\ c.phase = "Resharing" /\ c.joins =>
       \A i \in DOMAIN c.completed :
         <<IdOf(c.id.epoch_id, c.completed[i]), c.completed[i].instance>> \in r

ChainInv ==
  /\ contract \in StateType
  /\ next_domain_id \in Nat /\ instance \in Nat /\ previously_cancelled \in Int
  /\ Shape(contract)
  /\ Below(contract, next_domain_id)
  /\ contract.phase = "Initializing" => next_domain_id = contract.id.domain_id + 1
  /\ previously_cancelled = NoEpoch \/ contract.keyset.epoch_id < previously_cancelled
  /\ channels \subseteq ChannelType

ViewInv ==
  /\ view \in StateType
  /\ Shape(view)
  /\ Below(view, next_domain_id)
  /\ Lags(view, contract)

RanInv ==
  /\ ran \subseteq IdType \X Nat
  /\ \A x \in ran : x[1].domain_id < next_domain_id
  /\ RunsMarked(ran, markers, view)
  /\ RunsSeen(ran, contract, view)
  /\ OneRun(ran)
  /\ NoOtherRun(ran, view)
  /\ AllSettled(ran, contract, view)
  /\ view.migrating => ran = {} /\ ~onboarded

\* The job j fits the state v that the node sees, and the stored shares d.
JobFits(j, v, d) ==
  /\ NoEpoch <= j.keyset.epoch_id
  /\ Grown(j.keyset, v.keyset)
  /\ j.kind = "Running" =>
       /\ v.phase = "Running" /\ j.keyset.epoch_id = v.keyset.epoch_id
       /\ j.member = v.member
       /\ j.member => j.keyset = v.keyset
       /\ ~j.member => j.status = "halted"
       /\ j.status \in {"ready", "serving"} /\ j.keyset.keys # <<>> =>
            /\ d.epoch_id = j.keyset.epoch_id
            /\ Len(d.keyshares) = Len(j.keyset.keys)
  /\ j.kind \in {"Initializing", "Resharing"} =>
       v.phase = j.kind /\ v.id.epoch_id = j.epoch_id
  /\ j.kind = "Initializing" => j.status = "halted" \/ v.member

JobInv ==
  /\ job \in JobType /\ onboarded \in BOOLEAN
  /\ job.kind \in {"None", "Onboarding"} \/ onboarded
  /\ JobFits(job, view, permanent)

TaskInv ==
  /\ tasks \subseteq TaskType
  /\ tasks # {} => job.kind \in {"Initializing", "Resharing"} /\ job.status = "ready"
  /\ \A t \in tasks :
       /\ t.id.epoch_id = job.epoch_id
       /\ t.pc # "waiting" => TaskFits(t, ran, contract, view, job)

\* The content f of the file for the id.
FileFits(f, id, r, c, v, j) ==
  \/ f = <<>>
  \/ /\ f \in Seq(ShareType) /\ Len(f) = 1
     /\ f[1].key_id = id
     /\ OwnShare(f[1], r, c, v, j)

TemporaryInv ==
  /\ DOMAIN temporary \subseteq IdType
  /\ \A id \in DOMAIN temporary : FileFits(temporary[id], id, ran, contract, view, job)

PermanentInv ==
  /\ permanent \in DataType
  /\ StoredOf(permanent, view.keyset)
  /\ job.kind # "None" => StoredOf(permanent, job.keyset)
  /\ Counted(view) => Certified(permanent, view.keyset)

\* The store st in progress is of the whole keyset of the job j.
StoreFits(st, j, v, d) ==
  st.pc # "idle" =>
    /\ j.kind \in {"Running", "Resharing", "Onboarding"} /\ j.status = "new"
    /\ st.data.epoch_id = j.keyset.epoch_id
    /\ Len(st.data.keyshares) = Len(j.keyset.keys)
    /\ StoredOf(st.data, j.keyset)
    /\ Counted(v) => Certified(st.data, v.keyset)
    /\ st.pc = "linked" => d = st.data

StoringInv ==
  /\ storing \in StoringType
  /\ StoreFits(storing, job, view, permanent)

KeysInvariant ==
  /\ ChainInv /\ ViewInv /\ RanInv /\ JobInv /\ TaskInv
  /\ TemporaryInv /\ PermanentInv /\ StoringInv /\ PromotionSucceeds

(***************************************************************************)
(* The shares that the contract counts on are on disk.                     *)
(***************************************************************************)

\* The file for the id has a share.
HasFile(g, id) == id \in DOMAIN g /\ g[id] # <<>>

\* The certified share of the key k is in its temporary file.
InFile(g, e, k) == IdOf(e, k) \in DOMAIN g /\ g[IdOf(e, k)] = <<BackupShare(e, k)>>

\* The share is in a numbered copy of the permanent storage.
Copied(p, s) == \E f \in DOMAIN p : \E i \in DOMAIN p[f] : p[f][i] = s

AllInFiles(g, e, keys) == \A i \in DOMAIN keys : InFile(g, e, keys[i])

AllOnDisk(g, p, ks) ==
  \A i \in DOMAIN ks.keys :
    \/ InFile(g, ks.epoch_id, ks.keys[i])
    \/ Copied(p, BackupShare(ks.epoch_id, ks.keys[i]))

\* The contract state c counts on shares that are in the files g and p, unless
\* they came with the migration m or the onboarding h was hasty.
Holds(c, g, p, h, m) ==
  /\ c.migrating => m
  /\ c.member /\ ~m => AllInFiles(g, c.keyset.epoch_id, c.keyset.keys)
  /\ c.member /\ ~h => AllOnDisk(g, p, c.keyset)
  /\ c.phase = "Resharing" /\ c.joins => AllInFiles(g, c.id.epoch_id, c.completed)

CountedInv == Holds(contract, temporary, permanent_keys, hasty, migrant)

\* The vote v that the contract has is for a share in a file.
VoteHolds(v, c, g) == v => c.started /\ HasFile(g, c.id)

\* The transaction tx votes for a share that is in a file, or concludes with
\* the shares on disk.
TxHolds(tx, c, g, p, h) ==
  \/ /\ tx.kind = "vote" /\ tx.id \in IdType
     /\ HasFile(g, tx.id) \/ tx.id.epoch_id < c.keyset.epoch_id
  \/ /\ tx.kind = "conclude" /\ tx.keyset \in KeysetType /\ Grown(tx.keyset, c.keyset)
     /\ ~h /\ c.migrating /\ tx.keyset = c.keyset => AllOnDisk(g, p, c.keyset)

VoteInv ==
  /\ VoteHolds(voted, contract, temporary)
  /\ \A tx \in txs : TxHolds(tx, contract, temporary, permanent_keys, hasty)

\* The tasks T write files of their own.
OwnFiles(T, g) ==
  /\ \A t \in T : /\ t.pc = "created" => t.id \in DOMAIN g /\ g[t.id] = <<>>
                  /\ t.pc = "committed" => HasFile(g, t.id)
  /\ \A t, u \in T : t.id = u.id /\ t.pc # "waiting" /\ u.pc # "waiting" => t = u

WriteInv == OwnFiles(tasks, temporary)

\* What is in permanent storage has its numbered copy.
Copies(d, p, st, j) ==
  /\ d.keyshares # <<>> => Identifier(d) \in DOMAIN p /\ p[Identifier(d)] = d.keyshares
  /\ st.pc # "idle" =>
       /\ Identifier(st.data) \in DOMAIN p
       /\ p[Identifier(st.data)] = IF st.pc = "created" THEN <<>> ELSE st.data.keyshares
       /\ \A i \in DOMAIN st.data.keyshares :
            st.data.keyshares[i].key_id = IdOf(j.keyset.epoch_id, j.keyset.keys[i])

CopyInv ==
  /\ Copies(permanent, permanent_keys, storing, job)
  /\ job.kind = "Onboarding" /\ job.status = "ready" => CanLoadKeyset(job.keyset)

HeldInvariant == CountedInv /\ VoteInv /\ WriteInv /\ CopyInv

(***************************************************************************)
(* The bounds of the types.                                                *)
(***************************************************************************)
IsKey(k) ==
  /\ k.domain_id \in 0 .. MaxDomains /\ k.attempt \in 0 .. MaxAttempt
  /\ k.key \in 1 .. MaxInstances /\ k.instance \in 1 .. MaxInstances

AreKeys(keys) == \A i \in DOMAIN keys : IsKey(keys[i])

AreShares(shares) == \A i \in DOMAIN shares : IsShare(shares[i])

InstanceOK(i) == i \in 1 .. MaxInstances

\* The contract state c, the next domain n and the last instance i.
Bounded(c, n, i) ==
  /\ c.keyset.epoch_id \in -1 .. MaxEpoch
  /\ IsKeyId(c.id)
  /\ AreKeys(c.keyset.keys) /\ AreKeys(c.completed)
  /\ n <= MaxDomains /\ i <= MaxInstances
  /\ c.started => 1 <= i

BoundInv ==
  /\ Bounded(contract, next_domain_id, instance)
  /\ AreKeys(view.keyset.keys) /\ AreKeys(job.keyset.keys)
  /\ \A c \in channels : IsKeyId(c.id) /\ InstanceOK(c.instance)
  /\ \A t \in tasks : IsKeyId(t.id) /\ InstanceOK(t.instance)
  /\ \A x \in ran : InstanceOK(x[2])

FilesBounded(g) == \A id \in DOMAIN g : IsKeyId(id) /\ AreShares(g[id])

StoreBounded(st) ==
  st.pc # "idle" => \A i \in DOMAIN st.data.keyshares :
                      /\ IsShare(st.data.keyshares[i])
                      /\ st.data.keyshares[i].key_id.epoch_id = st.data.epoch_id

CopyBounded(p, f) ==
  p[f] # <<>> => /\ p[f] \in Seq(ShareType) /\ Len(p[f]) = f[2]
                 /\ \A i \in DOMAIN p[f] : IsShare(p[f][i]) /\ p[f][i].key_id.epoch_id = f[1]

FilesInv ==
  /\ \A id \in markers : IsKeyId(id)
  /\ FilesBounded(temporary)
  /\ AreShares(permanent.keyshares)
  /\ StoreBounded(storing)
  /\ \A f \in DOMAIN permanent_keys : CopyBounded(permanent_keys, f)

\* The fields of a key of a keyset.
LEMMA KeyAt ==
  ASSUME NEW a \in KeysetType, NEW i \in DOMAIN a.keys
  PROVE  /\ a.keys[i] \in KeyType /\ i \in Nat
         /\ a.keys[i].domain_id \in Nat /\ a.keys[i].attempt \in Nat
         /\ a.keys[i].key \in Nat /\ a.keys[i].instance \in Nat
<1>1. a.keys[i] \in KeyType /\ i \in Nat
  BY DEF KeysetType
<1> QED BY <1>1 DEF KeyType

\* A keyset has grown from itself.
LEMMA GrownReflexive ==
  ASSUME NEW a \in KeysetType
  PROVE  Grown(a, a)
  BY DEF Grown, KeysetType, SameKey

\* What grew from a keyset that grew has grown.
LEMMA GrownTransitive ==
  ASSUME NEW a \in KeysetType, NEW b \in KeysetType, NEW c \in KeysetType,
         Grown(a, b), Grown(b, c)
  PROVE  Grown(a, c)
<1>1. Len(a.keys) \in Nat /\ Len(b.keys) \in Nat /\ Len(c.keys) \in Nat
  BY DEF KeysetType
<1>2. DOMAIN a.keys = 1 .. Len(a.keys) /\ DOMAIN b.keys = 1 .. Len(b.keys)
  BY DEF KeysetType
<1>3. a.epoch_id <= c.epoch_id /\ Len(a.keys) <= Len(c.keys)
  BY <1>1 DEF Grown, KeysetType
<1>4. ASSUME NEW i \in DOMAIN a.keys
      PROVE  /\ SameKey(a.keys[i], c.keys[i])
             /\ a.epoch_id = c.epoch_id => a.keys[i] = c.keys[i]
  <2>1. i \in DOMAIN b.keys
    BY <1>1, <1>2 DEF Grown
  <2>2. SameKey(a.keys[i], b.keys[i]) /\ SameKey(b.keys[i], c.keys[i])
    BY <2>1 DEF Grown
  <2>3. a.epoch_id = c.epoch_id => a.epoch_id = b.epoch_id /\ b.epoch_id = c.epoch_id
    BY DEF Grown, KeysetType
  <2> QED BY <2>1, <2>2, <2>3 DEF Grown, SameKey
<1> QED BY <1>3, <1>4 DEF Grown

\* A key of the earlier keyset is in the later one, for the same domain and with the
\* same public key; within an epoch it is the same key.
LEMMA GrownKey ==
  ASSUME NEW a \in KeysetType, NEW b \in KeysetType, Grown(a, b), NEW i \in DOMAIN a.keys
  PROVE  /\ i \in DOMAIN b.keys
         /\ a.keys[i] \in KeyType /\ b.keys[i] \in KeyType
         /\ a.keys[i].domain_id = b.keys[i].domain_id
         /\ a.keys[i].key = b.keys[i].key
         /\ a.epoch_id = b.epoch_id => a.keys[i] = b.keys[i]
  BY DEF Grown, KeysetType, SameKey

\* The domains of the earlier keyset ascend like those of the later one.
LEMMA GrownAscends ==
  ASSUME NEW a \in KeysetType, NEW b \in KeysetType, Grown(a, b), Ascends(b.keys)
  PROVE  Ascends(a.keys)
  BY GrownKey DEF Ascends

\* A keyset has one key for each domain.
LEMMA AscendsInjective ==
  ASSUME NEW a \in KeysetType, Ascends(a.keys), NEW i \in DOMAIN a.keys, NEW j \in DOMAIN a.keys,
         a.keys[i].domain_id = a.keys[j].domain_id
  PROVE  i = j
<1>1. i \in Nat /\ j \in Nat /\ a.keys[i].domain_id \in Nat /\ a.keys[j].domain_id \in Nat
  BY KeyAt
<1> QED BY <1>1 DEF Ascends

\* What was stored for the earlier keyset is the beginning of the later one.
LEMMA StoredOfGrown ==
  ASSUME NEW d \in DataType, NEW a \in KeysetType, NEW b \in KeysetType,
         StoredOf(d, a), Grown(a, b)
  PROVE  StoredOf(d, b)
<1>1. Len(d.keyshares) \in Nat /\ Len(a.keys) \in Nat /\ Len(b.keys) \in Nat
  BY DEF KeysetType, DataType
<1>2. DOMAIN d.keyshares = 1 .. Len(d.keyshares) /\ DOMAIN a.keys = 1 .. Len(a.keys)
  BY DEF KeysetType, DataType
<1>3. d.epoch_id <= b.epoch_id /\ Len(d.keyshares) <= Len(b.keys)
  BY <1>1 DEF StoredOf, Grown, KeysetType, DataType
<1>4. ASSUME NEW i \in DOMAIN d.keyshares
      PROVE  /\ d.keyshares[i].key_id.domain_id = b.keys[i].domain_id
             /\ d.keyshares[i].public_key = b.keys[i].key
  <2>1. i \in DOMAIN a.keys
    BY <1>1, <1>2 DEF StoredOf
  <2> QED BY <2>1, GrownKey DEF StoredOf
<1> QED BY <1>3, <1>4 DEF StoredOf

\* Certified shares stay certified while the epoch lasts.
LEMMA CertifiedGrown ==
  ASSUME NEW d \in DataType, NEW a \in KeysetType, NEW b \in KeysetType,
         StoredOf(d, a), Grown(a, b), a.epoch_id = b.epoch_id, Certified(d, a)
  PROVE  Certified(d, b)
<1>1. SUFFICES ASSUME d.epoch_id = b.epoch_id, NEW i \in DOMAIN d.keyshares
               PROVE  d.keyshares[i] = BackupShare(b.epoch_id, b.keys[i])
  BY DEF Certified
<1>2. d.keyshares[i] = BackupShare(a.epoch_id, a.keys[i])
  BY <1>1 DEF Certified
<1>3. i \in DOMAIN a.keys
  BY <1>1 DEF StoredOf, DataType, KeysetType
<1>4. a.keys[i] = b.keys[i]
  BY <1>3, GrownKey
<1> QED BY <1>2, <1>4

\* What the contract state c, the node's view v of it and the runs r of the node
\* have to do with each other, n being the next domain id.
Knows(c, v, r, n) ==
  /\ c \in StateType /\ v \in StateType /\ n \in Nat
  /\ Shape(c) /\ Below(c, n)
  /\ Shape(v) /\ Below(v, n)
  /\ c.phase = "Initializing" => n = c.id.domain_id + 1
  /\ Lags(v, c)
  /\ r \subseteq IdType \X Nat
  /\ \A x \in r : x[1].domain_id < n
  /\ RunsSeen(r, c, v)
  /\ OneRun(r)
  /\ AllSettled(r, c, v)
  /\ v.migrating => r = {}

\* The fields of a state of the contract.
LEMMA StateFields ==
  ASSUME NEW c \in StateType
  PROVE  /\ c.keyset \in KeysetType /\ c.keyset.epoch_id \in Int /\ c.keyset.keys \in Seq(KeyType)
         /\ Len(c.keyset.keys) \in Nat /\ DOMAIN c.keyset.keys = 1 .. Len(c.keyset.keys)
         /\ c.completed \in Seq(KeyType) /\ Len(c.completed) \in Nat
         /\ DOMAIN c.completed = 1 .. Len(c.completed)
         /\ c.id \in IdType /\ c.id.epoch_id \in Int /\ c.id.domain_id \in Nat
         /\ c.id.attempt_id \in Nat
  BY DEF StateType, KeysetType, IdType

\* A state all of whose fields but one are set.
Updated(c, phase, keyset, completed, id, started, member, joins) ==
  [c EXCEPT !.phase = phase, !.keyset = keyset, !.completed = completed, !.id = id,
            !.started = started, !.member = member, !.joins = joins]

\* A transition of the contract writes these fields and keeps `migrating`.
LEMMA UpdatedState ==
  ASSUME NEW c \in StateType, NEW phase \in {"Running", "Initializing", "Resharing"},
         NEW keyset \in KeysetType, NEW completed \in Seq(KeyType), NEW id \in IdType,
         NEW started \in BOOLEAN, NEW member \in BOOLEAN, NEW joins \in BOOLEAN,
         NEW d, d = Updated(c, phase, keyset, completed, id, started, member, joins)
  PROVE  /\ d \in StateType
         /\ d.phase = phase /\ d.keyset = keyset /\ d.completed = completed /\ d.id = id
         /\ d.started = started /\ d.member = member /\ d.joins = joins
         /\ d.migrating = c.migrating
<1>1. d \in StateType
  BY DEF StateType, Updated
<1> QED BY <1>1 DEF StateType, Updated

\* The empty keyset.
LEMMA NoKeys == <<>> \in Seq(KeyType)
  OBVIOUS

\* The fields of a key event id.
LEMMA IdFields ==
  ASSUME NEW e \in Int, NEW m \in Nat, NEW a \in Nat
  PROVE  /\ KeyEventId(e, m, a) \in IdType
         /\ KeyEventId(e, m, a).epoch_id = e /\ KeyEventId(e, m, a).domain_id = m
         /\ KeyEventId(e, m, a).attempt_id = a
  BY DEF KeyEventId, IdType

\* Steps of the contract that leave the keyset and the node's part in it alone.
LEMMA QuietStep ==
  ASSUME NEW c, NEW v, NEW r, NEW n, Knows(c, v, r, n), NEW d \in StateType, Shape(d),
         d.keyset = c.keyset, d.member = c.member, d.migrating = c.migrating,
         d.phase = "Initializing" => c.phase = "Initializing" /\ d.id.domain_id = c.id.domain_id,
         d.phase = "Resharing" /\ d.joins =>
           \/ d.completed = <<>>
           \/ /\ c.phase = "Resharing" /\ c.joins
              /\ d.completed = c.completed /\ d.id.epoch_id = c.id.epoch_id
  PROVE  Knows(d, v, r, n) /\ \A s : Certifiable(s, c) => Certifiable(s, d)
<1>1. Below(d, n) /\ (d.phase = "Initializing" => n = d.id.domain_id + 1)
  BY DEF Knows, Below
<1>2. Lags(v, d)
  BY DEF Knows, Lags, Counted
<1>3. RunsSeen(r, d, v)
  BY DEF Knows, RunsSeen
<1>4. AllSettled(r, d, v)
  <2>1. Counted(d) => \A i \in DOMAIN d.keyset.keys : Settled(d.keyset.keys[i], r, d, v)
    BY DEF Knows, AllSettled, Settled, Counted
  <2>2. d.phase = "Resharing" /\ d.joins =>
          \A i \in DOMAIN d.completed :
            <<IdOf(d.id.epoch_id, d.completed[i]), d.completed[i].instance>> \in r
    BY DEF Knows, AllSettled
  <2> QED BY <2>1, <2>2 DEF AllSettled
<1>5. \A s : Certifiable(s, c) => Certifiable(s, d)
  BY DEF Certifiable
<1> QED BY <1>1, <1>2, <1>3, <1>4, <1>5 DEF Knows

\* A domain is added: nobody has a run for it.
LEMMA AddStep ==
  ASSUME NEW c, NEW v, NEW r, NEW n, Knows(c, v, r, n), NEW d \in StateType, Shape(d),
         d.keyset = c.keyset, d.member = c.member, d.migrating = c.migrating,
         d.phase = "Initializing", d.id.domain_id = n
  PROVE  /\ Knows(d, v, r, n + 1)
         /\ \A s : <<s.key_id, s.instance>> \in r /\ Certifiable(s, c) => Certifiable(s, d)
<1>0. c \in StateType /\ v \in StateType /\ n \in Nat
  BY DEF Knows
<1>1. Below(d, n + 1) /\ d.phase = "Initializing" /\ n + 1 = d.id.domain_id + 1
  BY <1>0, StateFields, KeyAt DEF Knows, Below
<1>2. Below(v, n + 1)
  <2>1. \A i \in DOMAIN v.keyset.keys : v.keyset.keys[i].domain_id < n + 1
    BY <1>0, StateFields, KeyAt DEF Knows, Below
  <2> QED BY <2>1, <1>0, StateFields DEF Knows, Below
<1>3. Lags(v, d)
  <2>1. v.phase = "Initializing" => v.id.domain_id # n
    BY <1>0, StateFields DEF Knows, Below
  <2> QED BY <2>1 DEF Knows, Lags, Counted
<1>4. \A x \in r : x[1].domain_id \in Nat /\ x[1].domain_id < n
  BY DEF Knows, IdType
<1>5. RunsSeen(r, d, v)
  BY <1>0, <1>4 DEF RunsSeen
<1>6. AllSettled(r, d, v)
  BY DEF Knows, AllSettled, Settled, Counted
<1>7. ASSUME NEW s, <<s.key_id, s.instance>> \in r, Certifiable(s, c)
      PROVE  Certifiable(s, d)
  <2>1. s.key_id.domain_id # d.id.domain_id
    BY <1>0, <1>4, <1>7
  <2> QED BY <1>7, <2>1 DEF Certifiable
<1>8. \A x \in r : x[1].domain_id < n + 1
  BY <1>0, <1>4
<1> QED BY <1>0, <1>1, <1>2, <1>3, <1>5, <1>6, <1>7, <1>8 DEF Knows

\* The node has taken over an account.
LEMMA ConcludeStep ==
  ASSUME NEW c, NEW v, NEW r, NEW n, Knows(c, v, r, n), NEW d \in StateType, Shape(d),
         d.keyset = c.keyset, d.phase = c.phase, d.phase = "Running", c.migrating,
         d.member, ~d.migrating
  PROVE  Knows(d, v, r, n) /\ \A s : Certifiable(s, c) => Certifiable(s, d)
<1>1. Below(d, n) /\ d.phase # "Initializing" /\ d.phase # "Resharing"
  BY DEF Knows, Below
<1>2. v.migrating
  BY DEF Knows, Lags
<1>3. Counted(c) /\ Counted(v) /\ Counted(d) /\ ~v.member
  BY <1>2 DEF Knows, Counted, Shape
<1>4. Lags(v, d)
  BY <1>1, <1>3 DEF Knows, Lags
<1>5. RunsSeen(r, d, v)
  BY <1>1 DEF RunsSeen
<1>6. AllSettled(r, d, v)
  BY <1>1, <1>2 DEF AllSettled, Settled
<1>7. \A s : Certifiable(s, c) => Certifiable(s, d)
  BY <1>1 DEF Certifiable
<1> QED BY <1>1, <1>4, <1>5, <1>6, <1>7 DEF Knows

\* A key has been generated; a participant has run it.
LEMMA GeneratedStep ==
  ASSUME NEW c, NEW v, NEW r, NEW n, Knows(c, v, r, n), c.phase = "Initializing",
         NEW k \in KeyType, k.domain_id = c.id.domain_id, k.attempt = c.id.attempt_id,
         k.key = k.instance, c.member => <<c.id, k.instance>> \in r,
         NEW d \in StateType, Shape(d), d.phase = "Running",
         d.keyset = [epoch_id |-> c.id.epoch_id, keys |-> Append(c.keyset.keys, k)],
         d.member = c.member, d.migrating = c.migrating
  PROVE  /\ Knows(d, v, r, n)
         /\ \A s : <<s.key_id, s.instance>> \in r /\ Certifiable(s, c) => Certifiable(s, d)
<1>0. c \in StateType /\ v \in StateType /\ n \in Nat /\ Shape(c) /\ Shape(v)
  BY DEF Knows
<1> DEFINE e == c.keyset.epoch_id
           ks == c.keyset.keys
           L == Len(ks)
<1>1. /\ ks \in Seq(KeyType) /\ L \in Nat /\ e \in Int /\ c.id.epoch_id = e
      /\ DOMAIN ks = 1 .. L
  BY <1>0, StateFields DEF Shape
<1>2. /\ d.keyset.epoch_id = e /\ d.keyset.keys = Append(ks, k)
      /\ Len(d.keyset.keys) = L + 1 /\ DOMAIN d.keyset.keys = 1 .. L + 1
      /\ d.keyset.keys[L + 1] = k
      /\ \A i \in DOMAIN ks : d.keyset.keys[i] = ks[i]
  BY <1>1
<1> HIDE DEF e, ks, L
<1>3. \A i \in DOMAIN d.keyset.keys : i \in DOMAIN ks \/ i = L + 1
  BY <1>1, <1>2
<1>4. c.id = IdOf(e, k)
  BY <1>0, <1>1, StateFields DEF IdOf, KeyEventId, IdType
<1>5. Below(d, n)
  BY <1>2, <1>3, <1>0, StateFields DEF Knows, Below, ks
<1>6. Grown(c.keyset, d.keyset)
  BY <1>1, <1>2 DEF Grown, SameKey, e, ks, L
<1>7. ASSUME NEW x \in r, x[1].domain_id = c.id.domain_id
      PROVE  c.member /\ v.phase = "Initializing" /\ v.member /\ v.keyset = c.keyset
  BY <1>7 DEF Knows, RunsSeen, Lags
<1>8. Lags(v, d)
  <2>1. Grown(v.keyset, d.keyset)
    BY <1>0, <1>6, GrownTransitive, StateFields DEF Knows, Lags
  <2>2. v.keyset.epoch_id = d.keyset.epoch_id =>
          /\ v.member => d.member
          /\ Counted(d) => Counted(v)
    BY <1>2 DEF Knows, Lags, Counted, e
  <2>3. c.member => v.phase # "Running"
    BY <1>7
  <2>4. v.keyset.epoch_id = d.keyset.epoch_id => ~(v.phase = "Running" /\ v.member)
    BY <2>2, <2>3
  <2> QED BY <2>1, <2>2, <2>4 DEF Knows, Lags
<1>9. RunsSeen(r, d, v)
  BY DEF RunsSeen
<1>10. AllSettled(r, d, v)
  <2>1. SUFFICES ASSUME Counted(d), NEW i \in DOMAIN d.keyset.keys
                 PROVE  Settled(d.keyset.keys[i], r, d, v)
    BY DEF AllSettled
  <2>2. CASE i \in DOMAIN ks
    <3>1. Settled(ks[i], r, c, v)
      BY <2>1, <2>2 DEF Knows, AllSettled, Counted, ks
    <3> QED BY <3>1, <2>2, <1>2 DEF Settled, e
  <2>3. CASE i = L + 1
    <3>1. CASE c.member
      <4>1. <<IdOf(e, k), k.instance>> \in r
        BY <3>1, <1>4
      <4> QED BY <4>1, <2>3, <1>2 DEF Settled
    <3>2. CASE c.migrating
      BY <3>2 DEF Knows, Lags, Settled
    <3> QED BY <3>1, <3>2, <2>1 DEF Counted
  <2> QED BY <2>2, <2>3, <1>3
<1>11. ASSUME NEW s, <<s.key_id, s.instance>> \in r, Certifiable(s, c)
       PROVE  Certifiable(s, d)
  <2>1. ASSUME NEW i \in DOMAIN d.keyset.keys, s.key_id = IdOf(d.keyset.epoch_id, d.keyset.keys[i])
        PROVE  s.public_key = d.keyset.keys[i].key
    <3>1. CASE i \in DOMAIN ks
      BY <3>1, <2>1, <1>11, <1>2 DEF Certifiable, Fits, e, ks
    <3>2. CASE i = L + 1
      <4>1. s.key_id = c.id
        BY <3>2, <2>1, <1>2, <1>4
      <4>2. s.public_key = s.instance
        BY <4>1, <1>11 DEF Certifiable
      <4>3. c.member
        BY <1>7, <1>11, <4>1
      <4>4. s.instance = k.instance
        <5>1. <<c.id, k.instance>> \in r /\ <<c.id, s.instance>> \in r
          BY <4>1, <4>3, <1>11
        <5> QED BY <5>1 DEF Knows, OneRun
      <4> QED BY <4>2, <4>4, <3>2, <1>2
    <3> QED BY <3>1, <3>2, <1>3
  <2>2. ASSUME d.keyset.epoch_id < s.key_id.epoch_id
        PROVE  \E i \in DOMAIN d.keyset.keys :
                 /\ d.keyset.keys[i].domain_id = s.key_id.domain_id
                 /\ d.keyset.keys[i].key = s.public_key
    <3>1. PICK i \in DOMAIN ks : ks[i].domain_id = s.key_id.domain_id /\ ks[i].key = s.public_key
      BY <2>2, <1>2, <1>11 DEF Certifiable, e, ks
    <3>2. i \in DOMAIN d.keyset.keys
      BY <1>1, <1>2
    <3> QED BY <3>1, <3>2, <1>2
  <2> QED BY <2>1, <2>2 DEF Certifiable, Fits
<1> QED BY <1>5, <1>8, <1>9, <1>10, <1>11 DEF Knows

\* A key has been reshared, and there are more.
LEMMA ResharedStep ==
  ASSUME NEW c, NEW v, NEW r, NEW n, Knows(c, v, r, n), c.phase = "Resharing",
         NEW k \in KeyType, k.domain_id = c.id.domain_id, k.attempt = c.id.attempt_id,
         c.joins => <<c.id, k.instance>> \in r,
         NEW d \in StateType, Shape(d), d.phase = "Resharing", d.keyset = c.keyset,
         d.completed = Append(c.completed, k), d.id.epoch_id = c.id.epoch_id,
         d.member = c.member, d.migrating = c.migrating, d.joins = c.joins
  PROVE  Knows(d, v, r, n) /\ \A s : Certifiable(s, c) => Certifiable(s, d)
<1>0. c \in StateType /\ v \in StateType /\ n \in Nat
  BY DEF Knows
<1>1. Below(d, n)
  BY DEF Knows, Below
<1>2. Lags(v, d)
  BY DEF Knows, Lags, Counted
<1>3. RunsSeen(r, d, v)
  BY DEF RunsSeen
<1>4. AllSettled(r, d, v)
  <2>1. Counted(d) => \A i \in DOMAIN d.keyset.keys : Settled(d.keyset.keys[i], r, d, v)
    BY DEF Knows, AllSettled, Settled, Counted
  <2>2. ASSUME d.joins, NEW i \in DOMAIN d.completed
        PROVE  <<IdOf(d.id.epoch_id, d.completed[i]), d.completed[i].instance>> \in r
    <3>1. /\ c.completed \in Seq(KeyType) /\ DOMAIN c.completed = 1 .. Len(c.completed)
          /\ Len(c.completed) \in Nat
      BY <1>0, StateFields
    <3>2. /\ DOMAIN d.completed = 1 .. Len(c.completed) + 1
          /\ d.completed[Len(c.completed) + 1] = k
          /\ \A j \in DOMAIN c.completed : d.completed[j] = c.completed[j]
      BY <3>1
    <3>3. CASE i \in DOMAIN c.completed
      BY <3>3, <3>2, <2>2 DEF Knows, AllSettled
    <3>4. CASE i = Len(c.completed) + 1
      <4>1. c.id = IdOf(d.id.epoch_id, k)
        BY <1>0, StateFields DEF IdOf, KeyEventId, IdType
      <4> QED BY <4>1, <3>4, <3>2, <2>2
    <3>5. i \in DOMAIN c.completed \/ i = Len(c.completed) + 1
      BY <3>1, <3>2, <2>2
    <3> QED BY <3>3, <3>4, <3>5
  <2> QED BY <2>1, <2>2 DEF AllSettled
<1>5. \A s : Certifiable(s, c) => Certifiable(s, d)
  BY DEF Certifiable
<1> QED BY <1>1, <1>2, <1>3, <1>4, <1>5 DEF Knows

\* The last key has been reshared.
LEMMA ResharingEnds ==
  ASSUME NEW c, NEW v, NEW r, NEW n, Knows(c, v, r, n), c.phase = "Resharing",
         NEW k \in KeyType, k.domain_id = c.id.domain_id, k.attempt = c.id.attempt_id,
         k.key = c.keyset.keys[Len(c.completed) + 1].key,
         c.joins => <<c.id, k.instance>> \in r,
         Len(c.completed) + 1 = Len(c.keyset.keys),
         NEW d \in StateType, d.phase = "Running",
         d.keyset = [epoch_id |-> c.id.epoch_id, keys |-> Append(c.completed, k)],
         ~d.started, ~d.joins, d.member = c.joins, d.migrating = c.migrating
  PROVE  /\ Shape(d) /\ Knows(d, v, r, n)
         /\ \A s : <<s.key_id, s.instance>> \in r /\ Certifiable(s, c) => Certifiable(s, d)
<1>0. c \in StateType /\ v \in StateType /\ n \in Nat /\ Shape(c) /\ Shape(v)
  BY DEF Knows
<1> DEFINE ks == c.keyset.keys
           L == Len(ks)
           new == d.keyset.keys
<1>1. /\ ks \in Seq(KeyType) /\ L \in Nat /\ c.keyset.epoch_id \in Nat
      /\ c.id.epoch_id \in Int /\ c.keyset.epoch_id < c.id.epoch_id
      /\ DOMAIN ks = 1 .. L /\ c.completed \in Seq(KeyType) /\ Len(c.completed) \in Nat
      /\ Len(c.completed) = L - 1 /\ DOMAIN c.completed = 1 .. L - 1
  BY <1>0, StateFields, SMTT(30) DEF Shape
<1>2. /\ d.keyset.epoch_id = c.id.epoch_id /\ new = Append(c.completed, k)
      /\ Len(new) = L /\ DOMAIN new = 1 .. L
      /\ new[L] = k
      /\ \A i \in DOMAIN c.completed : new[i] = c.completed[i]
  BY <1>1
<1>3. \A i \in DOMAIN new : i \in DOMAIN c.completed \/ i = L
  BY <1>1, <1>2
<1>4. \A i \in DOMAIN new : new[i].domain_id = ks[i].domain_id /\ new[i].key = ks[i].key
  <2>1. \A i \in DOMAIN c.completed : SameKey(c.completed[i], ks[i])
    BY <1>0 DEF Shape
  <2>2. k.domain_id = ks[L].domain_id /\ k.key = ks[L].key
    BY <1>0, <1>1 DEF Shape
  <2> QED BY <2>1, <2>2, <1>2, <1>3 DEF SameKey
<1> HIDE DEF ks, L, new
<1>5. Grown(c.keyset, d.keyset)
  BY <1>1, <1>2, <1>4 DEF Grown, SameKey, ks, L, new
<1>6. Ascends(new)
  BY <1>0, <1>1, <1>2, <1>4 DEF Shape, Ascends, ks
<1>7. Shape(d)
  BY <1>0, <1>1, <1>2, <1>6 DEF Shape, new
<1>8. Below(d, n)
  BY <1>1, <1>2, <1>4 DEF Knows, Below, ks, new
<1>9. Lags(v, d)
  <2>1. Grown(v.keyset, d.keyset)
    BY <1>0, <1>5, GrownTransitive, StateFields DEF Knows, Lags
  <2>2. v.keyset.epoch_id # d.keyset.epoch_id
    BY <1>0, <1>1, <1>2, StateFields DEF Knows, Lags, Grown
  <2> QED BY <2>1, <2>2 DEF Knows, Lags
<1>10. RunsSeen(r, d, v)
  BY DEF RunsSeen
<1>11. AllSettled(r, d, v)
  <2>1. SUFFICES ASSUME Counted(d), NEW i \in DOMAIN d.keyset.keys
                 PROVE  Settled(d.keyset.keys[i], r, d, v)
    BY DEF AllSettled
  <2>2. CASE c.migrating
    BY <2>2 DEF Knows, Lags, Settled
  <2>3. CASE c.joins
    <3>1. CASE i \in DOMAIN c.completed
      BY <2>3, <3>1, <1>2 DEF Knows, AllSettled, Settled, new
    <3>2. CASE i = L
      <4>1. c.id = IdOf(c.id.epoch_id, k)
        BY <1>0, StateFields DEF IdOf, KeyEventId, IdType
      <4> QED BY <4>1, <2>3, <3>2, <1>2 DEF Settled, new
    <3> QED BY <3>1, <3>2, <1>3, <2>1 DEF new
  <2> QED BY <2>1, <2>2, <2>3 DEF Counted
<1>12. ASSUME NEW s, <<s.key_id, s.instance>> \in r, Certifiable(s, c)
       PROVE  Certifiable(s, d)
  <2>1. ASSUME c.keyset.epoch_id < s.key_id.epoch_id
        PROVE  \E i \in DOMAIN new : new[i].domain_id = s.key_id.domain_id /\ new[i].key = s.public_key
    <3>1. PICK i \in DOMAIN ks : ks[i].domain_id = s.key_id.domain_id /\ ks[i].key = s.public_key
      BY <2>1, <1>12 DEF Certifiable, ks
    <3> QED BY <3>1, <1>1, <1>2, <1>4
  <2>2. ASSUME NEW i \in DOMAIN new, s.key_id = IdOf(d.keyset.epoch_id, new[i])
        PROVE  s.public_key = new[i].key
    <3>1. s.key_id.epoch_id = c.id.epoch_id /\ s.key_id.domain_id = new[i].domain_id
      BY <2>2, <1>2 DEF IdOf, KeyEventId
    <3>2. PICK j \in DOMAIN new : new[j].domain_id = s.key_id.domain_id /\ new[j].key = s.public_key
      BY <2>1, <3>1, <1>1
    <3>3. i = j
      BY <3>1, <3>2, <1>6, AscendsInjective, StateFields DEF new
    <3> QED BY <3>2, <3>3
  <2>3. ASSUME d.keyset.epoch_id < s.key_id.epoch_id
        PROVE  c.keyset.epoch_id < s.key_id.epoch_id
    <3>1. s.key_id.epoch_id \in Int
      BY <1>12 DEF Knows, IdType
    <3> QED BY <2>3, <3>1, <1>1, <1>2
  <2> QED BY <2>1, <2>2, <2>3 DEF Certifiable, Fits, new
<1> QED BY <1>7, <1>8, <1>9, <1>10, <1>11, <1>12 DEF Knows

(***************************************************************************)
(* Steps of the contract.                                                  *)
(***************************************************************************)
NodeUnchanged == UNCHANGED <<view, onboarded, job, tasks, ran, storageVars>>

\* The part of the invariant about what the node knows of the contract.
LEMMA InvariantKnows ==
  ASSUME KeysInvariant
  PROVE  Knows(contract, view, ran, next_domain_id)
  BY DEF KeysInvariant, ChainInv, ViewInv, RanInv, Knows

\* A step of the contract from c to d that completes no key.
Quiet(c, d) ==
  /\ d.keyset = c.keyset /\ d.member = c.member /\ d.migrating = c.migrating
  /\ d.phase = "Resharing" /\ d.joins =>
       \/ d.completed = <<>>
       \/ /\ c.phase = "Resharing" /\ c.joins
          /\ d.completed = c.completed /\ d.id.epoch_id = c.id.epoch_id

\* A step of the contract from c to d that completes the run n.
Completes(c, d, n) ==
  \E k \in KeyType :
    /\ k.domain_id = c.id.domain_id /\ k.attempt = c.id.attempt_id /\ k.instance = n
    /\ k.key = IF c.phase = "Initializing" THEN n
               ELSE c.keyset.keys[Len(c.completed) + 1].key
    /\ d.migrating = c.migrating /\ ~d.started
    /\ d.phase = "Running" => d.id = KeyEventId(NoEpoch, 0, 0)
    /\ \/ /\ c.phase = "Initializing" /\ d.phase = "Running" /\ d.member = c.member
          /\ d.keyset = [epoch_id |-> c.id.epoch_id, keys |-> Append(c.keyset.keys, k)]
          /\ d.completed = <<>>
       \/ /\ c.phase = "Resharing" /\ d.phase = "Running" /\ d.member = c.joins
          /\ d.keyset = [epoch_id |-> c.id.epoch_id, keys |-> Append(c.completed, k)]
          /\ Len(c.completed) + 1 = Len(c.keyset.keys)
          /\ d.completed = <<>>
       \/ /\ c.phase = "Resharing" /\ d.phase = "Resharing" /\ d.member = c.member
          /\ d.joins = c.joins /\ d.keyset = c.keyset
          /\ d.completed = Append(c.completed, k) /\ d.id.epoch_id = c.id.epoch_id
          /\ d.id.attempt_id = 0
          /\ \E i \in DOMAIN c.keyset.keys : d.id.domain_id = c.keyset.keys[i].domain_id

\* The node's own part of the invariant survives a step of the contract.
LEMMA ContractMoves ==
  ASSUME KeysInvariant, NodeUnchanged, ChainInv',
         Knows(contract', view, ran, next_domain_id'),
         \A s : <<s.key_id, s.instance>> \in ran /\ Certifiable(s, contract)
                  => Certifiable(s, contract')
  PROVE  KeysInvariant'
<1> USE DEF NodeUnchanged, storageVars, disk
<1>1. ViewInv'
  BY DEF Knows, ViewInv
<1>2. RanInv'
  BY DEF Knows, KeysInvariant, RanInv
<1>3. JobInv'
  BY DEF KeysInvariant, JobInv
<1>4. \A s, j : OwnShare(s, ran, contract, view, j) => OwnShare(s, ran, contract', view, j)
  BY DEF OwnShare
<1>5. TaskInv'
  BY <1>4 DEF KeysInvariant, TaskInv, TaskFits
<1>6. TemporaryInv'
  BY <1>4 DEF KeysInvariant, TemporaryInv, FileFits
<1>7. PermanentInv'
  BY DEF KeysInvariant, PermanentInv
<1>8. StoringInv'
  BY DEF KeysInvariant, StoringInv
<1>9. PromotionSucceeds'
  BY DEF KeysInvariant, PromotionSucceeds, CanLoadKeyset, StoredPrefix, CanLoad,
     PromotedData, LoadKeyset
<1> QED BY <1>1, <1>2, <1>3, <1>5, <1>6, <1>7, <1>8, <1>9 DEF KeysInvariant

\* vote_add_domains: the new domain has no key and no run yet.
LEMMA AddDomainKeeps ==
  ASSUME KeysInvariant, NodeUnchanged, AddDomain, UNCHANGED channels
  PROVE  KeysInvariant' /\ Quiet(contract, contract')
<1>1. contract \in StateType /\ Shape(contract) /\ next_domain_id \in Nat
  BY DEF KeysInvariant, ChainInv
<1>2. PICK d : d = contract'
  OBVIOUS
<1>3. /\ d.phase = "Initializing" /\ d.keyset = contract.keyset
      /\ d.completed = contract.keyset.keys
      /\ d.id = KeyEventId(contract.keyset.epoch_id, next_domain_id, 0)
      /\ d.member = contract.member /\ d.migrating = contract.migrating
      /\ d.joins = contract.joins /\ d.started = contract.started
      /\ d \in StateType
  BY <1>1, <1>2 DEF AddDomain, StateType, KeysetType, IdType, KeyEventId
<1>4. d.id.epoch_id = contract.keyset.epoch_id /\ d.id.domain_id = next_domain_id
  BY <1>3 DEF KeyEventId
<1>5. Shape(d)
  BY <1>1, <1>3, <1>4 DEF Shape, KeysInvariant, ChainInv, Below
<1>6. /\ Knows(d, view, ran, next_domain_id + 1)
      /\ \A s : <<s.key_id, s.instance>> \in ran /\ Certifiable(s, contract) => Certifiable(s, d)
  BY <1>3, <1>4, <1>5, InvariantKnows, AddStep
<1>7. /\ next_domain_id' = next_domain_id + 1 /\ previously_cancelled' = NoEpoch
      /\ instance' = instance
  BY DEF AddDomain
<1>8. ChainInv'
  <2>1. Below(d, next_domain_id + 1) /\ (d.phase = "Initializing" => next_domain_id + 1 = d.id.domain_id + 1)
    BY <1>6 DEF Knows
  <2> QED BY <1>1, <1>2, <1>3, <1>5, <1>7, <2>1 DEF ChainInv, KeysInvariant, NoEpoch
<1> QED BY <1>2, <1>3, <1>6, <1>7, <1>8, ContractMoves DEF Quiet

\* What is left to show when the keyset stays and next_domain_id too.
LEMMA QuietMove ==
  ASSUME KeysInvariant, NodeUnchanged, contract' \in StateType, Shape(contract'),
         contract'.keyset = contract.keyset, contract'.member = contract.member,
         contract'.migrating = contract.migrating,
         contract'.phase = "Initializing" =>
           contract.phase = "Initializing" /\ contract'.id.domain_id = contract.id.domain_id,
         contract'.phase = "Resharing" /\ contract'.joins =>
           \/ contract'.completed = <<>>
           \/ /\ contract.phase = "Resharing" /\ contract.joins
              /\ contract'.completed = contract.completed
              /\ contract'.id.epoch_id = contract.id.epoch_id,
         next_domain_id' = next_domain_id, instance' \in Nat, previously_cancelled' \in Int,
         previously_cancelled' = NoEpoch \/ contract'.keyset.epoch_id < previously_cancelled',
         channels' \subseteq ChannelType
  PROVE  KeysInvariant' /\ Quiet(contract, contract')
<1>1. Knows(contract, view, ran, next_domain_id)
  BY InvariantKnows
<1>2. PICK d : d = contract'
  OBVIOUS
<1>3. /\ Knows(d, view, ran, next_domain_id)
      /\ \A s : Certifiable(s, contract) => Certifiable(s, d)
  BY <1>1, <1>2, QuietStep
<1>4. ChainInv'
  BY <1>2, <1>3 DEF ChainInv, Knows
<1> QED BY <1>2, <1>3, <1>4, ContractMoves DEF Quiet

\* vote_new_parameters: the next epoch has no run yet.
LEMMA BeginResharingKeeps ==
  ASSUME KeysInvariant, NodeUnchanged, NEW joins \in BOOLEAN, BeginResharing(joins),
         UNCHANGED channels
  PROVE  KeysInvariant' /\ Quiet(contract, contract')
<1>1. contract \in StateType /\ Shape(contract) /\ previously_cancelled \in Int
  BY DEF KeysInvariant, ChainInv
<1> DEFINE epoch == 1 + IF contract.phase = "Resharing" THEN contract.id.epoch_id
                        ELSE IF previously_cancelled # NoEpoch THEN previously_cancelled
                        ELSE contract.keyset.epoch_id
<1>2. epoch \in Int /\ contract.keyset.epoch_id < epoch
  BY <1>1, StateFields DEF KeysInvariant, ChainInv, Shape
<1>3. contract.keyset.keys # <<>> /\ (contract.migrating => ~joins)
  BY DEF BeginResharing
<1>4. contract' = [contract EXCEPT !.phase = "Resharing", !.completed = <<>>, !.joins = joins,
                    !.id = KeyEventId(epoch, contract.keyset.keys[1].domain_id, 0), !.started = FALSE]
  BY DEF BeginResharing
<1> HIDE DEF epoch
<1>5. PICK d : d = contract'
  OBVIOUS
<1>6. 1 \in DOMAIN contract.keyset.keys /\ Len(contract.keyset.keys) > 0
  BY <1>1, <1>3, StateFields
<1>7. contract.keyset.keys[1].domain_id \in Nat
  BY <1>1, <1>6, KeyAt, StateFields
<1>8. /\ d.phase = "Resharing" /\ d.keyset = contract.keyset /\ d.completed = <<>>
      /\ d.id = KeyEventId(epoch, contract.keyset.keys[1].domain_id, 0)
      /\ d.member = contract.member /\ d.migrating = contract.migrating
      /\ d.joins = joins /\ d.started = FALSE
      /\ d \in StateType
  <2>1. PICK i \in IdType : i = KeyEventId(epoch, contract.keyset.keys[1].domain_id, 0)
    BY <1>2, <1>7 DEF KeyEventId, IdType
  <2>2. d = [contract EXCEPT !.phase = "Resharing", !.completed = <<>>, !.joins = joins,
                             !.id = i, !.started = FALSE]
    BY <1>4, <1>5, <2>1
  <2>3. PICK f \in BOOLEAN : f = FALSE
    OBVIOUS
  <2>4. PICK p \in {"Running", "Initializing", "Resharing"} : p = "Resharing"
    OBVIOUS
  <2>5. PICK q \in Seq(KeyType) : q = <<>>
    BY NoKeys
  <2>6. d = Updated(contract, p, contract.keyset, q, i, f, contract.member, joins)
    BY <1>1, <2>2, <2>3, <2>4, <2>5 DEF Updated, StateType
  <2>7. contract.keyset \in KeysetType /\ contract.member \in BOOLEAN
    BY <1>1 DEF StateType
  <2>8. /\ d \in StateType
        /\ d.phase = p /\ d.keyset = contract.keyset /\ d.completed = q /\ d.id = i
        /\ d.started = f /\ d.member = contract.member /\ d.joins = joins
        /\ d.migrating = contract.migrating
    BY <1>1, <2>6, <2>7, UpdatedState
  <2> QED BY <2>1, <2>3, <2>4, <2>5, <2>8
<1>9. Shape(d)
  BY <1>1, <1>2, <1>3, <1>6, <1>8, StateFields DEF Shape, KeyEventId
<1>10. /\ next_domain_id' = next_domain_id /\ previously_cancelled' = NoEpoch
       /\ instance' = instance
  BY DEF BeginResharing
<1> QED BY <1>5, <1>8, <1>9, <1>10, QuietMove DEF NoEpoch, KeysInvariant, ChainInv

\* start_keygen_instance, start_reshare_instance.
LEMMA StartInstanceKeeps ==
  ASSUME KeysInvariant, NodeUnchanged, StartInstance, UNCHANGED channels
  PROVE  KeysInvariant' /\ Quiet(contract, contract')
<1>1. contract \in StateType /\ Shape(contract) /\ instance \in Nat
  BY DEF KeysInvariant, ChainInv
<1>2. PICK d : d = contract'
  OBVIOUS
<1>3. /\ d.phase = contract.phase /\ d.keyset = contract.keyset
      /\ d.completed = contract.completed /\ d.id = contract.id
      /\ d.member = contract.member /\ d.migrating = contract.migrating
      /\ d.joins = contract.joins /\ d.phase # "Running"
      /\ d \in StateType
  BY <1>1, <1>2 DEF StartInstance, StateType
<1>4. Shape(d)
  BY <1>1, <1>3 DEF Shape
<1>5. /\ next_domain_id' = next_domain_id /\ previously_cancelled' = previously_cancelled
      /\ instance' \in Nat
  BY <1>1 DEF StartInstance
<1> QED BY <1>2, <1>3, <1>4, <1>5, QuietMove DEF KeysInvariant, ChainInv

\* A channel for the current instance is opened.
LEMMA OpenChannelKeeps ==
  ASSUME KeysInvariant, NodeUnchanged, OpenChannel
  PROVE  KeysInvariant' /\ Quiet(contract, contract')
<1>1. contract \in StateType /\ Shape(contract) /\ instance \in Nat /\ channels \subseteq ChannelType
  BY DEF KeysInvariant, ChainInv
<1>2. [kind |-> contract.phase, id |-> contract.id, instance |-> instance] \in ChannelType
  BY <1>1 DEF OpenChannel, Shape, StateType, ChannelType
<1>3. channels' \subseteq ChannelType /\ contract' = contract /\ instance' = instance
      /\ next_domain_id' = next_domain_id /\ previously_cancelled' = previously_cancelled
  BY <1>1, <1>2 DEF OpenChannel
<1> QED BY <1>1, <1>3, QuietMove DEF KeysInvariant, ChainInv

\* An instance times out or is aborted.
LEMMA FailInstanceKeeps ==
  ASSUME KeysInvariant, NodeUnchanged, FailInstance, UNCHANGED channels
  PROVE  KeysInvariant' /\ Quiet(contract, contract')
<1>1. contract \in StateType /\ Shape(contract)
  BY DEF KeysInvariant, ChainInv
<1>2. PICK d : d = contract'
  OBVIOUS
<1>3. /\ d.phase = contract.phase /\ d.keyset = contract.keyset
      /\ d.completed = contract.completed /\ d.id.domain_id = contract.id.domain_id
      /\ d.id.epoch_id = contract.id.epoch_id
      /\ d.member = contract.member /\ d.migrating = contract.migrating
      /\ d.joins = contract.joins /\ ~d.started
      /\ d \in StateType
  <2>1. contract.id \in IdType
    BY <1>1 DEF StateType
  <2>2. PICK i : i = [contract.id EXCEPT !.attempt_id = @ + 1]
    OBVIOUS
  <2>0. i \in IdType /\ i.domain_id = contract.id.domain_id /\ i.epoch_id = contract.id.epoch_id
    BY <2>1, <2>2 DEF IdType
  <2>3. d = [contract EXCEPT !.started = FALSE, !.id = i]
    BY <1>1, <1>2, <2>2 DEF FailInstance, StateType
  <2>4. d \in StateType
    BY <1>1, <2>0, <2>3 DEF StateType
  <2> QED BY <1>1, <2>0, <2>3, <2>4 DEF StateType
<1>4. Shape(d)
  BY <1>1, <1>3 DEF Shape
<1>5. /\ next_domain_id' = next_domain_id /\ previously_cancelled' = previously_cancelled
      /\ instance' = instance
  BY DEF FailInstance
<1> QED BY <1>2, <1>3, <1>4, <1>5, QuietMove DEF KeysInvariant, ChainInv

\* The state after BecomeRunning.
LEMMA BecomesRunning ==
  ASSUME contract \in StateType, NEW keyset \in KeysetType, NEW member \in BOOLEAN,
         BecomeRunning(keyset, member)
  PROVE  /\ contract' \in StateType
         /\ contract'.phase = "Running" /\ contract'.keyset = keyset
         /\ contract'.member = member /\ contract'.migrating = contract.migrating
         /\ ~contract'.joins /\ ~contract'.started /\ contract'.completed = <<>>
         /\ contract'.id = KeyEventId(NoEpoch, 0, 0)
<1>1. PICK i \in IdType : i = KeyEventId(NoEpoch, 0, 0)
  BY IdFields, NoEpoch \in Int, 0 \in Nat DEF NoEpoch
<1>2. PICK d : d = contract'
  OBVIOUS
<1>3. PICK f \in BOOLEAN : f = FALSE
  OBVIOUS
<1>4. PICK p \in {"Running", "Initializing", "Resharing"} : p = "Running"
  OBVIOUS
<1>5. PICK q \in Seq(KeyType) : q = <<>>
  BY NoKeys
<1>6. d = Updated(contract, p, keyset, q, i, f, member, f)
  BY <1>1, <1>2, <1>3, <1>4, <1>5 DEF BecomeRunning, Updated
<1>7. /\ d \in StateType
      /\ d.phase = p /\ d.keyset = keyset /\ d.completed = q /\ d.id = i
      /\ d.started = f /\ d.member = member /\ d.joins = f
      /\ d.migrating = contract.migrating
  BY <1>6, UpdatedState
<1> QED BY <1>1, <1>2, <1>3, <1>4, <1>5, <1>7

\* vote_cancel_keygen, vote_cancel_resharing: the keyset and its epoch stay.
LEMMA CancelKeeps ==
  ASSUME KeysInvariant, NodeUnchanged, CancelKeyEvent, UNCHANGED channels
  PROVE  KeysInvariant' /\ Quiet(contract, contract')
<1>1. contract \in StateType /\ Shape(contract)
  BY DEF KeysInvariant, ChainInv
<1>2. PICK d : d = contract'
  OBVIOUS
<1>3. /\ d.phase = "Running" /\ d.keyset = contract.keyset
      /\ d.member = contract.member /\ d.migrating = contract.migrating
      /\ ~d.joins /\ ~d.started
      /\ d \in StateType
  BY <1>1, <1>2, BecomesRunning, StateFields DEF CancelKeyEvent, StateType
<1>4. Shape(d)
  BY <1>1, <1>3 DEF Shape
<1>5. /\ next_domain_id' = next_domain_id /\ instance' = instance
      /\ previously_cancelled' \in Int
      /\ previously_cancelled' = NoEpoch \/ contract.keyset.epoch_id < previously_cancelled'
  BY <1>1, StateFields DEF CancelKeyEvent, KeysInvariant, ChainInv, Shape
<1> QED BY <1>2, <1>3, <1>4, <1>5, QuietMove DEF KeysInvariant, ChainInv

\* The vote of the node arrives, late or in time.
LEMMA ReceiveVoteKeeps ==
  ASSUME KeysInvariant, NodeUnchanged, NEW tx, ReceiveVote(tx), UNCHANGED channels
  PROVE  KeysInvariant' /\ Quiet(contract, contract')
<1>1. contract' = contract /\ instance' = instance
      /\ next_domain_id' = next_domain_id /\ previously_cancelled' = previously_cancelled
  BY DEF ReceiveVote
<1> QED BY <1>1, QuietMove DEF KeysInvariant, ChainInv

\* conclude_node_migration arrives.
LEMMA ReceiveConcludeKeeps ==
  ASSUME KeysInvariant, NodeUnchanged, NEW tx, ReceiveConclude(tx), UNCHANGED channels
  PROVE  KeysInvariant'
<1>1. contract \in StateType /\ Shape(contract)
  BY DEF KeysInvariant, ChainInv
<1>2. next_domain_id' = next_domain_id /\ previously_cancelled' = previously_cancelled
      /\ instance' = instance
  BY DEF ReceiveConclude
<1>3. CASE contract' = contract
  BY <1>2, <1>3, QuietMove DEF KeysInvariant, ChainInv
<1>4. CASE /\ contract.phase = "Running" /\ contract.migrating
           /\ contract' = [contract EXCEPT !.migrating = FALSE, !.member = TRUE]
  <2>1. PICK d : d = contract'
    OBVIOUS
  <2>2. /\ d.phase = "Running" /\ d.keyset = contract.keyset
        /\ d.completed = contract.completed
        /\ d.member /\ ~d.migrating /\ d.joins = contract.joins /\ d.started = contract.started
        /\ d \in StateType
    BY <1>1, <1>4, <2>1 DEF StateType
  <2>3. Shape(d)
    BY <1>1, <1>4, <2>2 DEF Shape
  <2>4. /\ Knows(d, view, ran, next_domain_id)
        /\ \A s : Certifiable(s, contract) => Certifiable(s, d)
    BY <1>4, <2>2, <2>3, InvariantKnows, ConcludeStep
  <2>5. ChainInv'
    BY <1>2, <2>1, <2>2, <2>4 DEF ChainInv, Knows, KeysInvariant
  <2> QED BY <1>2, <2>1, <2>4, <2>5, ContractMoves
<1> QED BY <1>3, <1>4 DEF ReceiveConclude

\* The last vote arrives: the key that is certified is that of the run voted for.
LEMMA CompleteKeyKeeps ==
  ASSUME KeysInvariant, NodeUnchanged, CompleteKey, UNCHANGED channels
  PROVE  KeysInvariant' /\ Completes(contract, contract', instance)
<1>1. contract \in StateType /\ Shape(contract) /\ instance \in Nat
  BY DEF KeysInvariant, ChainInv
<1>2. contract.started /\ (Needed(contract) => <<contract.id, instance>> \in ran)
  BY DEF CompleteKey, MayComplete
<1>3. contract.phase = "Initializing" \/ contract.phase = "Resharing"
  BY <1>1, <1>2 DEF Shape, StateType
<1> DEFINE keys == contract.keyset.keys
           i == Len(contract.completed) + 1
           generating == contract.phase = "Initializing"
           new == [domain_id |-> contract.id.domain_id, attempt |-> contract.id.attempt_id,
                   key |-> IF generating THEN instance ELSE keys[i].key, instance |-> instance]
<1>4. contract.phase = "Resharing" => i \in DOMAIN keys /\ i + 1 \in Nat
  BY <1>1, StateFields DEF Shape
<1>5. ~generating => keys[i].key \in Nat
  BY <1>1, <1>3, <1>4, KeyAt, StateFields
<1>6. PICK k \in KeyType : k = new
  <2>1. PICK x \in Nat : x = IF generating THEN instance ELSE keys[i].key
    BY <1>1, <1>5
  <2>2. new = [domain_id |-> contract.id.domain_id, attempt |-> contract.id.attempt_id,
               key |-> x, instance |-> instance]
    BY <2>1
  <2>3. new \in KeyType
    BY <1>1, <2>2, StateFields DEF KeyType
  <2> QED BY <2>3
<1>7. /\ k.domain_id = contract.id.domain_id /\ k.attempt = contract.id.attempt_id
      /\ k.instance = instance /\ k.key = IF generating THEN instance ELSE keys[i].key
  BY <1>6
<1>8. /\ next_domain_id' = next_domain_id /\ instance' = instance
  BY DEF CompleteKey
<1>9. PICK q \in Seq(KeyType) : q = Append(contract.completed, k)
  <2>1. contract.completed \in Seq(KeyType)
    BY <1>1, StateFields
  <2>2. Append(contract.completed, k) \in Seq(KeyType)
    BY <2>1
  <2> QED BY <2>2
<1>10. Len(q) = i
  BY <1>1, <1>9, StateFields
<1>11. IF generating \/ Len(q) = Len(keys)
       THEN /\ BecomeRunning([epoch_id |-> contract.id.epoch_id, keys |-> q], Needed(contract))
            /\ previously_cancelled' = NoEpoch
       ELSE /\ contract' = [contract EXCEPT !.completed = q, !.started = FALSE,
                 !.id = KeyEventId(contract.id.epoch_id, keys[i + 1].domain_id, 0)]
            /\ UNCHANGED previously_cancelled
  BY <1>6, <1>9 DEF CompleteKey
<1>12. PICK d : d = contract'
  OBVIOUS
<1>13. Knows(contract, view, ran, next_domain_id)
  BY InvariantKnows
<1> HIDE DEF keys, i, generating, new
<1>14. CASE generating \/ Len(q) = Len(keys)
  <2>1. [epoch_id |-> contract.id.epoch_id, keys |-> q] \in KeysetType
    BY <1>1, StateFields DEF KeysetType
  <2>2. Needed(contract) \in BOOLEAN
    BY <1>1 DEF Needed, StateType
  <2>3. /\ d \in StateType /\ d.phase = "Running"
        /\ d.keyset = [epoch_id |-> contract.id.epoch_id, keys |-> q]
        /\ d.member = Needed(contract) /\ d.migrating = contract.migrating
        /\ ~d.joins /\ ~d.started /\ d.completed = <<>>
        /\ d.id = KeyEventId(NoEpoch, 0, 0)
    BY <1>1, <1>11, <1>12, <1>14, <2>1, <2>2, BecomesRunning
  <2>4. /\ Shape(d) /\ Knows(d, view, ran, next_domain_id)
        /\ \A s : <<s.key_id, s.instance>> \in ran /\ Certifiable(s, contract) => Certifiable(s, d)
    <3>1. CASE generating
      <4>1. contract.phase = "Initializing" /\ contract.completed = keys
        BY <1>1, <3>1 DEF Shape, generating, keys
      <4>2. Needed(contract) = contract.member
        BY <4>1 DEF Needed
      <4>3. Shape(d)
        <5>1. Ascends(q)
          <6>1. /\ keys \in Seq(KeyType) /\ DOMAIN keys = 1 .. Len(keys) /\ Len(keys) \in Nat
                /\ \A j \in DOMAIN keys : keys[j].domain_id < k.domain_id
                /\ Ascends(keys)
            BY <1>1, <1>7, <4>1, StateFields DEF Shape, keys
          <6>2. /\ DOMAIN q = 1 .. Len(keys) + 1 /\ q[Len(keys) + 1] = k
                /\ \A j \in DOMAIN keys : q[j] = keys[j]
            BY <6>1, <4>1, <1>9
          <6>3. \A j \in DOMAIN q : j \in DOMAIN keys \/ j = Len(keys) + 1
            BY <6>1, <6>2
          <6>4. ASSUME NEW a \in DOMAIN q, NEW b \in DOMAIN q, a < b
                PROVE  q[a].domain_id < q[b].domain_id
            <7>1. a \in DOMAIN keys
              BY <6>1, <6>2, <6>4
            <7> QED BY <6>1, <6>2, <6>3, <6>4, <7>1 DEF Ascends
          <6> QED BY <6>4 DEF Ascends
        <5>2. contract.id.epoch_id \in Nat
          BY <1>1, <4>1 DEF Shape
        <5>3. contract.migrating => ~contract.member
          BY <1>1 DEF Shape
        <5> QED BY <2>3, <4>2, <5>1, <5>2, <5>3 DEF Shape
      <4>4. q = Append(contract.keyset.keys, k)
        BY <1>9, <4>1 DEF keys
      <4>5. k.key = k.instance
        BY <1>7, <3>1
      <4>6. contract.member => <<contract.id, k.instance>> \in ran
        BY <1>2, <1>7, <4>2
      <4>7. d.keyset = [epoch_id |-> contract.id.epoch_id, keys |-> Append(contract.keyset.keys, k)]
        BY <2>3, <4>4
      <4> QED BY <1>7, <1>13, <2>3, <4>1, <4>2, <4>3, <4>5, <4>6, <4>7, GeneratedStep
    <3>2. CASE ~generating
      <4>1. contract.phase = "Resharing" /\ Needed(contract) = contract.joins
        BY <1>3, <3>2 DEF generating, Needed
      <4>2. k.key = contract.keyset.keys[Len(contract.completed) + 1].key
        BY <1>7, <3>2 DEF keys, i
      <4>3. Len(contract.completed) + 1 = Len(contract.keyset.keys)
        BY <1>10, <1>14, <3>2 DEF i, keys
      <4>4. contract.joins => <<contract.id, k.instance>> \in ran
        BY <1>2, <1>7, <4>1
      <4>5. d.keyset = [epoch_id |-> contract.id.epoch_id, keys |-> Append(contract.completed, k)]
        BY <2>3, <1>9
      <4> QED BY <1>7, <1>13, <2>3, <4>1, <4>2, <4>3, <4>4, <4>5, ResharingEnds
    <3> QED BY <3>1, <3>2
  <2>5. ChainInv'
    <3>1. previously_cancelled' = NoEpoch /\ NoEpoch \in Int
      BY <1>11, <1>14 DEF NoEpoch
    <3> QED BY <1>8, <1>12, <2>3, <2>4, <3>1 DEF ChainInv, Knows, KeysInvariant
  <2>6. Completes(contract, d, instance)
    <3>1. CASE generating
      <4>1. contract.phase = "Initializing" /\ contract.completed = contract.keyset.keys
        BY <1>1, <3>1 DEF Shape, generating
      <4>2. d.keyset = [epoch_id |-> contract.id.epoch_id, keys |-> Append(contract.keyset.keys, k)]
        BY <1>9, <2>3, <4>1
      <4>3. d.member = contract.member /\ k.key = instance
        BY <1>7, <2>3, <3>1, <4>1 DEF Needed
      <4> QED BY <1>7, <2>3, <4>1, <4>2, <4>3 DEF Completes
    <3>2. CASE ~generating
      <4>1. contract.phase = "Resharing" /\ d.member = contract.joins
        BY <1>3, <2>3, <3>2 DEF generating, Needed
      <4>2. d.keyset = [epoch_id |-> contract.id.epoch_id, keys |-> Append(contract.completed, k)]
        BY <1>9, <2>3
      <4>3. k.key = contract.keyset.keys[Len(contract.completed) + 1].key
        BY <1>7, <3>2 DEF keys, i
      <4>4. Len(contract.completed) + 1 = Len(contract.keyset.keys)
        BY <1>10, <1>14, <3>2 DEF i, keys
      <4> QED BY <1>7, <2>3, <4>1, <4>2, <4>3, <4>4 DEF Completes
    <3> QED BY <3>1, <3>2
  <2> QED BY <1>8, <1>12, <2>4, <2>5, <2>6, ContractMoves
<1>15. CASE ~generating /\ Len(q) # Len(keys)
  <2>1. contract.phase = "Resharing" /\ Needed(contract) = contract.joins
    BY <1>3, <1>15 DEF generating, Needed
  <2>2. i \in DOMAIN keys /\ i + 1 \in DOMAIN keys
    BY <1>1, <1>4, <1>10, <1>15, <2>1, StateFields DEF keys
  <2>3. keys[i + 1].domain_id \in Nat
    BY <1>1, <2>2, KeyAt, StateFields DEF keys
  <2>4. PICK id \in IdType : id = KeyEventId(contract.id.epoch_id, keys[i + 1].domain_id, 0)
    BY <1>1, <2>3, IdFields, StateFields, 0 \in Nat
  <2>5. id.epoch_id = contract.id.epoch_id /\ id.domain_id = keys[i + 1].domain_id
    BY <2>4 DEF KeyEventId
  <2>6. PICK f \in BOOLEAN : f = FALSE
    OBVIOUS
  <2>7. d = Updated(contract, contract.phase, contract.keyset, q, id, f, contract.member, contract.joins)
    BY <1>1, <1>11, <1>12, <1>15, <2>4, <2>6 DEF Updated, StateType
  <2>8. /\ contract.phase \in {"Running", "Initializing", "Resharing"}
        /\ contract.keyset \in KeysetType /\ contract.member \in BOOLEAN
        /\ contract.joins \in BOOLEAN
    BY <1>1 DEF StateType
  <2>9. /\ d \in StateType
        /\ d.phase = contract.phase /\ d.keyset = contract.keyset /\ d.completed = q /\ d.id = id
        /\ d.started = f /\ d.member = contract.member /\ d.joins = contract.joins
        /\ d.migrating = contract.migrating
    BY <1>1, <2>7, <2>8, UpdatedState, SMTT(30)
  <2>10. Shape(d)
    <3>1. Len(q) < Len(keys) /\ Len(q) + 1 = i + 1
      BY <1>1, <1>10, <2>2, StateFields DEF keys
    <3>2. \A j \in DOMAIN q : SameKey(q[j], keys[j])
      <4>1. /\ DOMAIN q = 1 .. i /\ q[i] = k
            /\ \A j \in DOMAIN contract.completed : q[j] = contract.completed[j]
            /\ \A j \in DOMAIN q : j \in DOMAIN contract.completed \/ j = i
        BY <1>1, <1>9, StateFields DEF i
      <4>2. SameKey(k, keys[i])
        BY <1>1, <1>7, <1>15, <2>1 DEF Shape, SameKey, keys, i
      <4> QED BY <1>1, <2>1, <4>1, <4>2 DEF Shape, keys
    <3> QED BY <1>1, <2>1, <2>5, <2>6, <2>9, <3>1, <3>2 DEF Shape, keys
  <2>11. contract.joins => <<contract.id, k.instance>> \in ran
    BY <1>2, <1>7, <2>1
  <2>12. /\ Knows(d, view, ran, next_domain_id)
         /\ \A s : Certifiable(s, contract) => Certifiable(s, d)
    <3>1. /\ d \in StateType /\ d.phase = "Resharing" /\ d.keyset = contract.keyset
          /\ d.completed = Append(contract.completed, k)
          /\ d.id.epoch_id = contract.id.epoch_id /\ d.member = contract.member
          /\ d.migrating = contract.migrating /\ d.joins = contract.joins
      BY <1>9, <2>1, <2>5, <2>9
    <3>2. /\ contract.phase = "Resharing" /\ k \in KeyType
          /\ k.domain_id = contract.id.domain_id /\ k.attempt = contract.id.attempt_id
      BY <1>7, <2>1
    <3> QED BY ONLY <1>13, <2>10, <2>11, <3>1, <3>2, ResharedStep, Zenon
  <2>13. ChainInv'
    <3>1. previously_cancelled' = previously_cancelled
      BY <1>11, <1>15
    <3> QED BY <1>8, <1>12, <2>9, <2>12, <3>1 DEF ChainInv, Knows, KeysInvariant
  <2>14. Completes(contract, d, instance)
    <3>1. k.key = contract.keyset.keys[Len(contract.completed) + 1].key
      BY <1>7, <1>15 DEF keys, i
    <3>2. \E j \in DOMAIN contract.keyset.keys : d.id.domain_id = contract.keyset.keys[j].domain_id
      BY <2>2, <2>5, <2>9 DEF keys
    <3>3. d.id.attempt_id = 0 /\ ~d.started
      BY <2>4, <2>6, <2>9 DEF KeyEventId
    <3> QED BY <1>7, <1>9, <2>1, <2>5, <2>9, <3>1, <3>2, <3>3 DEF Completes
  <2> QED BY <1>8, <1>12, <2>12, <2>13, <2>14, ContractMoves
<1> QED BY <1>14, <1>15

\* Every step of the contract preserves the invariant.
LEMMA ChainStepKeeps ==
  ASSUME KeysInvariant, ChainStep
  PROVE  KeysInvariant'
<1>1. NodeUnchanged /\ Chain
  BY DEF ChainStep, NodeUnchanged, nodeVars
<1>2. CASE /\ \/ AddDomain
              \/ \E joins \in BOOLEAN : BeginResharing(joins)
              \/ FailInstance \/ CompleteKey \/ CancelKeyEvent
           /\ UNCHANGED <<channels, txs>>
  BY <1>1, <1>2, AddDomainKeeps, BeginResharingKeeps, FailInstanceKeeps, CompleteKeyKeeps,
     CancelKeeps
<1>3. CASE StartInstance /\ UNCHANGED <<channels, txs>>
  BY <1>1, <1>3, StartInstanceKeeps
<1>4. CASE KeygenLeader \/ ResharingLeader
  BY <1>1, <1>4, OpenChannelKeeps DEF KeygenLeader, ResharingLeader
<1>5. CASE \E tx \in txs : (ReceiveVote(tx) \/ ReceiveConclude(tx)) /\ UNCHANGED channels
  BY <1>1, <1>5, ReceiveVoteKeeps, ReceiveConcludeKeeps
<1> QED BY <1>1, <1>2, <1>3, <1>4, <1>5 DEF Chain

(***************************************************************************)
(* The node's jobs begin and end.                                          *)
(***************************************************************************)
LEMMA FitsNothing ==
  ASSUME NEW s, NEW ks, ks.keys = <<>>
  PROVE  Fits(s, ks)
  BY DEF Fits

\* The view that the node has from now on.
ViewKeeps ==
  /\ ChainInv' /\ ViewInv' /\ RanInv'
  /\ StoredOf(permanent, view'.keyset)
  /\ Counted(view') => Certified(permanent, view'.keyset)
  /\ \A s : Certifiable(s, contract) /\ Fits(s, view.keyset) => Fits(s, view'.keyset)

\* A job that begins, or none, does nothing yet.
LEMMA JobBegins ==
  ASSUME KeysInvariant, UNCHANGED <<contract, ran, disk>>, ViewKeeps,
         job' \in JobType, onboarded' \in BOOLEAN,
         job'.kind \in {"None", "Onboarding"} \/ onboarded',
         JobFits(job', view', permanent'), job'.status # "failed",
         tasks' = {}, storing' \in StoringType, storing'.pc = "idle",
         \/ job'.kind = "None" /\ job'.keyset.keys = <<>>
         \/ job'.keyset = view'.keyset
  PROVE  KeysInvariant'
<1>1. permanent' = permanent /\ temporary' = temporary /\ permanent \in DataType
  BY DEF disk, KeysInvariant, PermanentInv
<1>2. JobInv'
  BY DEF JobInv
<1>3. TaskInv'
  BY DEF TaskInv
<1>4. TemporaryInv'
  <2>1. ASSUME NEW s, OwnShare(s, ran, contract, view, job)
        PROVE  OwnShare(s, ran', contract', view', job')
    <3>1. Certifiable(s, contract) /\ Fits(s, view'.keyset)
      BY <2>1 DEF OwnShare, ViewKeeps
    <3>2. Fits(s, job'.keyset)
      BY <3>1, FitsNothing
    <3> QED BY <2>1, <3>1, <3>2 DEF OwnShare
  <2> QED BY <1>1, <2>1 DEF KeysInvariant, TemporaryInv, FileFits
<1>5. PermanentInv'
  BY <1>1 DEF PermanentInv, ViewKeeps
<1>6. StoringInv'
  BY DEF StoringInv, StoreFits
<1>7. PromotionSucceeds'
  BY DEF PromotionSucceeds
<1> QED BY <1>2, <1>3, <1>4, <1>5, <1>6, <1>7 DEF KeysInvariant, ViewKeeps

\* A step that leaves the contract, the view and the runs alone keeps what ties them.
LEMMA ViewStays ==
  ASSUME KeysInvariant, UNCHANGED <<chainVars, view, ran, channels, markers>>,
         view.migrating => ~onboarded'
  PROVE  ViewKeeps
<1>1. ChainInv'
  BY DEF chainVars, KeysInvariant, ChainInv
<1>2. ViewInv'
  BY DEF chainVars, KeysInvariant, ViewInv
<1>3. RanInv'
  BY DEF chainVars, KeysInvariant, RanInv
<1> QED BY <1>1, <1>2, <1>3 DEF ViewKeeps, KeysInvariant, PermanentInv

\* The node looks at the contract.
LEMMA ViewMoves ==
  ASSUME KeysInvariant, UNCHANGED <<chainVars, ran, channels, disk>>, view' = contract,
         onboarded' = onboarded \/ onboarded' = FALSE
  PROVE  ViewKeeps
<1>1. Knows(contract, view, ran, next_domain_id)
  BY InvariantKnows
<1>2. contract \in StateType /\ view \in StateType /\ contract.keyset \in KeysetType
      /\ view.keyset \in KeysetType
  BY <1>1, StateFields DEF Knows
<1>3. Grown(view.keyset, contract.keyset) /\ Grown(contract.keyset, contract.keyset)
  BY <1>1, <1>2, GrownReflexive DEF Knows, Lags
<1>4. ChainInv'
  BY DEF chainVars, KeysInvariant, ChainInv
<1>5. ViewInv'
  <2>1. Lags(contract, contract)
    BY <1>3 DEF Lags
  <2> QED BY <2>1, <1>1 DEF ViewInv, Knows, chainVars
<1>6. RanInv'
  <2>1. RunsMarked(ran, markers, contract)
    <3>1. \A x \in ran : x[1].epoch_id \in Int
      BY <1>1 DEF Knows, IdType
    <3> QED BY <1>2, <1>3, <3>1, StateFields DEF KeysInvariant, RanInv, RunsMarked, Grown
  <2>2. RunsSeen(ran, contract, contract)
    <3>1. SUFFICES ASSUME contract.phase = "Initializing", NEW x \in ran,
                          x[1].domain_id = contract.id.domain_id
                   PROVE  contract.member
      BY DEF RunsSeen
    <3>2. /\ view.phase = "Initializing" /\ view.id.domain_id = contract.id.domain_id
          /\ view.member
      BY <1>1, <3>1 DEF Knows, RunsSeen
    <3> QED BY <1>1, <3>1, <3>2 DEF Knows, Lags
  <2>3. NoOtherRun(ran, contract)
    <3>1. SUFFICES ASSUME Counted(contract), NEW i \in DOMAIN contract.keyset.keys, NEW x \in ran,
                          x[1] = IdOf(contract.keyset.epoch_id, contract.keyset.keys[i])
                   PROVE  x[2] = contract.keyset.keys[i].instance
      BY DEF NoOtherRun
    <3> DEFINE k == contract.keyset.keys[i]
    <3>2. Settled(k, ran, contract, view)
      BY <1>1, <3>1 DEF Knows, AllSettled
    <3>3. ~view.migrating
      BY <1>1 DEF Knows
    <3>4. CASE <<IdOf(contract.keyset.epoch_id, k), k.instance>> \in ran
      BY <1>1, <3>1, <3>4 DEF Knows, OneRun
    <3>5. CASE /\ view.keyset.epoch_id = contract.keyset.epoch_id
               /\ \E j \in DOMAIN view.keyset.keys : view.keyset.keys[j] = k
      <4>1. Counted(view)
        BY <1>1, <3>1, <3>5 DEF Knows, Lags
      <4> QED BY <3>1, <3>5, <4>1 DEF KeysInvariant, RanInv, NoOtherRun
    <3> QED BY <3>2, <3>3, <3>4, <3>5 DEF Settled
  <2>4. AllSettled(ran, contract, contract)
    BY <1>1 DEF Knows, AllSettled, Settled
  <2>5. contract.migrating => ran = {} /\ ~onboarded'
    BY <1>1 DEF Knows, Lags, KeysInvariant, RanInv
  <2> QED BY <1>1, <2>1, <2>2, <2>3, <2>4, <2>5 DEF RanInv, Knows, chainVars, disk
<1>7. permanent \in DataType /\ StoredOf(permanent, view.keyset)
      /\ (Counted(view) => Certified(permanent, view.keyset))
  BY DEF KeysInvariant, PermanentInv
<1>8. StoredOf(permanent, contract.keyset)
  BY <1>2, <1>3, <1>7, StoredOfGrown
<1>9. ASSUME Counted(contract)
      PROVE  Certified(permanent, contract.keyset)
  <2>1. CASE view.keyset.epoch_id = contract.keyset.epoch_id
    <3>1. Counted(view)
      BY <1>1, <1>9, <2>1 DEF Knows, Lags
    <3> QED BY <1>2, <1>3, <1>7, <2>1, <3>1, CertifiedGrown
  <2>2. CASE view.keyset.epoch_id # contract.keyset.epoch_id
    <3>1. permanent.epoch_id # contract.keyset.epoch_id
      BY <1>2, <1>3, <1>7, <2>2, StateFields DEF StoredOf, Grown, DataType
    <3> QED BY <3>1 DEF Certified
  <2> QED BY <2>1, <2>2
<1>10. \A s : Certifiable(s, contract) => Fits(s, contract.keyset)
  BY DEF Certifiable
<1> QED BY <1>4, <1>5, <1>6, <1>8, <1>9, <1>10 DEF ViewKeeps

\* Having no job fits every view.
LEMMA NoJobFits ==
  ASSUME NEW v \in StateType, Shape(v), NEW d
  PROVE  NoJob \in JobType /\ JobFits(NoJob, v, d) /\ NoJob.kind = "None"
         /\ NoJob.keyset.keys = <<>> /\ NoJob.status = "new"
<1>1. NoJob \in JobType
  BY DEF NoJob, JobType, KeysetType, NoEpoch
<1>2. /\ NoJob.keyset.epoch_id = NoEpoch /\ NoJob.keyset.keys = <<>> /\ NoJob.kind = "None"
      /\ NoJob.status = "new"
  BY DEF NoJob
<1>3. Grown(NoJob.keyset, v.keyset)
  BY <1>2, StateFields DEF Grown, NoEpoch, Shape
<1> QED BY <1>1, <1>2, <1>3 DEF JobFits, NoEpoch

\* The onboarding is over.
LEMMA OnboardingDoneKeeps ==
  ASSUME KeysInvariant, OnboardingDone, UNCHANGED <<chainVars, channels>>
  PROVE  KeysInvariant'
<1>1. /\ UNCHANGED <<view, job, tasks, ran, storageVars>> /\ onboarded' = TRUE
      /\ Needed(view)
  BY DEF OnboardingDone
<1>2. ~view.migrating
  BY <1>1 DEF KeysInvariant, ViewInv, Shape, Needed
<1>3. ViewKeeps
  BY <1>1, <1>2, ViewStays DEF storageVars, disk
<1>4. UNCHANGED <<contract, view, job, tasks, ran, temporary, permanent, storing, permanent_keys>>
  BY <1>1 DEF chainVars, storageVars, disk
<1>5. JobInv' /\ TaskInv' /\ TemporaryInv' /\ PermanentInv' /\ StoringInv' /\ PromotionSucceeds'
  BY <1>1, <1>4 DEF KeysInvariant, JobInv, TaskInv, TemporaryInv, PermanentInv, StoringInv,
     PromotionSucceeds, CanLoadKeyset, StoredPrefix, CanLoad, PromotedData, LoadKeyset
<1> QED BY <1>3, <1>5 DEF ViewKeeps, KeysInvariant

\* Without a job there is no task and no store under way.
LEMMA NothingGoesOn ==
  ASSUME KeysInvariant, job.kind = "None"
  PROVE  tasks = {} /\ storing.pc = "idle"
  BY DEF KeysInvariant, TaskInv, StoringInv, StoreFits

\* The state of the store between two calls.
LEMMA NotStoringIdle == NotStoring \in StoringType /\ NotStoring.pc = "idle"
<1>1. NoPermanent \in DataType
  BY DEF NoPermanent, NoEpoch, DataType
<1> QED BY <1>1 DEF NotStoring, StoringType

\* The onboarding job starts.
LEMMA StartOnboardingKeeps ==
  ASSUME KeysInvariant, StartOnboarding, UNCHANGED <<chainVars, channels>>
  PROVE  KeysInvariant'
<1>1. /\ UNCHANGED <<view, onboarded, tasks, ran, storageVars>>
      /\ job.kind = "None" /\ view.phase = "Running" /\ view.migrating
      /\ job' = [NoJob EXCEPT !.kind = "Onboarding", !.keyset = view.keyset]
  BY DEF StartOnboarding, OnboardingKeyset
<1>2. /\ view \in StateType /\ Shape(view) /\ view.keyset \in KeysetType
      /\ view.keyset.epoch_id \in Nat
  BY StateFields DEF KeysInvariant, ViewInv, Shape
<1>3. PICK j : j = job'
  OBVIOUS
<1>4. /\ j \in JobType /\ j.kind = "Onboarding" /\ j.keyset = view.keyset /\ j.status = "new"
  <2>1. NoJob \in JobType /\ NoJob.status = "new"
    BY <1>2, NoJobFits
  <2> QED BY <1>1, <1>2, <1>3, <2>1 DEF JobType, NoJob
<1>5. JobFits(j, view, permanent)
  BY <1>2, <1>4, GrownReflexive DEF JobFits, NoEpoch
<1>6. ViewKeeps
  BY <1>1, ViewStays DEF storageVars, disk, KeysInvariant, RanInv
<1>7. tasks' = {} /\ storing'.pc = "idle" /\ storing' \in StoringType /\ onboarded' \in BOOLEAN
      /\ permanent' = permanent /\ UNCHANGED <<contract, ran, disk>>
  BY <1>1, NothingGoesOn DEF storageVars, disk, chainVars, KeysInvariant, StoringInv, JobInv
<1>8. job' \in JobType /\ JobFits(job', view', permanent') /\ job'.kind = "Onboarding"
      /\ job'.keyset = view'.keyset /\ job'.status = "new"
  BY <1>1, <1>3, <1>4, <1>5, <1>7
<1> QED BY <1>6, <1>7, <1>8, JobBegins

\* A job ends with its tasks and its store: the disk is left as it is.
LEMMA JobEnds ==
  ASSUME KeysInvariant, UNCHANGED <<contract, ran, disk>>, ViewKeeps, job' = NoJob,
         onboarded' \in BOOLEAN, tasks' = {}, storing' \in StoringType, storing'.pc = "idle"
  PROVE  KeysInvariant'
<1>1. view' \in StateType /\ Shape(view')
  BY DEF ViewKeeps, ViewInv
<1>2. PICK v \in StateType : v = view' /\ Shape(v)
  BY <1>1
<1>3. NoJob \in JobType /\ JobFits(NoJob, v, permanent') /\ NoJob.kind = "None"
      /\ NoJob.keyset.keys = <<>> /\ NoJob.status = "new"
  BY <1>2, NoJobFits
<1>4. job' \in JobType /\ JobFits(job', view', permanent') /\ job'.kind = "None"
      /\ job'.keyset.keys = <<>> /\ job'.status = "new"
  BY <1>2, <1>3
<1> QED BY <1>4, JobBegins

\* The onboarding is cancelled.
LEMMA CancelOnboardingKeeps ==
  ASSUME KeysInvariant, CancelOnboarding, UNCHANGED <<chainVars, channels>>
  PROVE  KeysInvariant'
<1>1. /\ UNCHANGED <<view, onboarded, tasks, ran, storageVars>>
      /\ job.kind = "Onboarding" /\ storing.pc = "idle" /\ job' = NoJob
  BY DEF CancelOnboarding
<1>2. ViewKeeps
  BY <1>1, ViewStays DEF storageVars, disk, KeysInvariant, RanInv
<1>3. tasks' = {} /\ storing'.pc = "idle" /\ storing' \in StoringType /\ onboarded' \in BOOLEAN
      /\ UNCHANGED <<contract, ran, disk>>
  BY <1>1 DEF storageVars, disk, chainVars, KeysInvariant, StoringInv, JobInv, TaskInv
<1> QED BY <1>1, <1>2, <1>3, JobEnds

\* The coordinator starts the job for the state it sees.
LEMMA StartJobKeeps ==
  ASSUME KeysInvariant, StartJob, UNCHANGED <<chainVars, channels>>
  PROVE  KeysInvariant'
<1>1. /\ UNCHANGED <<view, onboarded, tasks, ran, storageVars>>
      /\ job.kind = "None" /\ onboarded
  BY DEF StartJob
<1>2. /\ view \in StateType /\ Shape(view) /\ view.keyset \in KeysetType
      /\ view.keyset.epoch_id \in Nat
  BY StateFields DEF KeysInvariant, ViewInv, Shape
<1>3. PICK s \in {"new", "ready", "serving", "concluded", "failed", "halted"} :
        /\ s = IF view.phase = "Initializing" THEN InitializationStatus(view)
               ELSE IF Needed(view) THEN "new" ELSE "halted"
        /\ s # "failed"
        /\ s \in {"ready", "serving"} => view.phase = "Initializing"
        /\ view.phase # "Resharing" /\ ~view.member => s = "halted"
  BY DEF InitializationStatus, Needed
<1>4. PICK j : j = job'
  OBVIOUS
<1>5. j = [kind |-> view.phase, epoch_id |-> view.id.epoch_id, keyset |-> view.keyset,
           status |-> s, member |-> view.member]
  BY <1>3, <1>4 DEF StartJob
<1>6. /\ j.kind = view.phase /\ j.epoch_id = view.id.epoch_id /\ j.keyset = view.keyset
      /\ j.status = s /\ j.member = view.member
      /\ j \in JobType
  BY <1>2, <1>5, StateFields DEF JobType, StateType
<1>7. JobFits(j, view, permanent)
  BY <1>2, <1>3, <1>6, GrownReflexive DEF JobFits, NoEpoch, StateType
<1>8. ViewKeeps
  BY <1>1, ViewStays DEF storageVars, disk, KeysInvariant, RanInv
<1>9. tasks' = {} /\ storing'.pc = "idle" /\ storing' \in StoringType /\ onboarded' \in BOOLEAN
      /\ onboarded' /\ permanent' = permanent /\ UNCHANGED <<contract, ran, disk>>
  BY <1>1, NothingGoesOn DEF storageVars, disk, chainVars, KeysInvariant, StoringInv, JobInv
<1>10. job' \in JobType /\ JobFits(job', view', permanent')
      /\ job'.keyset = view'.keyset /\ job'.status # "failed"
  BY <1>1, <1>3, <1>4, <1>6, <1>7, <1>9
<1> QED BY <1>8, <1>9, <1>10, JobBegins

\* The process dies: only the disk stays.
LEMMA CrashKeeps ==
  ASSUME KeysInvariant, Crash
  PROVE  KeysInvariant'
<1>1. /\ UNCHANGED <<chainVars, channels, ran, disk, contract>> /\ view' = contract
      /\ onboarded' = FALSE /\ job' = NoJob /\ tasks' = {} /\ storing' = NotStoring
  BY DEF Crash, DropStore, chainVars
<1>2. ViewKeeps
  BY <1>1, ViewMoves
<1>3. storing' \in StoringType /\ storing'.pc = "idle"
  BY <1>1, NotStoringIdle
<1> QED BY <1>1, <1>2, <1>3, JobEnds

\* The node sees a newer state of the contract, perhaps after missing several.
LEMMA SeeContractKeeps ==
  ASSUME KeysInvariant, SeeContract, UNCHANGED <<chainVars, channels>>
  PROVE  KeysInvariant'
<1>1. view' = contract /\ UNCHANGED <<onboarded, ran, contract>>
  BY DEF SeeContract, MonitorContractState, chainVars
<1>2. CASE StopJob(contract)
  <2>1. job' = NoJob /\ tasks' = {} /\ storing' = NotStoring /\ UNCHANGED disk
    BY <1>2 DEF SeeContract, DropStore
  <2>2. ViewKeeps
    BY <1>1, <2>1, ViewMoves
  <2>3. storing' \in StoringType /\ storing'.pc = "idle" /\ onboarded' \in BOOLEAN
    BY <1>1, <2>1, NotStoringIdle DEF KeysInvariant, JobInv
  <2> QED BY <1>1, <2>1, <2>2, <2>3, JobEnds
<1>3. CASE ~StopJob(contract)
  <2>1. UNCHANGED <<job, tasks, storageVars>>
    BY <1>3 DEF SeeContract
  <2>2. UNCHANGED <<markers, temporary, permanent, permanent_keys, storing, disk>>
    BY <2>1 DEF storageVars, disk
  <2>3. ViewKeeps
    BY <1>1, <2>2, ViewMoves
  <2>4. Knows(contract, view, ran, next_domain_id)
    BY InvariantKnows
  <2>5. /\ contract \in StateType /\ view \in StateType /\ contract.keyset \in KeysetType
        /\ view.keyset \in KeysetType /\ job \in JobType /\ job.keyset \in KeysetType
        /\ Grown(view.keyset, contract.keyset) /\ Grown(job.keyset, view.keyset)
        /\ view.keyset.epoch_id \in Nat /\ contract.keyset.epoch_id \in Nat
        /\ job.keyset.epoch_id \in Int
    BY <2>4, StateFields DEF Knows, Lags, KeysInvariant, JobInv, JobFits, JobType, KeysetType, Shape
  <2>6. JobFits(job, contract, permanent)
    <3>1. Grown(job.keyset, contract.keyset)
      BY <2>5, GrownTransitive
    <3>2. ASSUME job.kind = "Running"
          PROVE  /\ contract.phase = "Running" /\ job.keyset.epoch_id = contract.keyset.epoch_id
                 /\ job.member = contract.member
                 /\ job.member => job.keyset = contract.keyset
      <4>1. /\ contract.phase = "Running" /\ contract.keyset.epoch_id = job.keyset.epoch_id
            /\ contract.member = job.member
        BY <1>3, <3>2 DEF StopJob
      <4>2. /\ view.phase = "Running" /\ job.keyset.epoch_id = view.keyset.epoch_id
            /\ job.member = view.member /\ (job.member => job.keyset = view.keyset)
        BY <3>2 DEF KeysInvariant, JobInv, JobFits
      <4>3. job.member => view.keyset = contract.keyset
        BY <4>1, <4>2, <2>4 DEF Knows, Lags
      <4> QED BY <4>1, <4>2, <4>3
    <3>3. ASSUME job.kind \in {"Initializing", "Resharing"}
          PROVE  contract.phase = job.kind /\ contract.id.epoch_id = job.epoch_id
      BY <1>3, <3>3 DEF StopJob
    <3>4. ASSUME job.kind = "Initializing", view.member
          PROVE  contract.member
      <4>1. view.phase = "Initializing" /\ view.id.epoch_id = job.epoch_id
        BY <3>4 DEF KeysInvariant, JobInv, JobFits
      <4>2. view.keyset.epoch_id = contract.keyset.epoch_id
        BY <2>4, <3>3, <3>4, <4>1 DEF Knows, Shape
      <4> QED BY <2>4, <3>4, <4>2 DEF Knows, Lags
    <3> QED BY <3>1, <3>2, <3>3, <3>4 DEF KeysInvariant, JobInv, JobFits
  <2>7. JobInv'
    BY <1>1, <2>1, <2>2, <2>6 DEF KeysInvariant, JobInv
  <2>8. \A s : OwnShare(s, ran, contract, view, job) => OwnShare(s, ran', contract', view', job')
    BY <1>1, <2>1 DEF OwnShare, Certifiable
  <2>9. TaskInv'
    BY <1>1, <2>1, <2>8 DEF KeysInvariant, TaskInv, TaskFits
  <2>10. TemporaryInv'
    BY <1>1, <2>2, <2>8 DEF KeysInvariant, TemporaryInv, FileFits
  <2>11. PermanentInv'
    BY <1>1, <2>1, <2>2, <2>3 DEF KeysInvariant, PermanentInv, ViewKeeps
  <2>12. StoringInv'
    <3>1. ASSUME storing.pc # "idle", Counted(contract)
          PROVE  Certified(storing.data, contract.keyset)
      <4>1. /\ storing.data \in DataType /\ storing.data.epoch_id = job.keyset.epoch_id
            /\ StoredOf(storing.data, job.keyset)
            /\ Counted(view) => Certified(storing.data, view.keyset)
        BY <3>1 DEF KeysInvariant, StoringInv, StoringType, StoreFits
      <4>2. CASE view.keyset.epoch_id = contract.keyset.epoch_id
        <5>1. Counted(view)
          BY <2>4, <3>1, <4>2 DEF Knows, Lags
        <5>2. StoredOf(storing.data, view.keyset)
          BY <2>5, <4>1, StoredOfGrown
        <5> QED BY <2>5, <4>1, <4>2, <5>1, <5>2, CertifiedGrown
      <4>3. CASE view.keyset.epoch_id # contract.keyset.epoch_id
        <5>1. storing.data.epoch_id # contract.keyset.epoch_id
          BY <2>5, <4>1, <4>3 DEF Grown
        <5> QED BY <5>1 DEF Certified
      <4> QED BY <4>2, <4>3
    <3> QED BY <1>1, <2>1, <2>2, <3>1 DEF KeysInvariant, StoringInv, StoreFits
  <2>13. PromotionSucceeds'
    BY <2>1, <2>2 DEF KeysInvariant, PromotionSucceeds, CanLoadKeyset, StoredPrefix, CanLoad,
       PromotedData, LoadKeyset
  <2> QED BY <2>3, <2>7, <2>9, <2>10, <2>11, <2>12, <2>13 DEF ViewKeeps, KeysInvariant
<1> QED BY <1>2, <1>3

(***************************************************************************)
(* Jobs promote and import shares, and serve.                              *)
(***************************************************************************)

\* The statuses a job can be set to.
Statuses == {"new", "ready", "serving", "concluded", "failed", "halted"}

\* A job moves on without writing to the disk.
LEMMA StatusChanges ==
  ASSUME KeysInvariant, UNCHANGED <<chainVars, channels, view, onboarded, tasks, ran, disk>>,
         NEW s \in Statuses, Status(s), tasks = {},
         storing' \in StoringType, storing'.pc = "idle",
         job.kind = "Running" => s \in {"new", "failed", "halted"} \/
           /\ job.member
           /\ job.keyset.keys # <<>> => /\ permanent.epoch_id = job.keyset.epoch_id
                                        /\ Len(permanent.keyshares) = Len(job.keyset.keys),
         job.kind = "Running" /\ ~job.member => s = "halted",
         job.kind = "Initializing" => s = "halted" \/ view.member,
         s = "failed" => \/ ~CanLoadKeyset(job.keyset)
                         \/ Identifier(PromotedData(job.keyset)) \in DOMAIN permanent_keys
  PROVE  KeysInvariant'
<1>1. job \in JobType /\ onboarded \in BOOLEAN
  BY DEF KeysInvariant, JobInv
<1>2. PICK j : j = job'
  OBVIOUS
<1>3. /\ j.kind = job.kind /\ j.epoch_id = job.epoch_id /\ j.keyset = job.keyset
      /\ j.member = job.member /\ j.status = s
      /\ j \in JobType
  BY <1>1, <1>2 DEF Status, JobType, Statuses
<1>4. ViewKeeps
  BY ViewStays DEF disk, KeysInvariant, RanInv
<1>5. UNCHANGED <<contract, view, onboarded, tasks, ran, markers, temporary, permanent, permanent_keys>>
  BY DEF chainVars, disk
<1>6. JobInv'
  <2>1. JobFits(j, view, permanent)
    BY <1>3 DEF JobFits, KeysInvariant, JobInv
  <2> QED BY <1>2, <1>3, <1>5, <2>1 DEF JobInv, KeysInvariant
<1>7. TaskInv'
  BY <1>5 DEF TaskInv
<1>8. TemporaryInv'
  <2>1. \A x : OwnShare(x, ran, contract, view, job) => OwnShare(x, ran, contract, view, j)
    BY <1>3 DEF OwnShare
  <2> QED BY <1>2, <1>5, <2>1 DEF KeysInvariant, TemporaryInv, FileFits
<1>9. PermanentInv'
  BY <1>2, <1>3, <1>5 DEF KeysInvariant, PermanentInv
<1>10. StoringInv'
  BY DEF StoringInv, StoreFits
<1>11. PromotionSucceeds'
  BY <1>2, <1>3, <1>5 DEF PromotionSucceeds, CanLoadKeyset, StoredPrefix, CanLoad, PromotedData,
     LoadKeyset, Identifier
<1> QED BY <1>4, <1>6, <1>7, <1>8, <1>9, <1>10, <1>11 DEF ViewKeeps, KeysInvariant

\* The Running job has its keyset and begins to serve.
LEMMA BeginServingKeeps ==
  ASSUME KeysInvariant, BeginServing, UNCHANGED <<chainVars, channels>>
  PROVE  KeysInvariant'
<1>1. /\ job.kind = "Running" /\ job.status = "ready"
      /\ UNCHANGED <<view, onboarded, tasks, ran, storageVars>>
  BY DEF BeginServing
<1>2. PICK s \in Statuses : /\ s = IF job.keyset.keys = <<>> THEN "halted" ELSE "serving"
                            /\ Status(s) /\ s # "failed"
  BY DEF BeginServing, Statuses
<1>3. tasks = {} /\ storing.pc = "idle" /\ storing' = storing /\ storing \in StoringType
      /\ UNCHANGED disk
  BY <1>1 DEF KeysInvariant, TaskInv, StoringInv, StoreFits, storageVars
<1>4. /\ job.member
      /\ job.keyset.keys # <<>> => /\ permanent.epoch_id = job.keyset.epoch_id
                                   /\ Len(permanent.keyshares) = Len(job.keyset.keys)
  BY <1>1 DEF KeysInvariant, JobInv, JobFits
<1> QED BY <1>1, <1>2, <1>3, <1>4, StatusChanges

\* The onboarding finds that it has the keyset already.
LEMMA SkipImportKeeps ==
  ASSUME KeysInvariant, SkipImport, UNCHANGED <<chainVars, channels>>
  PROVE  KeysInvariant'
<1>1. /\ job.kind = "Onboarding" /\ storing.pc = "idle" /\ Status("ready")
      /\ UNCHANGED <<view, onboarded, tasks, ran, storageVars>>
  BY DEF SkipImport
<1>2. PICK s \in Statuses : s = "ready"
  BY DEF Statuses
<1>3. tasks = {} /\ storing' = storing /\ storing \in StoringType /\ UNCHANGED disk
  BY <1>1 DEF KeysInvariant, TaskInv, StoringInv, storageVars
<1> QED BY <1>1, <1>2, <1>3, StatusChanges

\* The onboarding sends its transaction.
LEMMA ConcludeKeeps ==
  ASSUME KeysInvariant, Conclude, UNCHANGED <<chainVars, channels>>
  PROVE  KeysInvariant'
<1>1. /\ job.kind = "Onboarding" /\ job.status = "ready" /\ Status("concluded")
      /\ UNCHANGED <<view, onboarded, tasks, ran, storageVars>>
  BY DEF Conclude
<1>2. PICK s \in Statuses : s = "concluded"
  BY DEF Statuses
<1>3. tasks = {} /\ storing' = storing /\ storing \in StoringType /\ UNCHANGED disk
      /\ storing.pc = "idle"
  BY <1>1 DEF KeysInvariant, TaskInv, StoringInv, StoreFits, storageVars
<1> QED BY <1>1, <1>2, <1>3, StatusChanges

\* The keyset of the job and what there is of it.
LEMMA JobKeyset ==
  ASSUME KeysInvariant, job.kind # "None"
  PROVE  /\ job.keyset \in KeysetType /\ job.keyset.epoch_id \in Int
         /\ job.keyset.keys \in Seq(KeyType) /\ Len(job.keyset.keys) \in Nat
         /\ DOMAIN job.keyset.keys = 1 .. Len(job.keyset.keys)
         /\ Ascends(job.keyset.keys)
         /\ Grown(job.keyset, view.keyset) /\ view.keyset \in KeysetType
         /\ permanent \in DataType /\ permanent.keyshares \in Seq(ShareType)
         /\ Len(permanent.keyshares) \in Nat /\ permanent.epoch_id \in Int
         /\ DOMAIN permanent.keyshares = 1 .. Len(permanent.keyshares)
         /\ StoredOf(permanent, job.keyset)
<1>1. job \in JobType /\ view \in StateType /\ Shape(view) /\ Grown(job.keyset, view.keyset)
  BY DEF KeysInvariant, JobInv, JobFits, ViewInv
<1>2. job.keyset \in KeysetType /\ view.keyset \in KeysetType
  BY <1>1, StateFields DEF JobType
<1>3. Ascends(job.keyset.keys)
  BY <1>1, <1>2, GrownAscends DEF Shape
<1>4. permanent \in DataType /\ StoredOf(permanent, job.keyset)
  BY DEF KeysInvariant, PermanentInv
<1> QED BY <1>1, <1>2, <1>3, <1>4 DEF KeysetType, DataType

\* A function on 1 .. n is a sequence.
LEMMA FunctionIsSequence ==
  ASSUME NEW S, NEW n \in Nat, NEW f \in [1 .. n -> S]
  PROVE  f \in Seq(S) /\ Len(f) = n /\ DOMAIN f = 1 .. n
  OBVIOUS

\* What update_permanent_keyshares loads.
LEMMA Loaded ==
  ASSUME KeysInvariant, job.kind # "None", CanLoadKeyset(job.keyset)
  PROVE  LET d == PromotedData(job.keyset) IN
         /\ d \in DataType /\ d.epoch_id = job.keyset.epoch_id
         /\ Len(d.keyshares) = Len(job.keyset.keys)
         /\ \A i \in DOMAIN d.keyshares :
              /\ d.keyshares[i].key_id = IdOf(job.keyset.epoch_id, job.keyset.keys[i])
              /\ d.keyshares[i].public_key = job.keyset.keys[i].key
              /\ \/ i <= Len(StoredPrefix(job.keyset)) /\ d.keyshares[i] = StoredPrefix(job.keyset)[i]
                 \/ <<d.keyshares[i].key_id, d.keyshares[i].instance>> \in ran
<1> DEFINE ks == job.keyset
           keys == ks.keys
           stored == StoredPrefix(ks)
           d == PromotedData(ks)
           at(i) == IF i <= Len(stored) THEN stored[i] ELSE temporary[IdOf(ks.epoch_id, keys[i])][1]
<1>1. /\ keys \in Seq(KeyType) /\ Len(keys) \in Nat /\ DOMAIN keys = 1 .. Len(keys)
      /\ ks \in KeysetType /\ ks.epoch_id \in Int
  BY JobKeyset
<1>2. stored \in Seq(ShareType) /\ Len(stored) \in Nat /\ DOMAIN stored = 1 .. Len(stored)
  <2>1. permanent.keyshares \in Seq(ShareType) /\ <<>> \in Seq(ShareType)
    BY JobKeyset
  <2>2. stored \in Seq(ShareType)
    BY <2>1 DEF StoredPrefix
  <2> QED BY <2>2
<1>3. /\ Len(stored) <= Len(keys)
      /\ \A i \in 1 .. Len(stored) : CheckConsistency(stored[i], ks.epoch_id, keys[i])
      /\ \A i \in Len(stored) + 1 .. Len(keys) : CanLoad(IdOf(ks.epoch_id, keys[i]))
  BY DEF CanLoadKeyset, IsPrefixOfKeyset
<1>4. ASSUME NEW i \in 1 .. Len(keys)
      PROVE  /\ at(i) \in ShareType
             /\ at(i).key_id = IdOf(ks.epoch_id, keys[i]) /\ at(i).public_key = keys[i].key
             /\ \/ i <= Len(stored) /\ at(i) = stored[i]
                \/ <<at(i).key_id, at(i).instance>> \in ran
  <2>1. CASE i <= Len(stored)
    BY <1>1, <1>2, <1>3, <2>1 DEF CheckConsistency
  <2>2. CASE ~(i <= Len(stored))
    <3> DEFINE id == IdOf(ks.epoch_id, keys[i])
               f == temporary[id]
    <3>1. CanLoad(id)
      BY <1>1, <1>2, <1>3, <2>2
    <3>2. /\ f \in Seq(ShareType) /\ Len(f) = 1 /\ f[1].key_id = id
          /\ OwnShare(f[1], ran, contract, view, job)
      BY <3>1 DEF CanLoad, KeysInvariant, TemporaryInv, FileFits
    <3>3. f[1] \in ShareType
      BY <3>2
    <3>4. f[1].public_key = keys[i].key /\ <<f[1].key_id, f[1].instance>> \in ran
      BY <1>1, <3>2 DEF OwnShare, Fits
    <3>5. at(i) = f[1]
      BY <2>2
    <3> HIDE DEF at, f, id
    <3> QED BY <3>2, <3>3, <3>4, <3>5 DEF id
  <2> QED BY <2>1, <2>2
<1>5. d = [epoch_id |-> ks.epoch_id, keyshares |-> [i \in 1 .. Len(keys) |-> at(i)]]
  BY DEF PromotedData, LoadKeyset
<1> HIDE DEF at, d
<1>6. /\ d.epoch_id = ks.epoch_id /\ d.keyshares = [i \in 1 .. Len(keys) |-> at(i)]
  BY <1>5
<1>7. d.keyshares \in Seq(ShareType) /\ Len(d.keyshares) = Len(keys)
      /\ DOMAIN d.keyshares = 1 .. Len(keys)
  <2>1. d.keyshares \in [1 .. Len(keys) -> ShareType]
    BY <1>4, <1>6
  <2> QED BY <1>1, <2>1, FunctionIsSequence
<1>8. d \in DataType
  <2>1. PICK x \in Seq(ShareType) : x = [i \in 1 .. Len(keys) |-> at(i)]
    BY <1>6, <1>7
  <2> QED BY <1>1, <1>5, <2>1 DEF DataType
<1>9. \A i \in DOMAIN d.keyshares : d.keyshares[i] = at(i)
  BY <1>6
<1> QED BY <1>4, <1>6, <1>7, <1>8, <1>9 DEF d

\* A store begins with certified data for the keyset of the job.
LEMMA StoreBegins ==
  ASSUME KeysInvariant, UNCHANGED <<chainVars, channels, nodeVars, ran>>,
         NEW d \in DataType, BeginStore(d),
         job.kind \in {"Running", "Resharing", "Onboarding"}, job.status = "new",
         d.epoch_id = job.keyset.epoch_id, Len(d.keyshares) = Len(job.keyset.keys),
         StoredOf(d, job.keyset), Counted(view) => Certified(d, view.keyset)
  PROVE  KeysInvariant'
<1>1. /\ UNCHANGED <<contract, view, onboarded, job, tasks, ran, markers, temporary, permanent>>
      /\ storing' = [pc |-> "created", data |-> d]
  BY DEF chainVars, nodeVars, BeginStore
<1>2. ViewKeeps
  BY <1>1, ViewStays DEF KeysInvariant, RanInv
<1>3. JobInv' /\ TaskInv' /\ TemporaryInv' /\ PermanentInv' /\ PromotionSucceeds'
  BY <1>1 DEF KeysInvariant, JobInv, TaskInv, TemporaryInv, PermanentInv, PromotionSucceeds
<1>4. PICK st : st = storing'
  OBVIOUS
<1>5. st \in StoringType /\ st.pc = "created" /\ st.data = d
  BY <1>1, <1>4 DEF StoringType
<1>6. StoreFits(st, job, view, permanent)
  BY <1>5 DEF StoreFits
<1>7. StoringInv'
  BY <1>1, <1>4, <1>5, <1>6 DEF StoringInv
<1> QED BY <1>2, <1>3, <1>7 DEF ViewKeeps, KeysInvariant

\* The fields of the id under which a key is stored.
LEMMA IdOfFields ==
  ASSUME NEW e, NEW k
  PROVE  IdOf(e, k).epoch_id = e /\ IdOf(e, k).domain_id = k.domain_id
  BY DEF IdOf, KeyEventId

\* update_permanent_keyshares begins.
LEMMA BeginPromotionKeeps ==
  ASSUME KeysInvariant, BeginPromotion, UNCHANGED <<chainVars, channels>>
  PROVE  KeysInvariant'
<1>1. /\ job.kind \in {"Running", "Resharing"} /\ job.status = "new"
      /\ CanLoadKeyset(job.keyset) /\ BeginStore(PromotedData(job.keyset))
      /\ UNCHANGED <<nodeVars, ran>>
  BY DEF BeginPromotion, Promoting
<1>2. PICK d \in DataType :
        /\ d = PromotedData(job.keyset) /\ d.epoch_id = job.keyset.epoch_id
        /\ Len(d.keyshares) = Len(job.keyset.keys)
        /\ \A i \in DOMAIN d.keyshares :
             /\ d.keyshares[i].key_id = IdOf(job.keyset.epoch_id, job.keyset.keys[i])
             /\ d.keyshares[i].public_key = job.keyset.keys[i].key
             /\ \/ i <= Len(StoredPrefix(job.keyset)) /\ d.keyshares[i] = StoredPrefix(job.keyset)[i]
                \/ <<d.keyshares[i].key_id, d.keyshares[i].instance>> \in ran
  BY <1>1, Loaded
<1>0. /\ d.epoch_id = job.keyset.epoch_id /\ Len(d.keyshares) = Len(job.keyset.keys)
      /\ \A i \in DOMAIN d.keyshares :
             /\ d.keyshares[i].key_id = IdOf(job.keyset.epoch_id, job.keyset.keys[i])
             /\ d.keyshares[i].public_key = job.keyset.keys[i].key
             /\ \/ i <= Len(StoredPrefix(job.keyset)) /\ d.keyshares[i] = StoredPrefix(job.keyset)[i]
                \/ <<d.keyshares[i].key_id, d.keyshares[i].instance>> \in ran
  BY <1>2
<1>3. /\ job.keyset \in KeysetType /\ view.keyset \in KeysetType /\ Grown(job.keyset, view.keyset)
      /\ Len(job.keyset.keys) \in Nat /\ job.keyset.epoch_id \in Int
      /\ DOMAIN job.keyset.keys = 1 .. Len(job.keyset.keys)
  BY <1>1, JobKeyset
<1>4. DOMAIN d.keyshares = DOMAIN job.keyset.keys /\ \A i \in DOMAIN d.keyshares : d.keyshares[i] \in ShareType
  BY <1>0, <1>3 DEF DataType
<1>5. StoredOf(d, job.keyset)
  <2>1. ASSUME NEW i \in DOMAIN d.keyshares
        PROVE  /\ d.keyshares[i].key_id.domain_id = job.keyset.keys[i].domain_id
               /\ d.keyshares[i].public_key = job.keyset.keys[i].key
    <3>1. d.keyshares[i].key_id = IdOf(job.keyset.epoch_id, job.keyset.keys[i])
          /\ d.keyshares[i].public_key = job.keyset.keys[i].key
      BY <1>0
    <3> QED BY <3>1, IdOfFields
  <2>2. d.epoch_id <= job.keyset.epoch_id /\ Len(d.keyshares) <= Len(job.keyset.keys)
    BY <1>0, <1>3
  <2> QED BY <2>1, <2>2 DEF StoredOf
<1>6. ASSUME Counted(view), d.epoch_id = view.keyset.epoch_id, NEW i \in DOMAIN d.keyshares
      PROVE  d.keyshares[i] = BackupShare(view.keyset.epoch_id, view.keyset.keys[i])
  <2>1. job.keyset.keys[i] = view.keyset.keys[i] /\ i \in DOMAIN view.keyset.keys
    <3>1. i \in DOMAIN job.keyset.keys /\ job.keyset.epoch_id = view.keyset.epoch_id
      BY <1>0, <1>4, <1>6
    <3> QED BY <1>3, <3>1, GrownKey
  <2>2. CASE i <= Len(StoredPrefix(job.keyset)) /\ d.keyshares[i] = StoredPrefix(job.keyset)[i]
    <3>1. i \in Nat /\ 1 <= i
      BY <1>3, <1>4
    <3>2. permanent.epoch_id = job.keyset.epoch_id /\ StoredPrefix(job.keyset) = permanent.keyshares
      BY <2>2, <3>1 DEF StoredPrefix
    <3>3. i \in DOMAIN permanent.keyshares
      BY <1>1, <2>2, <3>1, <3>2, JobKeyset
    <3>4. Certified(permanent, view.keyset)
      BY <1>6 DEF KeysInvariant, PermanentInv
    <3> QED BY <1>0, <1>6, <2>2, <3>2, <3>3, <3>4 DEF Certified
  <2>3. CASE <<d.keyshares[i].key_id, d.keyshares[i].instance>> \in ran
    <3> DEFINE s == d.keyshares[i]
    <3>1. s \in ShareType /\ s.key_id = IdOf(view.keyset.epoch_id, view.keyset.keys[i])
          /\ s.public_key = view.keyset.keys[i].key
      BY <1>0, <1>4, <1>6, <2>1
    <3>2. s.instance = view.keyset.keys[i].instance
      <4>1. NoOtherRun(ran, view)
        BY DEF KeysInvariant, RanInv
      <4>2. PICK x \in ran : x = <<s.key_id, s.instance>> /\ x[1] = s.key_id /\ x[2] = s.instance
        BY <2>3
      <4> HIDE DEF s
      <4> QED BY <1>6, <2>1, <3>1, <4>1, <4>2 DEF NoOtherRun
    <3> HIDE DEF s
    <3>3. s = BackupShare(view.keyset.epoch_id, view.keyset.keys[i])
      BY <3>1, <3>2 DEF BackupShare, Keyshare, ShareType
    <3> QED BY <3>3 DEF s
  <2> QED BY <1>0, <2>2, <2>3
<1>7. Counted(view) => Certified(d, view.keyset)
  BY <1>6 DEF Certified
<1> QED BY <1>0, <1>1, <1>2, <1>5, <1>7, StoreBegins

\* import_backup: the backup has the shares of the keyset.
LEMMA ImportBackupKeeps ==
  ASSUME KeysInvariant, ImportBackup, UNCHANGED <<chainVars, channels>>
  PROVE  KeysInvariant'
<1> DEFINE epoch == job.keyset.epoch_id
           keys == job.keyset.keys
           backup == [i \in 1 .. Len(keys) |-> BackupShare(epoch, keys[i])]
<1>1. /\ job.kind = "Onboarding" /\ job.status = "new"
      /\ BeginStore([epoch_id |-> epoch, keyshares |-> backup])
      /\ UNCHANGED <<nodeVars, ran>>
  BY DEF ImportBackup
<1>2. /\ job.keyset \in KeysetType /\ view.keyset \in KeysetType /\ Grown(job.keyset, view.keyset)
      /\ Len(keys) \in Nat /\ epoch \in Int /\ DOMAIN keys = 1 .. Len(keys)
  BY <1>1, JobKeyset
<1>3. ASSUME NEW i \in 1 .. Len(keys)
      PROVE  /\ BackupShare(epoch, keys[i]) \in ShareType
             /\ BackupShare(epoch, keys[i]).key_id.domain_id = keys[i].domain_id
             /\ BackupShare(epoch, keys[i]).public_key = keys[i].key
  <2>1. keys[i].domain_id \in Nat /\ keys[i].attempt \in Nat /\ keys[i].key \in Nat
        /\ keys[i].instance \in Nat
    BY <1>2, KeyAt
  <2> QED BY <1>2, <2>1 DEF BackupShare, Keyshare, IdOf, KeyEventId, ShareType, IdType
<1>4. backup \in [1 .. Len(keys) -> ShareType]
  BY <1>3
<1>5. PICK b \in Seq(ShareType) : b = backup /\ Len(b) = Len(keys) /\ DOMAIN b = 1 .. Len(keys)
  BY <1>2, <1>4, FunctionIsSequence
<1>6. \A i \in 1 .. Len(keys) : b[i] = BackupShare(epoch, keys[i])
  BY <1>5
<1>7. PICK d \in DataType : d = [epoch_id |-> epoch, keyshares |-> b]
  BY <1>2 DEF DataType
<1>8. d.epoch_id = epoch /\ d.keyshares = b /\ BeginStore(d)
  BY <1>1, <1>5, <1>7
<1> HIDE DEF epoch, keys, backup
<1>9. StoredOf(d, job.keyset)
  BY <1>2, <1>3, <1>5, <1>6, <1>8 DEF StoredOf, epoch, keys
<1>10. Certified(d, view.keyset)
  <2>1. SUFFICES ASSUME epoch = view.keyset.epoch_id, NEW i \in 1 .. Len(keys)
                 PROVE  b[i] = BackupShare(view.keyset.epoch_id, view.keyset.keys[i])
    BY <1>5, <1>8 DEF Certified
  <2>2. keys[i] = view.keyset.keys[i]
    BY <1>2, <2>1, GrownKey DEF epoch, keys
  <2> QED BY <1>6, <2>1, <2>2
<1> QED BY <1>1, <1>5, <1>8, <1>9, <1>10, StoreBegins DEF epoch, keys

\* update_permanent_keyshares returns: the keyset is in the permanent storage.
LEMMA ReturnPromotionKeeps ==
  ASSUME KeysInvariant, ReturnPromotion, UNCHANGED <<chainVars, channels>>
  PROVE  KeysInvariant'
<1>1. /\ job.kind \in {"Running", "Resharing"} /\ job.status = "new" /\ storing.pc = "idle"
      /\ UNCHANGED <<view, onboarded, tasks, ran, storageVars>>
  BY DEF ReturnPromotion, Promoting
<1>2. tasks = {} /\ storing' = storing /\ storing \in StoringType /\ UNCHANGED disk
  BY <1>1 DEF KeysInvariant, TaskInv, StoringInv, storageVars
<1>3. job.kind = "Running" => job.member
  BY <1>1 DEF KeysInvariant, JobInv, JobFits
<1>4. /\ job.keyset \in KeysetType /\ Len(job.keyset.keys) \in Nat
      /\ DOMAIN job.keyset.keys = 1 .. Len(job.keyset.keys)
      /\ job.keyset.keys \in Seq(KeyType)
      /\ permanent.keyshares \in Seq(ShareType) /\ Len(permanent.keyshares) \in Nat
      /\ DOMAIN permanent.keyshares = 1 .. Len(permanent.keyshares)
      /\ StoredOf(permanent, job.keyset) /\ Ascends(job.keyset.keys)
      /\ permanent.epoch_id \in Int /\ job.keyset.epoch_id \in Int
  BY <1>1, JobKeyset
<1>5. CASE NothingToStore(job.keyset) /\ Status("ready")
  <2>1. Len(StoredPrefix(job.keyset)) = Len(job.keyset.keys)
    BY <1>5 DEF NothingToStore
  <2>2. job.keyset.keys # <<>> => Len(job.keyset.keys) # 0
    BY <1>4
  <2>3. job.keyset.keys # <<>> => /\ permanent.epoch_id = job.keyset.epoch_id
                                  /\ Len(permanent.keyshares) = Len(job.keyset.keys)
    BY <2>1, <2>2 DEF StoredPrefix
  <2>4. PICK s \in Statuses : s = "ready"
    BY DEF Statuses
  <2> QED BY <1>1, <1>2, <1>3, <1>5, <2>3, <2>4, StatusChanges
<1>6. CASE /\ ~NothingToStore(job.keyset)
           /\ ~(CanLoadKeyset(job.keyset) /\ CanStore(PromotedData(job.keyset)))
           /\ Status(IF job.member THEN "failed" ELSE "ready")
  <2>1. PICK s \in Statuses : s = IF job.member THEN "failed" ELSE "ready"
    BY DEF Statuses
  <2>2. ASSUME CanLoadKeyset(job.keyset)
        PROVE  Identifier(PromotedData(job.keyset)) \in DOMAIN permanent_keys
    <3>1. PICK d \in DataType :
            /\ d = PromotedData(job.keyset) /\ d.epoch_id = job.keyset.epoch_id
            /\ Len(d.keyshares) = Len(job.keyset.keys)
            /\ \A i \in DOMAIN d.keyshares :
                 /\ d.keyshares[i].key_id = IdOf(job.keyset.epoch_id, job.keyset.keys[i])
                 /\ d.keyshares[i].public_key = job.keyset.keys[i].key
      BY <1>1, <2>2, Loaded
    <3>0. /\ d.epoch_id = job.keyset.epoch_id
          /\ Len(d.keyshares) = Len(job.keyset.keys)
          /\ \A i \in DOMAIN d.keyshares :
               /\ d.keyshares[i].key_id = IdOf(job.keyset.epoch_id, job.keyset.keys[i])
               /\ d.keyshares[i].public_key = job.keyset.keys[i].key
      BY <3>1
    <3>2. d.keyshares \in Seq(ShareType) /\ DOMAIN d.keyshares = 1 .. Len(job.keyset.keys)
      BY <3>0 DEF DataType
    <3>3. \A i \in 1 .. Len(job.keyset.keys) :
            /\ d.keyshares[i].key_id.epoch_id = job.keyset.epoch_id
            /\ d.keyshares[i].key_id.domain_id = job.keyset.keys[i].domain_id
      BY <3>0, <3>2, IdOfFields
    <3>4. permanent.epoch_id = job.keyset.epoch_id => Len(permanent.keyshares) # Len(job.keyset.keys)
      BY <1>6, <2>2 DEF NothingToStore, StoredPrefix
    <3>5. Len(job.keyset.keys) # 0
      <4>1. Len(StoredPrefix(job.keyset)) # Len(job.keyset.keys)
        BY <1>6, <2>2 DEF NothingToStore
      <4>2. Len(permanent.keyshares) <= Len(job.keyset.keys)
        BY <1>4 DEF StoredOf
      <4> QED BY <1>4, <4>1, <4>2 DEF StoredPrefix
    <3>6. IsConsistent(d)
      <4>1. d.keyshares # <<>>
        BY <3>0, <3>2, <3>5
      <4>2. ASSUME NEW i \in 2 .. Len(d.keyshares)
            PROVE  d.keyshares[i - 1].key_id.domain_id < d.keyshares[i].key_id.domain_id
        <5>1. i \in 1 .. Len(job.keyset.keys) /\ i - 1 \in 1 .. Len(job.keyset.keys) /\ i - 1 < i
          BY <1>4, <3>0
        <5> QED BY <1>4, <3>3, <5>1 DEF Ascends
      <4> QED BY <3>0, <3>3, <4>1, <4>2 DEF IsConsistent
    <3>7. MayReplacePermanent(d)
      <4>1. permanent.epoch_id <= d.epoch_id /\ Len(permanent.keyshares) <= Len(d.keyshares)
        BY <1>4, <3>0 DEF StoredOf
      <4>2. permanent.epoch_id = d.epoch_id => Len(permanent.keyshares) < Len(d.keyshares)
        BY <1>4, <3>0, <3>4, <4>1
      <4>3. ASSUME NEW i \in 1 .. Len(permanent.keyshares)
            PROVE  /\ permanent.keyshares[i].key_id.domain_id = d.keyshares[i].key_id.domain_id
                   /\ permanent.keyshares[i].public_key = d.keyshares[i].public_key
                   /\ permanent.epoch_id = d.epoch_id =>
                        permanent.keyshares[i].key_id = d.keyshares[i].key_id
        <5>1. i \in 1 .. Len(job.keyset.keys)
          BY <1>4, <3>0, <4>1
        <5>2. /\ permanent.keyshares[i].key_id.domain_id = job.keyset.keys[i].domain_id
              /\ permanent.keyshares[i].public_key = job.keyset.keys[i].key
          BY <1>4 DEF StoredOf
        <5>3. permanent.epoch_id = d.epoch_id =>
                permanent.keyshares[i].key_id = IdOf(job.keyset.epoch_id, job.keyset.keys[i])
          BY <2>2, <3>0 DEF CanLoadKeyset, IsPrefixOfKeyset, StoredPrefix, CheckConsistency
        <5> QED BY <3>0, <3>2, <3>3, <5>1, <5>2, <5>3
      <4> QED BY <4>1, <4>2, <4>3 DEF MayReplacePermanent
    <3> QED BY <1>6, <2>2, <3>1, <3>6, <3>7 DEF CanStore
  <2>3. job.kind = "Running" => s = "failed"
    BY <1>3, <2>1
  <2> QED BY <1>1, <1>2, <1>3, <1>6, <2>1, <2>2, <2>3, StatusChanges
<1> QED BY <1>5, <1>6 DEF ReturnPromotion

(***************************************************************************)
(* A store in progress.                                                    *)
(***************************************************************************)
LEMMA StoreKeeps ==
  ASSUME KeysInvariant, Store, UNCHANGED <<chainVars, channels, nodeVars, ran>>
  PROVE  KeysInvariant'
<1>1. UNCHANGED <<contract, view, onboarded, job, tasks, ran, next_domain_id>>
  BY DEF chainVars, nodeVars
<1>2. storing \in StoringType /\ storing.pc # "idle" /\ storing.data \in DataType
  BY DEF Store, StoreWrite, StoreRemoveKey, StoreLink, StoreDelete, KeysInvariant, StoringInv,
     StoringType
<1>3. /\ job.kind \in {"Running", "Resharing", "Onboarding"} /\ job.status = "new"
      /\ storing.data.epoch_id = job.keyset.epoch_id
      /\ Len(storing.data.keyshares) = Len(job.keyset.keys)
      /\ StoredOf(storing.data, job.keyset)
      /\ Counted(view) => Certified(storing.data, view.keyset)
  BY <1>2 DEF KeysInvariant, StoringInv, StoreFits
<1>4. /\ job.keyset \in KeysetType /\ view.keyset \in KeysetType /\ Grown(job.keyset, view.keyset)
      /\ job.keyset.epoch_id \in Int
  BY <1>3, JobKeyset
<1>5. PromotionSucceeds'
  BY <1>1, <1>3 DEF PromotionSucceeds
<1>6. ChainInv' /\ ViewInv'
  BY <1>1 DEF chainVars, KeysInvariant, ChainInv, ViewInv
<1>7. view.keyset.epoch_id \in Nat
  BY DEF KeysInvariant, ViewInv, Shape
<1>8. JobInv'
  BY <1>1, <1>3 DEF KeysInvariant, JobInv, JobFits
<1>9. TaskInv'
  BY <1>1 DEF KeysInvariant, TaskInv
<1>10. ASSUME NEW p \in {"written", "removed", "linked"}, storing' = [storing EXCEPT !.pc = p],
              p = "linked" => permanent' = storing.data
       PROVE  StoringInv'
  <2>1. PICK st : st = storing'
    OBVIOUS
  <2>2. st \in StoringType /\ st.pc = p /\ st.data = storing.data
    BY <1>2, <1>10, <2>1 DEF StoringType
  <2>3. PICK d : d = permanent'
    OBVIOUS
  <2>4. StoreFits(st, job, view, d)
    BY <1>3, <1>10, <2>2, <2>3 DEF StoreFits
  <2> QED BY <1>1, <2>1, <2>2, <2>3, <2>4 DEF StoringInv
<1>11. CASE StoreWrite
  <2>1. UNCHANGED <<markers, temporary, permanent>> /\ storing' = [storing EXCEPT !.pc = "written"]
    BY <1>11 DEF StoreWrite
  <2>2. StoringInv'
    BY <1>10, <2>1
  <2>3. RanInv' /\ TemporaryInv' /\ PermanentInv'
    BY <1>1, <2>1 DEF KeysInvariant, RanInv, TemporaryInv, PermanentInv
  <2> QED BY <1>5, <1>6, <1>8, <1>9, <2>2, <2>3 DEF KeysInvariant
<1>12. CASE StoreRemoveKey
  <2>1. /\ UNCHANGED <<markers, temporary>> /\ storing' = [storing EXCEPT !.pc = "removed"]
        /\ permanent' = NoPermanent
    BY <1>12 DEF StoreRemoveKey
  <2>2. StoringInv'
    BY <1>10, <2>1
  <2>3. RanInv' /\ TemporaryInv'
    BY <1>1, <2>1 DEF KeysInvariant, RanInv, TemporaryInv
  <2>4. PICK d : d = NoPermanent
    OBVIOUS
  <2>5. d \in DataType /\ d.epoch_id = NoEpoch /\ d.keyshares = <<>>
    BY <2>4 DEF NoPermanent, DataType, NoEpoch
  <2>6. StoredOf(d, view.keyset) /\ StoredOf(d, job.keyset) /\ Certified(d, view.keyset)
    <3>1. NoEpoch <= job.keyset.epoch_id /\ NoEpoch <= view.keyset.epoch_id
          /\ NoEpoch # view.keyset.epoch_id
      BY <1>7 DEF KeysInvariant, JobInv, JobFits, NoEpoch
    <3>2. Len(job.keyset.keys) \in Nat /\ Len(view.keyset.keys) \in Nat
      BY <1>4 DEF KeysetType
    <3> QED BY <2>5, <3>1, <3>2 DEF StoredOf, Certified
  <2>7. PermanentInv'
    BY <1>1, <2>1, <2>4, <2>5, <2>6 DEF PermanentInv
  <2> QED BY <1>5, <1>6, <1>8, <1>9, <2>2, <2>3, <2>7 DEF KeysInvariant
<1>13. CASE StoreLink
  <2>1. /\ UNCHANGED <<markers, temporary>> /\ storing' = [storing EXCEPT !.pc = "linked"]
        /\ permanent' = storing.data
    BY <1>13 DEF StoreLink
  <2>2. StoringInv'
    BY <1>10, <2>1
  <2>3. RanInv' /\ TemporaryInv'
    BY <1>1, <2>1 DEF KeysInvariant, RanInv, TemporaryInv
  <2>4. StoredOf(storing.data, view.keyset)
    BY <1>2, <1>3, <1>4, StoredOfGrown
  <2>5. PermanentInv'
    BY <1>1, <1>2, <1>3, <2>1, <2>4 DEF PermanentInv
  <2> QED BY <1>5, <1>6, <1>8, <1>9, <2>2, <2>3, <2>5 DEF KeysInvariant
<1>14. CASE StoreDelete
  <2>1. UNCHANGED <<permanent, storing>>
    BY <1>14 DEF StoreDelete
  <2>2. PermanentInv' /\ StoringInv'
    BY <1>1, <2>1 DEF KeysInvariant, PermanentInv, StoringInv
  <2>3. RunsMarked(ran, markers', view)
    <3>1. ASSUME NEW id \in IdType, IsOld(id)
          PROVE  id.epoch_id < view.keyset.epoch_id
      BY <1>3, <1>4, <1>7, <3>1 DEF IsOld, Grown, IdType
    <3>2. \A x \in ran : x[1] \in IdType
      BY DEF KeysInvariant, RanInv
    <3>3. \A x \in ran : x[1] \in markers => x[1] \in markers' \/ IsOld(x[1])
      BY <1>14 DEF StoreDelete
    <3> QED BY <3>1, <3>2, <3>3 DEF KeysInvariant, RanInv, RunsMarked
  <2>4. RanInv'
    BY <1>1, <2>3 DEF KeysInvariant, RanInv
  <2>5. TemporaryInv'
    <3>1. DOMAIN temporary' \subseteq DOMAIN temporary
          /\ \A id \in DOMAIN temporary' : temporary'[id] = temporary[id]
      BY <1>14 DEF StoreDelete, RemoveFile
    <3>2. PICK g : g = temporary'
      OBVIOUS
    <3>3. DOMAIN g \subseteq DOMAIN temporary /\ \A id \in DOMAIN g : g[id] = temporary[id]
      BY <3>1, <3>2
    <3>4. DOMAIN g \subseteq IdType
          /\ \A id \in DOMAIN g : FileFits(g[id], id, ran, contract, view, job)
      BY <3>3 DEF KeysInvariant, TemporaryInv
    <3> QED BY <1>1, <3>2, <3>4 DEF TemporaryInv
  <2> QED BY <1>5, <1>6, <1>8, <1>9, <2>2, <2>4, <2>5 DEF KeysInvariant
<1> QED BY <1>11, <1>12, <1>13, <1>14 DEF Store

\* The store takes its next step: write, remove, link, delete.
LEMMA ContinueStoreKeeps ==
  ASSUME KeysInvariant, ContinueStore, UNCHANGED <<chainVars, channels>>
  PROVE  KeysInvariant'
<1>1. UNCHANGED <<view, onboarded, tasks, ran>>
  BY DEF ContinueStore
<1>2. CASE Store /\ UNCHANGED job
  BY <1>1, <1>2, StoreKeeps DEF nodeVars
<1>3. CASE StoreReturn /\ Status("ready")
  <2>1. storing.pc = "linked" /\ storing' = NotStoring /\ UNCHANGED disk
    BY <1>3 DEF StoreReturn
  <2>2. /\ job.kind \in {"Running", "Resharing", "Onboarding"} /\ job.status = "new"
        /\ permanent.epoch_id = job.keyset.epoch_id
        /\ Len(permanent.keyshares) = Len(job.keyset.keys)
    BY <2>1 DEF KeysInvariant, StoringInv, StoreFits
  <2>3. tasks = {} /\ (job.kind = "Running" => job.member)
    BY <2>2 DEF KeysInvariant, TaskInv, JobInv, JobFits
  <2>4. PICK s \in Statuses : s = "ready"
    BY DEF Statuses
  <2>5. storing' \in StoringType /\ storing'.pc = "idle"
    BY <2>1, NotStoringIdle
  <2> QED BY <1>1, <1>3, <2>1, <2>2, <2>3, <2>4, <2>5, StatusChanges
<1> QED BY <1>2, <1>3 DEF ContinueStore

(***************************************************************************)
(* Computations.                                                           *)
(***************************************************************************)

\* What the job does with its tasks leaves the rest alone.
LEMMA TasksMove ==
  ASSUME KeysInvariant, UNCHANGED <<contract, view, onboarded, job, permanent, permanent_keys, storing>>,
         ChainInv', ViewInv', RanInv', ran \subseteq ran',
         job.kind \in {"Initializing", "Resharing"}, job.status = "ready",
         tasks' \subseteq TaskType,
         \A t \in tasks' : /\ t.id.epoch_id = job.epoch_id
                           /\ t.pc # "waiting" => TaskFits(t, ran', contract, view, job),
         DOMAIN temporary' \subseteq IdType,
         \A id \in DOMAIN temporary' : FileFits(temporary'[id], id, ran', contract, view, job)
  PROVE  KeysInvariant'
<1>1. JobInv' /\ PermanentInv' /\ StoringInv'
  BY DEF KeysInvariant, JobInv, PermanentInv, StoringInv
<1>2. TaskInv'
  BY DEF TaskInv
<1>3. TemporaryInv'
  BY DEF TemporaryInv
<1>4. PromotionSucceeds'
  BY DEF PromotionSucceeds
<1> QED BY <1>1, <1>2, <1>3, <1>4 DEF KeysInvariant

\* The runs stay the same.
LEMMA TasksMoveQuietly ==
  ASSUME KeysInvariant, UNCHANGED <<chainVars, view, onboarded, job, ran, markers>>,
         UNCHANGED <<permanent, permanent_keys, storing>>, channels' \subseteq ChannelType,
         job.kind \in {"Initializing", "Resharing"}, job.status = "ready",
         tasks' \subseteq TaskType,
         \A t \in tasks' : /\ t.id.epoch_id = job.epoch_id
                           /\ t.pc # "waiting" => TaskFits(t, ran, contract, view, job),
         DOMAIN temporary' \subseteq IdType,
         \A id \in DOMAIN temporary' : FileFits(temporary'[id], id, ran, contract, view, job)
  PROVE  KeysInvariant'
<1>1. ChainInv' /\ ViewInv' /\ RanInv'
  BY DEF chainVars, KeysInvariant, ChainInv, ViewInv, RanInv
<1> QED BY <1>1, TasksMove DEF chainVars

\* A follower takes a channel for a key id.
LEMMA ReceiveChannelKeeps ==
  ASSUME KeysInvariant, NEW c \in channels, ReceiveChannel(c), UNCHANGED chainVars
  PROVE  KeysInvariant'
<1>1. /\ c \in ChannelType /\ job.status = "ready" /\ job.kind = c.kind
      /\ job.epoch_id = c.id.epoch_id
      /\ UNCHANGED <<view, onboarded, job, ran, storageVars>>
      /\ channels' \subseteq ChannelType
  BY DEF ReceiveChannel, KeysInvariant, ChainInv
<1>2. job.kind \in {"Initializing", "Resharing"}
  BY <1>1 DEF ChannelType
<1>0. PICK t : t = [id |-> c.id, instance |-> c.instance, pc |-> "waiting"]
  OBVIOUS
<1>3. t \in TaskType /\ t.id = c.id /\ t.pc = "waiting"
  BY <1>0, <1>1 DEF ChannelType, TaskType
<1>4. tasks' = tasks \union {t}
  BY <1>0 DEF ReceiveChannel
<1>5. tasks' \subseteq TaskType
  BY <1>3, <1>4 DEF KeysInvariant, TaskInv
<1>6. \A u \in tasks' : /\ u.id.epoch_id = job.epoch_id
                        /\ u.pc # "waiting" => TaskFits(u, ran, contract, view, job)
  BY <1>1, <1>3, <1>4 DEF KeysInvariant, TaskInv
<1>7. UNCHANGED <<markers, temporary, permanent, permanent_keys, storing>>
  BY <1>1 DEF storageVars, disk
<1>8. /\ DOMAIN temporary' \subseteq IdType
      /\ \A id \in DOMAIN temporary' : FileFits(temporary'[id], id, ran, contract, view, job)
  BY <1>7 DEF KeysInvariant, TemporaryInv
<1> QED BY <1>1, <1>2, <1>5, <1>6, <1>7, <1>8, TasksMoveQuietly

\* A task goes away: it has voted, or failed.
LEMMA TaskLeaves ==
  ASSUME KeysInvariant, NEW t \in tasks, tasks' = tasks \ {t},
         UNCHANGED <<chainVars, channels, view, onboarded, job, ran, storageVars>>
  PROVE  KeysInvariant'
<1>1. job.kind \in {"Initializing", "Resharing"} /\ job.status = "ready"
      /\ channels' \subseteq ChannelType
  BY DEF KeysInvariant, TaskInv, ChainInv
<1>2. /\ tasks' \subseteq TaskType
      /\ \A u \in tasks' : /\ u.id.epoch_id = job.epoch_id
                           /\ u.pc # "waiting" => TaskFits(u, ran, contract, view, job)
  BY DEF KeysInvariant, TaskInv
<1>3. UNCHANGED <<markers, temporary, permanent, permanent_keys, storing>>
  BY DEF storageVars, disk
<1>4. /\ DOMAIN temporary' \subseteq IdType
      /\ \A id \in DOMAIN temporary' : FileFits(temporary'[id], id, ran, contract, view, job)
  BY <1>3 DEF KeysInvariant, TemporaryInv
<1> QED BY <1>1, <1>2, <1>3, <1>4, TasksMoveQuietly

\* A task at another place has the same share.
LEMMA ReplacedTask ==
  ASSUME NEW t \in TaskType, NEW p \in {"waiting", "running", "created", "committed"}, NEW u,
         u = [t EXCEPT !.pc = p]
  PROVE  /\ u \in TaskType /\ u.id = t.id /\ u.instance = t.instance /\ u.pc = p
         /\ \A j : ShareOf(u, j) = ShareOf(t, j)
         /\ \A r, c, v, j : TaskFits(t, r, c, v, j) => TaskFits(u, r, c, v, j)
<1>1. u \in TaskType /\ u.id = t.id /\ u.instance = t.instance /\ u.pc = p
  BY DEF TaskType
<1>2. \A j : ShareOf(u, j) = ShareOf(t, j)
  BY <1>1 DEF ShareOf
<1> QED BY <1>1, <1>2 DEF TaskFits

\* A task goes on with the share that it has.
LEMMA TaskGoesOn ==
  ASSUME KeysInvariant, NEW t \in tasks, NEW p \in {"created", "committed"},
         ReplaceTask(t, p), t.pc # "waiting",
         UNCHANGED <<chainVars, channels, view, onboarded, job, ran, markers>>,
         UNCHANGED <<permanent, permanent_keys, storing>>,
         NEW f, FileFits(f, t.id, ran, contract, view, job),
         temporary' = Write(temporary, t.id, f)
  PROVE  KeysInvariant'
<1>1. /\ t \in TaskType /\ t.id \in IdType /\ t.id.epoch_id = job.epoch_id
      /\ TaskFits(t, ran, contract, view, job)
      /\ job.kind \in {"Initializing", "Resharing"} /\ job.status = "ready"
      /\ channels' \subseteq ChannelType
  BY DEF KeysInvariant, TaskInv, ChainInv, TaskType
<1>2. PICK u : u = [t EXCEPT !.pc = p]
  OBVIOUS
<1>3. u \in TaskType /\ u.id = t.id /\ TaskFits(u, ran, contract, view, job)
  BY <1>1, <1>2, ReplacedTask
<1>4. tasks' = (tasks \ {t}) \union {u}
  BY <1>2 DEF ReplaceTask
<1>5. /\ tasks' \subseteq TaskType
      /\ \A x \in tasks' : /\ x.id.epoch_id = job.epoch_id
                           /\ x.pc # "waiting" => TaskFits(x, ran, contract, view, job)
  BY <1>1, <1>3, <1>4 DEF KeysInvariant, TaskInv
<1>6. /\ DOMAIN temporary' \subseteq IdType
      /\ \A id \in DOMAIN temporary' : FileFits(temporary'[id], id, ran, contract, view, job)
  <2>1. PICK g : g = temporary'
    OBVIOUS
  <2>2. /\ DOMAIN g = DOMAIN temporary \union {t.id} /\ g[t.id] = f
        /\ \A id \in DOMAIN temporary : id # t.id => g[id] = temporary[id]
    BY <2>1 DEF Write
  <2>3. /\ DOMAIN g \subseteq IdType
        /\ \A id \in DOMAIN g : FileFits(g[id], id, ran, contract, view, job)
    BY <1>1, <2>2 DEF KeysInvariant, TemporaryInv
  <2> QED BY <2>1, <2>3
<1> QED BY <1>1, <1>5, <1>6, TasksMoveQuietly

\* The computation is done and its file created.
LEMMA FinishTaskKeeps ==
  ASSUME KeysInvariant, NEW t \in tasks, FinishTask(t), UNCHANGED <<chainVars, channels>>
  PROVE  KeysInvariant'
<1>1. UNCHANGED <<view, onboarded, job, ran>> /\ t.pc = "running"
  BY DEF FinishTask
<1>2. CASE tasks' = tasks \ {t} /\ UNCHANGED storageVars
  BY <1>1, <1>2, TaskLeaves
<1>3. CASE ReplaceTask(t, "created") /\ CreateKeyshareFile(t.id)
  <2>1. /\ temporary' = Write(temporary, t.id, <<>>)
        /\ UNCHANGED <<markers, permanent, permanent_keys, storing>>
    BY <1>3 DEF CreateKeyshareFile
  <2>2. PICK f : f = <<>>
    OBVIOUS
  <2>3. FileFits(f, t.id, ran, contract, view, job)
    BY <2>2 DEF FileFits
  <2>4. PICK p \in {"created", "committed"} : p = "created"
    OBVIOUS
  <2>5. ReplaceTask(t, p) /\ temporary' = Write(temporary, t.id, f)
    BY <1>3, <2>1, <2>2, <2>4
  <2> QED BY <1>1, <2>1, <2>3, <2>5, TaskGoesOn
<1> QED BY <1>2, <1>3 DEF FinishTask

\* The public key of the share that a task of this job writes.
LEMMA TaskShare ==
  ASSUME KeysInvariant, NEW t \in tasks, t.pc # "waiting"
  PROVE  /\ ShareOf(t, job) \in ShareType /\ ShareOf(t, job).key_id = t.id
         /\ ShareOf(t, job) = Keyshare(t.id, PublicKeyOf(t), t.instance)
<1>1. /\ t \in TaskType /\ t.id \in IdType /\ t.instance \in Nat
      /\ TaskFits(t, ran, contract, view, job)
      /\ job.kind \in {"Initializing", "Resharing"}
  BY DEF KeysInvariant, TaskInv, TaskType
<1>2. ShareOf(t, job) = Keyshare(t.id, PublicKeyOf(t), t.instance)
  BY DEF ShareOf, PublicKeyOf, PreviousKey
<1>3. PublicKeyOf(t) \in Nat
  <2>1. CASE job.kind = "Initializing"
    BY <1>1, <2>1 DEF PublicKeyOf
  <2>2. CASE job.kind = "Resharing"
    <3>1. \E i \in DOMAIN job.keyset.keys : job.keyset.keys[i].domain_id = t.id.domain_id
      BY <1>1, <2>2 DEF TaskFits
    <3> DEFINE at == CHOOSE i \in DOMAIN job.keyset.keys :
                       job.keyset.keys[i].domain_id = t.id.domain_id
    <3>2. at \in DOMAIN job.keyset.keys
      BY <3>1
    <3>3. job.keyset.keys[at].key \in Nat
      <4> HIDE DEF at
      <4> QED BY <3>2, <2>2, JobKeyset, KeyAt
    <3> QED BY <2>2, <3>3 DEF PublicKeyOf
  <2> QED BY <1>1, <2>1, <2>2
<1> QED BY <1>1, <1>2, <1>3 DEF Keyshare, ShareType

\* The share is written and its file committed.
LEMMA CommitTaskKeeps ==
  ASSUME KeysInvariant, NEW t \in tasks, CommitTask(t), UNCHANGED <<chainVars, channels>>
  PROVE  KeysInvariant'
<1>1. /\ UNCHANGED <<view, onboarded, job, ran>> /\ t.pc = "created"
      /\ ReplaceTask(t, "committed")
      /\ WriteKeyshareFile(Keyshare(t.id, PublicKeyOf(t), t.instance))
  BY DEF CommitTask
<1>2. PICK s \in ShareType : /\ s = ShareOf(t, job) /\ s.key_id = t.id
                             /\ s = Keyshare(t.id, PublicKeyOf(t), t.instance)
  BY <1>1, TaskShare
<1>3. OwnShare(s, ran, contract, view, job)
  BY <1>1, <1>2 DEF KeysInvariant, TaskInv, TaskFits
<1>4. PICK f : f = <<s>>
  OBVIOUS
<1>5. FileFits(f, t.id, ran, contract, view, job)
  <2>1. f \in Seq(ShareType) /\ Len(f) = 1 /\ f[1] = s
    BY <1>4
  <2>2. s.key_id = t.id
    BY <1>2
  <2> QED BY <1>3, <2>1, <2>2 DEF FileFits
<1>6. /\ temporary' = Write(temporary, t.id, f)
      /\ UNCHANGED <<markers, permanent, permanent_keys, storing>>
  <2>1. WriteKeyshareFile(s) /\ s.key_id = t.id
    BY <1>1, <1>2
  <2> QED BY <1>4, <2>1 DEF WriteKeyshareFile
<1>7. PICK p \in {"created", "committed"} : p = "committed"
  OBVIOUS
<1>8. ReplaceTask(t, p)
  BY <1>1, <1>7
<1> QED BY <1>1, <1>5, <1>6, <1>8, TaskGoesOn

\* The first run for a key id of the key event that the node sees: its share
\* can only be certified as what it is.
LEMMA FirstRun ==
  ASSUME KeysInvariant, NEW t \in tasks, t.id.domain_id = view.id.domain_id,
         t.id \notin markers,
         job.kind = "Initializing" \/ HasPreviousKey(t.id.domain_id),
         NEW r, r = ran \union {<<t.id, t.instance>>}
  PROVE  /\ r \subseteq IdType \X Nat
         /\ \A x \in r : x[1].domain_id < next_domain_id
         /\ RunsMarked(r, markers \union {t.id}, view)
         /\ RunsSeen(r, contract, view)
         /\ OneRun(r)
         /\ NoOtherRun(r, view)
         /\ TaskFits(t, r, contract, view, job)
<1>1. /\ t \in TaskType /\ t.id \in IdType /\ t.instance \in Nat
      /\ t.id.epoch_id \in Int /\ t.id.domain_id \in Nat
      /\ t.id.epoch_id = job.epoch_id
      /\ job.kind \in {"Initializing", "Resharing"} /\ job.status = "ready"
  BY DEF KeysInvariant, TaskInv, TaskType, IdType
<1>2. Knows(contract, view, ran, next_domain_id)
  BY InvariantKnows
<1>3. /\ contract \in StateType /\ view \in StateType /\ Shape(view) /\ Shape(contract)
      /\ contract.keyset \in KeysetType /\ view.keyset \in KeysetType /\ next_domain_id \in Nat
      /\ Grown(view.keyset, contract.keyset)
  BY <1>2, StateFields DEF Knows, Lags
<1>4. /\ view.phase = job.kind /\ view.id.epoch_id = t.id.epoch_id
      /\ job.kind = "Initializing" => view.member
  BY <1>1 DEF KeysInvariant, JobInv, JobFits
<1>5. /\ job.keyset \in KeysetType /\ Grown(job.keyset, view.keyset)
      /\ Grown(job.keyset, contract.keyset)
      /\ view.keyset.epoch_id \in Nat /\ contract.keyset.epoch_id \in Nat
      /\ job.keyset.epoch_id \in Int
      /\ job.keyset.epoch_id <= view.keyset.epoch_id
      /\ view.keyset.epoch_id <= contract.keyset.epoch_id
  <2>1. job.keyset \in KeysetType /\ Grown(job.keyset, view.keyset) /\ job.keyset.epoch_id \in Int
    BY <1>1, JobKeyset
  <2> QED BY <1>3, <2>1, GrownTransitive DEF Grown, Shape
<1>6. /\ job.kind = "Initializing" => t.id.epoch_id = view.keyset.epoch_id
      /\ job.kind = "Resharing" => view.keyset.epoch_id < t.id.epoch_id
  BY <1>3, <1>4 DEF Shape
<1>7. \A x \in ran : x[1] # t.id
  BY <1>1, <1>5, <1>6 DEF KeysInvariant, RanInv, RunsMarked
<1>8. \A x \in r : x \in ran \/ (x[1] = t.id /\ x[2] = t.instance)
  OBVIOUS
<1>9. r \subseteq IdType \X Nat
  BY <1>1, <1>2 DEF Knows
<1>10. \A x \in r : x[1].domain_id < next_domain_id
  <2>1. view.id.domain_id < next_domain_id
    <3>1. CASE view.phase = "Initializing"
      BY <1>2, <3>1 DEF Knows, Below
    <3>2. CASE view.phase = "Resharing"
      <4>1. Len(view.completed) + 1 \in DOMAIN view.keyset.keys
        BY <1>3, <3>2, StateFields DEF Shape
      <4> QED BY <1>2, <3>2, <4>1 DEF Knows, Below, Shape
    <3> QED BY <1>1, <1>4, <3>1, <3>2
  <2> QED BY <1>2, <1>8, <2>1 DEF Knows
<1>11. RunsMarked(r, markers \union {t.id}, view)
  BY <1>8 DEF KeysInvariant, RanInv, RunsMarked
<1>12. ASSUME job.kind = "Resharing"
       PROVE  \E i \in DOMAIN contract.keyset.keys :
                contract.keyset.keys[i].domain_id = t.id.domain_id
  <2>1. PICK i \in DOMAIN job.keyset.keys : job.keyset.keys[i].domain_id = t.id.domain_id
    BY <1>12 DEF HasPreviousKey
  <2> QED BY <1>3, <1>5, <2>1, GrownKey
<1>13. ASSUME contract.phase = "Initializing", t.id.domain_id = contract.id.domain_id
       PROVE  job.kind = "Initializing"
  <2>1. \A i \in DOMAIN contract.keyset.keys : contract.keyset.keys[i].domain_id # t.id.domain_id
    BY <1>3, <1>13, KeyAt, StateFields DEF Shape
  <2> QED BY <1>1, <1>12, <2>1
<1>14. RunsSeen(r, contract, view)
  BY <1>2, <1>4, <1>8, <1>13 DEF Knows, RunsSeen
<1>15. OneRun(r)
  <2>1. SUFFICES ASSUME NEW x \in r, NEW y \in r, x[1] = y[1]
                 PROVE  x = y
    BY DEF OneRun
  <2>2. x \in ran \/ x = <<t.id, t.instance>>
    OBVIOUS
  <2>3. y \in ran \/ y = <<t.id, t.instance>>
    OBVIOUS
  <2>4. CASE x \in ran /\ y \in ran
    BY <1>2, <2>1, <2>4 DEF Knows, OneRun
  <2> QED BY <1>7, <2>1, <2>2, <2>3, <2>4
<1>16. \A i \in DOMAIN view.keyset.keys : t.id # IdOf(view.keyset.epoch_id, view.keyset.keys[i])
  <2>1. SUFFICES ASSUME NEW i \in DOMAIN view.keyset.keys,
                        t.id = IdOf(view.keyset.epoch_id, view.keyset.keys[i])
                 PROVE  FALSE
    OBVIOUS
  <2>2. t.id.epoch_id = view.keyset.epoch_id /\ t.id.domain_id = view.keyset.keys[i].domain_id
    BY <2>1, IdOfFields
  <2>3. job.kind = "Initializing"
    BY <1>1, <1>5, <1>6, <2>2
  <2>4. view.keyset.keys[i].domain_id < t.id.domain_id
    BY <1>3, <1>4, <2>3 DEF Shape
  <2> QED BY <1>1, <2>2, <2>4
<1>17. NoOtherRun(r, view)
  BY <1>8, <1>16 DEF KeysInvariant, RanInv, NoOtherRun
<1>18. PICK s : s = ShareOf(t, job)
  OBVIOUS
<1>19. /\ s.key_id = t.id /\ s.instance = t.instance
       /\ s.public_key = IF job.kind = "Initializing" THEN t.instance
                         ELSE PreviousKey(t.id.domain_id, job)
  BY <1>18 DEF ShareOf, Keyshare
<1>20. <<s.key_id, s.instance>> \in r
  BY <1>19
<1>21. Fits(s, view.keyset)
  BY <1>16, <1>19 DEF Fits
<1>22. Fits(s, job.keyset)
  <2>1. SUFFICES ASSUME NEW i \in DOMAIN job.keyset.keys,
                        t.id = IdOf(job.keyset.epoch_id, job.keyset.keys[i])
                 PROVE  FALSE
    BY <1>19 DEF Fits
  <2>2. t.id.epoch_id = job.keyset.epoch_id /\ t.id.domain_id = job.keyset.keys[i].domain_id
    BY <2>1, IdOfFields
  <2>3. job.kind = "Initializing"
    BY <1>1, <1>5, <1>6, <2>2
  <2>4. i \in DOMAIN view.keyset.keys /\ t.id.domain_id = view.keyset.keys[i].domain_id
    BY <1>3, <1>5, <2>2, GrownKey
  <2>5. view.keyset.keys[i].domain_id < t.id.domain_id
    BY <1>3, <1>4, <2>3, <2>4 DEF Shape
  <2> QED BY <1>1, <2>4, <2>5
<1>23. Certifiable(s, contract)
  <2>1. CASE job.kind = "Initializing"
    <3>1. ASSUME NEW i \in DOMAIN contract.keyset.keys,
                 t.id = IdOf(contract.keyset.epoch_id, contract.keyset.keys[i])
          PROVE  FALSE
      <4> DEFINE k == contract.keyset.keys[i]
      <4>1. t.id.epoch_id = contract.keyset.epoch_id /\ t.id.domain_id = k.domain_id
        BY <3>1, IdOfFields
      <4>2. view.keyset.epoch_id = contract.keyset.epoch_id
        BY <1>6, <2>1, <4>1
      <4>3. Counted(contract) /\ ~view.migrating
        BY <1>2, <1>3, <1>4, <2>1, <4>2 DEF Knows, Lags, Counted, Shape
      <4>4. Settled(k, ran, contract, view)
        BY <1>2, <3>1, <4>3 DEF Knows, AllSettled
      <4>5. <<IdOf(contract.keyset.epoch_id, k), k.instance>> \notin ran
        BY <1>7, <3>1
      <4>6. PICK j \in DOMAIN view.keyset.keys : view.keyset.keys[j] = k
        BY <4>3, <4>4, <4>5 DEF Settled
      <4>7. view.keyset.keys[j].domain_id < t.id.domain_id
        BY <1>3, <1>4, <2>1 DEF Shape
      <4> QED BY <1>1, <4>1, <4>6, <4>7
    <3>2. ~(contract.keyset.epoch_id < s.key_id.epoch_id)
      BY <1>1, <1>5, <1>6, <1>19, <2>1
    <3> QED BY <1>19, <2>1, <3>1, <3>2 DEF Certifiable, Fits
  <2>2. CASE job.kind = "Resharing"
    <3> DEFINE keys == job.keyset.keys
               at == CHOOSE i \in DOMAIN keys : keys[i].domain_id = t.id.domain_id
    <3>1. at \in DOMAIN keys /\ keys[at].domain_id = t.id.domain_id
      BY <2>2 DEF HasPreviousKey
    <3>2. s.public_key = keys[at].key
      BY <1>19, <2>2 DEF PreviousKey
    <3> HIDE DEF at
    <3>3. /\ at \in DOMAIN contract.keyset.keys
          /\ contract.keyset.keys[at].domain_id = t.id.domain_id
          /\ contract.keyset.keys[at].key = s.public_key
      BY <1>3, <1>5, <3>1, <3>2, GrownKey
    <3>4. ASSUME NEW i \in DOMAIN contract.keyset.keys,
                 s.key_id = IdOf(contract.keyset.epoch_id, contract.keyset.keys[i])
          PROVE  s.public_key = contract.keyset.keys[i].key
      <4>1. contract.keyset.keys[i].domain_id = t.id.domain_id
        BY <1>19, <3>4, IdOfFields
      <4>2. i = at
        BY <1>3, <3>3, <4>1, AscendsInjective DEF Shape
      <4> QED BY <3>3, <4>2
    <3>5. ~(contract.phase = "Initializing" /\ s.key_id.domain_id = contract.id.domain_id)
      BY <1>13, <1>19, <2>2
    <3> QED BY <1>19, <3>3, <3>4, <3>5 DEF Certifiable, Fits
  <2> QED BY <1>1, <2>1, <2>2
<1>24. OwnShare(s, r, contract, view, job)
  BY <1>20, <1>21, <1>22, <1>23 DEF OwnShare
<1>25. TaskFits(t, r, contract, view, job)
  BY <1>18, <1>24 DEF TaskFits, HasPreviousKey
<1> QED BY <1>9, <1>10, <1>11, <1>14, <1>15, <1>17, <1>25

\* The computation begins, after its marker was created: no other run has this id.
LEMMA StartTaskKeeps ==
  ASSUME KeysInvariant, NEW t \in tasks, StartTask(t), UNCHANGED <<chainVars, channels>>
  PROVE  KeysInvariant'
<1>1. UNCHANGED <<view, onboarded, job>>
  BY DEF StartTask
<1>2. CASE tasks' = tasks \ {t} /\ UNCHANGED <<ran, storageVars>>
  BY <1>1, <1>2, TaskLeaves
<1>3. CASE /\ t.id.domain_id = view.id.domain_id /\ t.id \notin markers
           /\ CreateStartedMarker(t.id)
           /\ IF job.kind = "Initializing" \/ HasPreviousKey(t.id.domain_id)
              THEN ReplaceTask(t, "running") /\ ran' = ran \union {<<t.id, t.instance>>}
              ELSE tasks' = tasks \ {t} /\ UNCHANGED ran
  <2>1. /\ markers' = markers \union {t.id}
        /\ UNCHANGED <<temporary, permanent, permanent_keys, storing>>
    BY <1>3 DEF CreateStartedMarker
  <2>2. /\ job.kind \in {"Initializing", "Resharing"} /\ job.status = "ready"
        /\ tasks \subseteq TaskType /\ t.id.epoch_id = job.epoch_id
        /\ \A u \in tasks : /\ u.id.epoch_id = job.epoch_id
                            /\ u.pc # "waiting" => TaskFits(u, ran, contract, view, job)
    BY DEF KeysInvariant, TaskInv
  <2>3. ChainInv' /\ ViewInv'
    BY <1>1 DEF chainVars, KeysInvariant, ChainInv, ViewInv
  <2>4. UNCHANGED <<contract, next_domain_id>>
    BY DEF chainVars
  <2>5. ~view.migrating
    <3>1. onboarded
      BY <2>2 DEF KeysInvariant, JobInv
    <3> QED BY <3>1 DEF KeysInvariant, RanInv
  <2>6. CASE /\ job.kind = "Initializing" \/ HasPreviousKey(t.id.domain_id)
             /\ ReplaceTask(t, "running") /\ ran' = ran \union {<<t.id, t.instance>>}
    <3>1. PICK r : r = ran \union {<<t.id, t.instance>>}
      OBVIOUS
    <3>2. /\ r \subseteq IdType \X Nat
          /\ \A x \in r : x[1].domain_id < next_domain_id
          /\ RunsMarked(r, markers \union {t.id}, view)
          /\ RunsSeen(r, contract, view)
          /\ OneRun(r)
          /\ NoOtherRun(r, view)
          /\ TaskFits(t, r, contract, view, job)
      BY <1>3, <2>6, <3>1, FirstRun
    <3>3. ran \subseteq r /\ ran' = r
      BY <2>6, <3>1
    <3>4. AllSettled(r, contract, view)
      BY <3>3 DEF KeysInvariant, RanInv, AllSettled, Settled
    <3>5. RanInv'
      BY <1>1, <2>1, <2>4, <2>5, <3>2, <3>3, <3>4 DEF RanInv
    <3>6. \A s : OwnShare(s, ran, contract, view, job) => OwnShare(s, r, contract, view, job)
      BY <3>3 DEF OwnShare
    <3>7. PICK u : u = [t EXCEPT !.pc = "running"]
      OBVIOUS
    <3>8. PICK p \in {"waiting", "running", "created", "committed"} : p = "running"
      OBVIOUS
    <3>9. u \in TaskType /\ u.id = t.id /\ TaskFits(u, r, contract, view, job)
      BY <2>2, <3>2, <3>7, <3>8, ReplacedTask
    <3>10. tasks' = (tasks \ {t}) \union {u}
      BY <2>6, <3>7 DEF ReplaceTask
    <3>11. /\ tasks' \subseteq TaskType
           /\ \A x \in tasks' : /\ x.id.epoch_id = job.epoch_id
                                /\ x.pc # "waiting" => TaskFits(x, ran', contract, view, job)
      BY <2>2, <3>3, <3>6, <3>9, <3>10 DEF TaskFits
    <3>12. /\ DOMAIN temporary' \subseteq IdType
           /\ \A id \in DOMAIN temporary' : FileFits(temporary'[id], id, ran', contract, view, job)
      BY <2>1, <3>3, <3>6 DEF KeysInvariant, TemporaryInv, FileFits
    <3> QED BY <1>1, <2>1, <2>2, <2>3, <2>4, <3>3, <3>5, <3>11, <3>12, TasksMove
  <2>7. CASE tasks' = tasks \ {t} /\ UNCHANGED ran
    <3>1. RunsMarked(ran, markers \union {t.id}, view)
      BY DEF KeysInvariant, RanInv, RunsMarked
    <3>2. RanInv'
      BY <1>1, <2>1, <2>4, <2>7, <3>1 DEF KeysInvariant, RanInv
    <3>3. /\ tasks' \subseteq TaskType
          /\ \A x \in tasks' : /\ x.id.epoch_id = job.epoch_id
                               /\ x.pc # "waiting" => TaskFits(x, ran', contract, view, job)
      BY <2>2, <2>7
    <3>4. /\ DOMAIN temporary' \subseteq IdType
          /\ \A id \in DOMAIN temporary' : FileFits(temporary'[id], id, ran', contract, view, job)
      BY <2>1, <2>7 DEF KeysInvariant, TemporaryInv
    <3> QED BY <1>1, <2>1, <2>2, <2>3, <2>4, <2>7, <3>2, <3>3, <3>4, TasksMove
  <2> QED BY <1>3, <2>6, <2>7
<1> QED BY <1>2, <1>3 DEF StartTask, CanStartGenerating, CanStartResharing, StartedMarkerIsFree

\* The node votes for the key it has stored.
LEMMA VoteKeeps ==
  ASSUME KeysInvariant, NEW t \in tasks, UNCHANGED <<chainVars, channels>>,
         Vote(t) \/ DropTask(t)
  PROVE  KeysInvariant'
  BY TaskLeaves DEF Vote, DropTask

\* Every step of the node preserves the invariant.
LEMMA NodeStepKeeps ==
  ASSUME KeysInvariant, NodeStep
  PROVE  KeysInvariant'
<1>1. Node /\ UNCHANGED chainVars
  BY DEF NodeStep
<1>2. CASE /\ \/ OnboardingDone \/ StartOnboarding
              \/ StartJob \/ SeeContract
              \/ BeginPromotion \/ ReturnPromotion \/ BeginServing
              \/ SkipImport \/ ImportBackup
              \/ ContinueStore
           /\ UNCHANGED channels
  BY <1>1, <1>2, OnboardingDoneKeeps, StartOnboardingKeeps, StartJobKeeps, SeeContractKeeps,
     BeginPromotionKeeps, ReturnPromotionKeeps, BeginServingKeeps, SkipImportKeeps,
     ImportBackupKeeps, ContinueStoreKeeps
<1>3. CASE /\ \E t \in tasks : StartTask(t) \/ FinishTask(t) \/ CommitTask(t)
                            \/ KeygenFails(t) \/ ResharingFails(t)
           /\ UNCHANGED channels
  BY <1>1, <1>3, StartTaskKeeps, FinishTaskKeeps, CommitTaskKeeps, VoteKeeps
     DEF KeygenFails, ResharingFails
<1>4. CASE (CancelOnboarding \/ Conclude) /\ UNCHANGED channels
  BY <1>1, <1>4, CancelOnboardingKeeps, ConcludeKeeps
<1>5. CASE (\E t \in tasks : VotePk(t) \/ VoteReshared(t)) /\ UNCHANGED channels
  BY <1>1, <1>5, VoteKeeps DEF VotePk, VoteReshared
<1>6. CASE \E c \in channels : KeygenFollower(c) \/ ResharingFollower(c)
  BY <1>1, <1>6, ReceiveChannelKeeps DEF KeygenFollower, ResharingFollower
<1> QED BY <1>1, <1>2, <1>3, <1>4, <1>5, <1>6 DEF Node

\* The invariant holds at the start.
LEMMA KeysInitially ==
  ASSUME KeysInit
  PROVE  KeysInvariant
<1>1. /\ tasks = {} /\ channels = {} /\ ran = {} /\ job = NoJob /\ view = contract
      /\ onboarded = FALSE /\ next_domain_id = 0 /\ previously_cancelled = NoEpoch
      /\ instance = 0 /\ permanent = NoPermanent /\ storing = NotStoring
      /\ temporary = [id \in {} |-> <<>>]
  BY DEF KeysInit, StorageInit
<1>2. PICK m \in BOOLEAN :
        contract = [phase |-> "Running", keyset |-> [epoch_id |-> 0, keys |-> <<>>],
                    completed |-> <<>>, id |-> KeyEventId(NoEpoch, 0, 0), started |-> FALSE,
                    member |-> ~m, joins |-> FALSE, migrating |-> m]
  BY NodeAssumption DEF KeysInit
<1>0. PICK ks : ks = [epoch_id |-> 0, keys |-> <<>>]
  OBVIOUS
<1>3. ks = [epoch_id |-> 0, keys |-> <<>>] /\ ks.epoch_id = 0 /\ ks.keys = <<>> /\ ks \in KeysetType
  BY <1>0, NoKeys DEF KeysetType
<1>4. PICK i \in IdType : i = KeyEventId(NoEpoch, 0, 0)
  BY IdFields, NoEpoch \in Int, 0 \in Nat DEF NoEpoch
<1>5. PICK q \in Seq(KeyType) : q = <<>>
  BY NoKeys
<1>6. PICK c : c = contract
  OBVIOUS
<1>7. c = [phase |-> "Running", keyset |-> ks, completed |-> q, id |-> i, started |-> FALSE,
           member |-> ~m, joins |-> FALSE, migrating |-> m]
  BY <1>2, <1>3, <1>4, <1>5, <1>6
<1>8. /\ c \in StateType /\ c.phase = "Running" /\ c.keyset = ks /\ ~c.started /\ ~c.joins
      /\ (c.migrating => ~c.member)
  <2>1. c \in StateType
    <3>1. ks \in KeysetType
      BY <1>3
    <3> QED BY <1>7, <3>1 DEF StateType
  <2> QED BY <1>7, <2>1
<1>9. Shape(c)
  BY <1>3, <1>8 DEF Shape, Ascends
<1>10. Below(c, 0) /\ Lags(c, c)
  <2>1. Grown(ks, ks)
    BY <1>3, GrownReflexive
  <2> QED BY <1>3, <1>8, <2>1 DEF Below, Lags
<1>11. ChainInv
  BY <1>1, <1>6, <1>8, <1>9, <1>10 DEF ChainInv, NoEpoch
<1>12. ViewInv
  BY <1>1, <1>6, <1>8, <1>9, <1>10 DEF ViewInv
<1>13. RanInv
  <2>1. NoOtherRun({}, c) /\ RunsMarked({}, markers, c) /\ RunsSeen({}, c, c) /\ OneRun({})
    BY DEF NoOtherRun, RunsMarked, RunsSeen, OneRun
  <2>2. AllSettled({}, c, c)
    BY <1>3, <1>8 DEF AllSettled
  <2> QED BY <1>1, <1>6, <2>1, <2>2 DEF RanInv
<1>14. NoJob \in JobType /\ JobFits(NoJob, c, permanent) /\ NoJob.kind = "None"
       /\ NoJob.keyset.keys = <<>> /\ NoJob.status = "new"
  BY <1>8, <1>9, NoJobFits
<1>15. JobInv
  BY <1>1, <1>6, <1>14 DEF JobInv
<1>16. TaskInv /\ TemporaryInv
  BY <1>1 DEF TaskInv, TemporaryInv
<1>17. PermanentInv
  <2>1. PICK d : d = NoPermanent
    OBVIOUS
  <2>2. d \in DataType /\ d.epoch_id = NoEpoch /\ d.keyshares = <<>>
    BY <2>1 DEF NoPermanent, DataType, NoEpoch
  <2>3. StoredOf(d, c.keyset) /\ Certified(d, c.keyset)
    BY <1>3, <1>8, <2>2 DEF StoredOf, Certified, NoEpoch
  <2> QED BY <1>1, <1>6, <1>14, <2>1, <2>2, <2>3 DEF PermanentInv
<1>18. StoringInv
  BY <1>1, NotStoringIdle DEF StoringInv, StoreFits
<1>19. PromotionSucceeds
  BY <1>1, <1>14 DEF PromotionSucceeds
<1> QED BY <1>11, <1>12, <1>13, <1>15, <1>16, <1>17, <1>18, <1>19 DEF KeysInvariant

\* Every step preserves the invariant.
LEMMA KeysStep == KeysInvariant /\ [KeysNext]_keysVars => KeysInvariant'
<1> SUFFICES ASSUME KeysInvariant, [KeysNext]_keysVars PROVE KeysInvariant'
  OBVIOUS
<1>1. CASE KeysNext
  BY <1>1, ChainStepKeeps, NodeStepKeeps, CrashKeeps DEF KeysNext
<1>2. CASE UNCHANGED keysVars
  <2>1. NodeUnchanged /\ UNCHANGED <<contract, next_domain_id, previously_cancelled, instance, channels>>
    BY <1>2 DEF keysVars, nodeVars, chainVars, NodeUnchanged
  <2> QED BY <2>1, QuietMove DEF KeysInvariant, ChainInv
<1> QED BY <1>1, <1>2

\* The key shares a node serves with are the certified ones, of the keyset in
\* use, and it runs no key id twice, whatever crashes and dropped jobs leave.
LEMMA KeysInvariantServes == KeysInvariant => ServesSound
<1> SUFFICES ASSUME KeysInvariant PROVE ServesSound
  OBVIOUS
<1>1. RunOnce
  BY DEF KeysInvariant, RanInv, OneRun, RunOnce
<1>2. ServesCurrentKeyset
  BY DEF KeysInvariant, JobInv, JobFits, ServesCurrentKeyset
<1>3. ServesCertifiedShares
  <2>1. SUFFICES ASSUME job.kind = "Running", job.status = "serving"
                 PROVE  /\ job.keyset.keys # <<>> => permanent.epoch_id = job.keyset.epoch_id
                        /\ \A i \in 1 .. Len(job.keyset.keys) :
                             permanent.keyshares[i] = BackupShare(job.keyset.epoch_id, job.keyset.keys[i])
    BY DEF ServesCertifiedShares
  <2>2. /\ job.member /\ view.member /\ job.keyset = view.keyset
        /\ job.keyset.keys # <<>> => /\ permanent.epoch_id = job.keyset.epoch_id
                                     /\ Len(permanent.keyshares) = Len(job.keyset.keys)
    BY <2>1 DEF KeysInvariant, JobInv, JobFits
  <2>3. Certified(permanent, job.keyset)
    BY <2>2 DEF KeysInvariant, PermanentInv, Counted
  <2>4. ASSUME NEW i \in 1 .. Len(job.keyset.keys)
        PROVE  permanent.keyshares[i] = BackupShare(job.keyset.epoch_id, job.keyset.keys[i])
    <3>1. job.keyset.keys # <<>>
      OBVIOUS
    <3>2. i \in DOMAIN permanent.keyshares
      BY <2>1, <2>2, <3>1, JobKeyset
    <3> QED BY <2>2, <2>3, <3>1, <3>2 DEF Certified
  <2> QED BY <2>2, <2>4
<1> QED BY <1>1, <1>2, <1>3 DEF ServesSound

\* A job that serves requests does so with the shares of exactly the run the contract
\* certified and for the keyset in use, and the started marker (temporary.rs) admits one
\* run per key event id: for any number of domains, attempts, epochs and crashes, in
\* whatever order the node sees the contract change, channels arrive, jobs are dropped
\* (coordinator.rs) and votes are counted.
THEOREM ServesSoundAlways == KeysSpec => []ServesSound
<1>1. KeysInit => KeysInvariant
  BY KeysInitially
<1>2. KeysInvariant /\ [KeysNext]_keysVars => KeysInvariant'
  BY KeysStep
<1>3. KeysInvariant => ServesSound
  BY KeysInvariantServes
<1> QED BY <1>1, <1>2, <1>3, PTL DEF KeysSpec

\* update_permanent_keyshares (keyshare.rs) never fails because the permanent store refuses
\* the keyset (fewer domains, an older epoch or other keys): when it fails a share is
\* missing, or a store that was cut off has left its numbered file behind.
THEOREM PromotionSucceedsAlways == KeysSpec => []PromotionSucceeds
<1>1. KeysInit => KeysInvariant
  BY KeysInitially
<1>2. KeysInvariant /\ [KeysNext]_keysVars => KeysInvariant'
  BY KeysStep
<1>3. KeysInvariant => PromotionSucceeds
  BY DEF KeysInvariant
<1> QED BY <1>1, <1>2, <1>3, PTL DEF KeysSpec

(***************************************************************************)
(* The shares that the contract counts on, when the contract moves.        *)
(***************************************************************************)

\* The files and the node stay as they are.
NothingMoves == NodeUnchanged /\ UNCHANGED <<hasty, migrant>>

\* What the node writes does not depend on the contract.
LEMMA WritesStay ==
  ASSUME HeldInvariant, NodeUnchanged
  PROVE  WriteInv' /\ CopyInv'
<1> USE DEF NodeUnchanged, storageVars, disk
<1>1. WriteInv'
  BY DEF HeldInvariant, WriteInv
<1>2. CopyInv'
  BY DEF HeldInvariant, CopyInv, CanLoadKeyset, StoredPrefix, CanLoad
<1> QED BY <1>1, <1>2

\* A step that completes no key takes away none that counts.
LEMMA QuietHolds ==
  ASSUME HeldInvariant, NothingMoves, Quiet(contract, contract'),
         VoteHolds(voted', contract', temporary), txs' \subseteq txs
  PROVE  HeldInvariant'
<1> USE DEF NothingMoves, NodeUnchanged, storageVars, disk
<1>1. PICK c : c = contract
  OBVIOUS
<1>2. PICK d : d = contract'
  OBVIOUS
<1>3. Quiet(c, d) /\ Holds(c, temporary, permanent_keys, hasty, migrant)
  BY <1>1, <1>2 DEF HeldInvariant, CountedInv
<1>4. Holds(d, temporary, permanent_keys, hasty, migrant)
  <2>1. d.phase = "Resharing" /\ d.joins => AllInFiles(temporary, d.id.epoch_id, d.completed)
    <3>1. CASE d.completed = <<>>
      BY <3>1 DEF AllInFiles
    <3>2. CASE /\ c.phase = "Resharing" /\ c.joins
               /\ d.completed = c.completed /\ d.id.epoch_id = c.id.epoch_id
      BY <1>3, <3>2 DEF Holds
    <3> QED BY <1>3, <3>1, <3>2 DEF Quiet
  <2> QED BY <1>3, <2>1 DEF Holds, Quiet
<1>5. CountedInv'
  BY <1>2, <1>4 DEF CountedInv
<1>6. \A tx : TxHolds(tx, c, temporary, permanent_keys, hasty) =>
                TxHolds(tx, d, temporary, permanent_keys, hasty)
  BY <1>3 DEF TxHolds, Quiet
<1>7. VoteInv'
  BY <1>1, <1>2, <1>6 DEF HeldInvariant, VoteInv
<1> QED BY <1>5, <1>7, WritesStay DEF HeldInvariant

\* An attempt that is started is not of an epoch before the keyset's.
LEMMA StartedEpoch ==
  ASSUME KeysInvariant, contract.started
  PROVE  /\ contract.keyset.epoch_id <= contract.id.epoch_id
         /\ contract.keyset.epoch_id \in Nat /\ contract.id.epoch_id \in Int
         /\ contract.phase \in {"Initializing", "Resharing"}
<1>1. contract \in StateType /\ Shape(contract)
  BY DEF KeysInvariant, ChainInv
<1>2. contract.phase \in {"Initializing", "Resharing"}
  BY <1>1 DEF Shape, StateType
<1> QED BY <1>1, <1>2, StateFields DEF Shape

\* The vote of the node arrives.
LEMMA ReceiveVoteHolds ==
  ASSUME KeysInvariant, HeldInvariant, NothingMoves, NEW tx \in txs, ReceiveVote(tx),
         Quiet(contract, contract'), txs' \subseteq txs
  PROVE  HeldInvariant'
<1>1. contract' = contract
  BY DEF ReceiveVote
<1>2. VoteHolds(voted', contract, temporary)
  <2>1. CASE voted
    BY <2>1 DEF HeldInvariant, VoteInv, VoteHolds
  <2>2. CASE contract.started /\ tx.id = contract.id
    <3>1. TxHolds(tx, contract, temporary, permanent_keys, hasty) /\ tx.kind = "vote"
      BY DEF HeldInvariant, VoteInv, ReceiveVote
    <3>2. HasFile(temporary, contract.id) \/ contract.id.epoch_id < contract.keyset.epoch_id
      BY <2>2, <3>1 DEF TxHolds
    <3>3. HasFile(temporary, contract.id)
      BY <2>2, <3>2, StartedEpoch
    <3> QED BY <2>2, <3>3 DEF VoteHolds
  <2>3. CASE ~voted'
    BY <2>3 DEF VoteHolds
  <2> QED BY <2>1, <2>2, <2>3 DEF ReceiveVote
<1> QED BY <1>1, <1>2, QuietHolds

\* The migration is concluded with the shares on disk, or in haste.
LEMMA ReceiveConcludeHolds ==
  ASSUME KeysInvariant, HeldInvariant, NothingMoves, NEW tx \in txs, ReceiveConclude(tx),
         txs' \subseteq txs
  PROVE  HeldInvariant'
<1> USE DEF NothingMoves, NodeUnchanged, storageVars, disk
<1>0. voted' = voted /\ contract \in StateType /\ Shape(contract)
  BY DEF ReceiveConclude, KeysInvariant, ChainInv
<1>1. CASE contract' = contract
  <2>1. PICK c : c = contract
    OBVIOUS
  <2>2. Quiet(c, c)
    BY DEF Quiet
  <2>3. Quiet(contract, contract') /\ VoteHolds(voted', contract', temporary)
    BY <1>0, <1>1, <2>1, <2>2 DEF HeldInvariant, VoteInv
  <2> QED BY <2>3, QuietHolds
<1>2. CASE /\ contract.phase = "Running" /\ contract.migrating /\ tx.keyset = contract.keyset
           /\ contract' = [contract EXCEPT !.migrating = FALSE, !.member = TRUE]
  <2>1. PICK d : d = contract'
    OBVIOUS
  <2>2. /\ d.phase = "Running" /\ d.keyset = contract.keyset
        /\ d.member /\ ~d.migrating
    BY <1>0, <1>2, <2>1 DEF StateType
  <2>3. ~hasty => AllOnDisk(temporary, permanent_keys, d.keyset)
    <3>1. TxHolds(tx, contract, temporary, permanent_keys, hasty) /\ tx.kind = "conclude"
      BY DEF HeldInvariant, VoteInv, ReceiveConclude
    <3> QED BY <1>2, <2>2, <3>1 DEF TxHolds
  <2>4. migrant
    BY <1>2 DEF HeldInvariant, CountedInv, Holds
  <2>5. Holds(d, temporary, permanent_keys, hasty, migrant)
    BY <2>2, <2>3, <2>4 DEF Holds
  <2>6. ~voted
    BY <1>0, <1>2 DEF HeldInvariant, VoteInv, VoteHolds, Shape
  <2>7. \A x : TxHolds(x, contract, temporary, permanent_keys, hasty) =>
                 TxHolds(x, d, temporary, permanent_keys, hasty)
    BY <2>2 DEF TxHolds
  <2>8. CountedInv'
    BY <2>1, <2>5 DEF CountedInv
  <2>9. VoteInv'
    BY <1>0, <2>1, <2>6, <2>7 DEF HeldInvariant, VoteInv, VoteHolds
  <2> QED BY <2>8, <2>9, WritesStay DEF HeldInvariant
<1> QED BY <1>1, <1>2 DEF ReceiveConclude

\* A file of one share.
LEMMA OneShare ==
  ASSUME NEW f \in Seq(ShareType), Len(f) = 1
  PROVE  f[1] \in ShareType /\ f = <<f[1]>>
  OBVIOUS

\* The node's own share of the key that is completed is in its file, with the
\* run and the public key that the contract certifies.
LEMMA CompletedShare ==
  ASSUME KeysInvariant, HeldInvariant, MayComplete, Needed(contract),
         NEW k \in KeyType, k.domain_id = contract.id.domain_id,
         k.attempt = contract.id.attempt_id, k.instance = instance,
         k.key = IF contract.phase = "Initializing" THEN instance
                 ELSE contract.keyset.keys[Len(contract.completed) + 1].key
  PROVE  InFile(temporary, contract.id.epoch_id, k)
<1>1. /\ contract \in StateType /\ Shape(contract) /\ contract.started
      /\ HasFile(temporary, contract.id) /\ <<contract.id, instance>> \in ran
  BY DEF KeysInvariant, ChainInv, MayComplete, HeldInvariant, VoteInv, VoteHolds
<1>2. IdOf(contract.id.epoch_id, k) = contract.id
  BY <1>1, StateFields DEF IdOf, KeyEventId, IdType
<1>3. PICK f : f = temporary[contract.id]
  OBVIOUS
<1>4. /\ contract.id \in DOMAIN temporary
      /\ f \in Seq(ShareType) /\ Len(f) = 1 /\ f[1].key_id = contract.id
      /\ OwnShare(f[1], ran, contract, view, job)
  BY <1>1, <1>3 DEF HasFile, KeysInvariant, TemporaryInv, FileFits
<1>5. PICK s : s = f[1] /\ s \in ShareType
  <2>1. f \in Seq(ShareType) /\ Len(f) = 1
    BY <1>4
  <2>2. f[1] \in ShareType
    BY <2>1, OneShare
  <2> QED BY <2>2
<1>6. s.key_id = contract.id /\ <<s.key_id, s.instance>> \in ran /\ Certifiable(s, contract)
  BY <1>4, <1>5 DEF OwnShare
<1>7. s.instance = instance
  <2>1. OneRun(ran)
    BY DEF KeysInvariant, RanInv
  <2>2. PICK x \in ran : x = <<s.key_id, s.instance>>
    BY <1>6
  <2>3. PICK y \in ran : y = <<contract.id, instance>>
    BY <1>1
  <2>4. x = y
    BY <1>6, <2>1, <2>2, <2>3 DEF OneRun
  <2> QED BY <2>2, <2>3, <2>4
<1>8. s.public_key = k.key
  <2>1. CASE contract.phase = "Initializing"
    BY <1>6, <1>7, <2>1 DEF Certifiable
  <2>2. CASE contract.phase = "Resharing"
    <3> DEFINE n == Len(contract.completed) + 1
               ks == contract.keyset.keys
    <3>1. /\ contract.keyset.epoch_id < contract.id.epoch_id
          /\ n \in DOMAIN ks /\ ks[n].domain_id = contract.id.domain_id
          /\ contract.keyset \in KeysetType /\ Ascends(ks)
      BY <1>1, <2>2, StateFields DEF Shape
    <3>2. PICK i \in DOMAIN ks : ks[i].domain_id = contract.id.domain_id /\ ks[i].key = s.public_key
      BY <1>6, <3>1 DEF Certifiable
    <3>3. i = n
      BY <3>1, <3>2, AscendsInjective
    <3> QED BY <2>2, <3>2, <3>3
  <2> QED BY <1>1, <2>1, <2>2, StartedEpoch
<1>9. s = BackupShare(contract.id.epoch_id, k)
  BY <1>2, <1>5, <1>6, <1>7, <1>8 DEF BackupShare, Keyshare, ShareType
<1>10. f = <<s>>
  BY <1>4, <1>5
<1> QED BY <1>2, <1>3, <1>4, <1>9, <1>10 DEF InFile

\* One key more in the files.
LEMMA OneMoreInFiles ==
  ASSUME NEW g, NEW e, NEW q \in Seq(KeyType), NEW k \in KeyType, InFile(g, e, k),
         AllInFiles(g, e, q)
  PROVE  AllInFiles(g, e, Append(q, k))
<1>1. PICK w : w = Append(q, k)
  OBVIOUS
<1>2. \A i \in DOMAIN w : (i \in DOMAIN q /\ w[i] = q[i]) \/ w[i] = k
  BY <1>1
<1>3. AllInFiles(g, e, w)
  BY <1>2 DEF AllInFiles
<1> QED BY <1>1, <1>3

\* A keyset with one more key that has its file is on disk.
LEMMA OneMoreOnDisk ==
  ASSUME NEW g, NEW p, NEW a \in KeysetType, NEW b \in KeysetType, NEW k \in KeyType,
         a.epoch_id = b.epoch_id, b.keys = Append(a.keys, k), InFile(g, a.epoch_id, k),
         AllOnDisk(g, p, a)
  PROVE  AllOnDisk(g, p, b)
<1>1. a.keys \in Seq(KeyType)
  BY DEF KeysetType
<1>2. \A i \in DOMAIN b.keys : (i \in DOMAIN a.keys /\ b.keys[i] = a.keys[i]) \/ b.keys[i] = k
  BY <1>1
<1> QED BY <1>2 DEF AllOnDisk

\* Keys that have their files are on disk.
LEMMA AllInFilesOnDisk ==
  ASSUME NEW g, NEW p, NEW ks, AllInFiles(g, ks.epoch_id, ks.keys)
  PROVE  AllOnDisk(g, p, ks)
  BY DEF AllInFiles, AllOnDisk

\* When the keyset has grown, no transaction concludes with it yet.
LEMMA NewKeysetTx ==
  ASSUME NEW c \in StateType, NEW d \in StateType, Grown(c.keyset, d.keyset),
         ~Grown(d.keyset, c.keyset), NEW tx, NEW g, NEW p, NEW h, TxHolds(tx, c, g, p, h)
  PROVE  TxHolds(tx, d, g, p, h)
<1>1. c.keyset \in KeysetType /\ d.keyset \in KeysetType
      /\ c.keyset.epoch_id \in Int /\ d.keyset.epoch_id \in Int
  BY StateFields
<1>2. CASE /\ tx.kind = "vote" /\ tx.id \in IdType
           /\ HasFile(g, tx.id) \/ tx.id.epoch_id < c.keyset.epoch_id
  <2>1. c.keyset.epoch_id <= d.keyset.epoch_id /\ tx.id.epoch_id \in Int
    BY <1>2 DEF Grown, IdType
  <2>2. HasFile(g, tx.id) \/ tx.id.epoch_id < d.keyset.epoch_id
    BY <1>1, <1>2, <2>1
  <2> QED BY <1>2, <2>2 DEF TxHolds
<1>3. CASE tx.kind = "conclude" /\ tx.keyset \in KeysetType /\ Grown(tx.keyset, c.keyset)
  <2>1. Grown(tx.keyset, d.keyset)
    BY <1>1, <1>3, GrownTransitive
  <2>2. tx.keyset # d.keyset
    BY <1>3
  <2> QED BY <1>3, <2>1, <2>2 DEF TxHolds
<1> QED BY <1>2, <1>3 DEF TxHolds

\* The key completes by the node's own vote, and that vote has a file behind it.
LEMMA CompleteKeyHolds ==
  ASSUME KeysInvariant, HeldInvariant, NothingMoves, CompleteKey,
         Completes(contract, contract', instance), ~voted', txs' = txs,
         contract' \in StateType
  PROVE  HeldInvariant'
<1> USE DEF NothingMoves, NodeUnchanged, storageVars, disk
<1>1. contract \in StateType /\ Shape(contract) /\ MayComplete
  BY DEF KeysInvariant, ChainInv, CompleteKey
<1>2. PICK c : c = contract
  OBVIOUS
<1>3. PICK d : d = contract'
  OBVIOUS
<1>4. PICK k \in KeyType :
        /\ k.domain_id = c.id.domain_id /\ k.attempt = c.id.attempt_id /\ k.instance = instance
        /\ k.key = IF c.phase = "Initializing" THEN instance
                   ELSE c.keyset.keys[Len(c.completed) + 1].key
        /\ d.migrating = c.migrating
        /\ \/ /\ c.phase = "Initializing" /\ d.phase = "Running" /\ d.member = c.member
              /\ d.keyset = [epoch_id |-> c.id.epoch_id, keys |-> Append(c.keyset.keys, k)]
              /\ d.completed = <<>>
           \/ /\ c.phase = "Resharing" /\ d.phase = "Running" /\ d.member = c.joins
              /\ d.keyset = [epoch_id |-> c.id.epoch_id, keys |-> Append(c.completed, k)]
              /\ Len(c.completed) + 1 = Len(c.keyset.keys)
              /\ d.completed = <<>>
           \/ /\ c.phase = "Resharing" /\ d.phase = "Resharing" /\ d.member = c.member
              /\ d.joins = c.joins /\ d.keyset = c.keyset
              /\ d.completed = Append(c.completed, k) /\ d.id.epoch_id = c.id.epoch_id
  BY <1>2, <1>3 DEF Completes
<1>5. Needed(c) => InFile(temporary, c.id.epoch_id, k)
  BY <1>1, <1>2, <1>4, CompletedShare
<1>6. /\ c \in StateType /\ d \in StateType /\ Shape(c)
      /\ Holds(c, temporary, permanent_keys, hasty, migrant)
      /\ \A tx \in txs : TxHolds(tx, c, temporary, permanent_keys, hasty)
  BY <1>1, <1>2, <1>3 DEF HeldInvariant, CountedInv, VoteInv
<1>7. /\ Holds(d, temporary, permanent_keys, hasty, migrant)
      /\ \A tx \in txs : TxHolds(tx, d, temporary, permanent_keys, hasty)
  <2>1. CASE /\ c.phase = "Initializing" /\ d.phase = "Running" /\ d.member = c.member
             /\ d.keyset = [epoch_id |-> c.id.epoch_id, keys |-> Append(c.keyset.keys, k)]
    <3>1. /\ c.keyset.keys \in Seq(KeyType) /\ c.id.epoch_id = c.keyset.epoch_id
          /\ c.keyset.epoch_id \in Int /\ c.keyset \in KeysetType /\ d.keyset \in KeysetType
      BY <1>6, <2>1, StateFields DEF Shape
    <3>2. d.keyset.epoch_id = c.keyset.epoch_id /\ d.keyset.keys = Append(c.keyset.keys, k)
      BY <2>1, <3>1
    <3>3. c.member => InFile(temporary, c.keyset.epoch_id, k)
      BY <1>5, <2>1, <3>1 DEF Needed
    <3>4. d.member /\ ~migrant => AllInFiles(temporary, d.keyset.epoch_id, d.keyset.keys)
      BY <1>6, <2>1, <3>1, <3>2, <3>3, OneMoreInFiles DEF Holds
    <3>5. d.member /\ ~hasty => AllOnDisk(temporary, permanent_keys, d.keyset)
      <4>1. SUFFICES ASSUME d.member, ~hasty
                     PROVE  AllOnDisk(temporary, permanent_keys, d.keyset)
        OBVIOUS
      <4>2. AllOnDisk(temporary, permanent_keys, c.keyset) /\ InFile(temporary, c.keyset.epoch_id, k)
        BY <1>6, <2>1, <3>3, <4>1 DEF Holds
      <4> QED BY <3>1, <3>2, <4>2, OneMoreOnDisk
    <3>6. Holds(d, temporary, permanent_keys, hasty, migrant)
      BY <1>4, <1>6, <2>1, <3>4, <3>5 DEF Holds
    <3>7. Grown(c.keyset, d.keyset) /\ ~Grown(d.keyset, c.keyset)
      BY <3>1, <3>2 DEF Grown, SameKey
    <3> QED BY <1>6, <3>6, <3>7, NewKeysetTx
  <2>2. CASE /\ c.phase = "Resharing" /\ d.phase = "Running" /\ d.member = c.joins
             /\ d.keyset = [epoch_id |-> c.id.epoch_id, keys |-> Append(c.completed, k)]
             /\ Len(c.completed) + 1 = Len(c.keyset.keys)
    <3>1. /\ c.completed \in Seq(KeyType) /\ c.id.epoch_id \in Int
          /\ c.keyset.epoch_id \in Int /\ c.keyset.epoch_id < c.id.epoch_id
      BY <1>6, <2>2, StateFields DEF Shape
    <3>2. d.keyset.epoch_id = c.id.epoch_id /\ d.keyset.keys = Append(c.completed, k)
      BY <2>2
    <3>3. d.member => AllInFiles(temporary, d.keyset.epoch_id, d.keyset.keys)
      BY <1>5, <1>6, <2>2, <3>1, <3>2, OneMoreInFiles DEF Holds, Needed
    <3>4. Holds(d, temporary, permanent_keys, hasty, migrant)
      BY <1>4, <1>6, <2>2, <3>3, AllInFilesOnDisk DEF Holds
    <3>5. ~Grown(d.keyset, c.keyset)
      BY <3>1, <3>2 DEF Grown
    <3>6. Grown(c.keyset, d.keyset)
      <4>1. PICK w : w = d.keyset.keys
        OBVIOUS
      <4>2. PICK ks : ks = c.keyset.keys
        OBVIOUS
      <4>3. PICK q \in Seq(KeyType) : q = c.completed
        BY <3>1
      <4>4. PICK n \in Nat : n = Len(q)
        BY <4>3
      <4>5. Len(ks) = n + 1 /\ DOMAIN ks = 1 .. n + 1 /\ DOMAIN q = 1 .. n
        BY <1>6, <2>2, <4>2, <4>3, <4>4, StateFields
      <4>6. w = Append(q, k)
        BY <3>2, <4>1, <4>3
      <4>7. /\ Len(w) = n + 1 /\ w[n + 1] = k
            /\ \A i \in 1 .. n : w[i] = q[i]
        BY <4>4, <4>6
      <4>8. /\ \A i \in 1 .. n : SameKey(q[i], ks[i])
            /\ k.domain_id = ks[n + 1].domain_id /\ k.key = ks[n + 1].key
        BY <1>4, <1>6, <2>2, <4>2, <4>3, <4>4, <4>5 DEF Shape
      <4>9. ASSUME NEW i \in DOMAIN ks
            PROVE  SameKey(ks[i], w[i])
        <5>1. i \in 1 .. n \/ i = n + 1
          BY <4>4, <4>5
        <5> QED BY <4>7, <4>8, <5>1 DEF SameKey
      <4>10. Len(c.keyset.keys) = Len(d.keyset.keys)
        BY <4>1, <4>2, <4>5, <4>7
      <4>11. Len(c.keyset.keys) <= Len(d.keyset.keys)
        BY <4>2, <4>4, <4>5, <4>10
      <4> QED BY <3>1, <3>2, <4>1, <4>2, <4>9, <4>11, SMTT(30) DEF Grown
    <3> QED BY <1>6, <3>4, <3>5, <3>6, NewKeysetTx
  <2>3. CASE /\ c.phase = "Resharing" /\ d.phase = "Resharing" /\ d.member = c.member
             /\ d.joins = c.joins /\ d.keyset = c.keyset
             /\ d.completed = Append(c.completed, k) /\ d.id.epoch_id = c.id.epoch_id
    <3>1. c.completed \in Seq(KeyType)
      BY <1>6, StateFields
    <3>2. d.joins => AllInFiles(temporary, d.id.epoch_id, d.completed)
      BY <1>5, <1>6, <2>3, <3>1, OneMoreInFiles DEF Holds, Needed
    <3>3. Holds(d, temporary, permanent_keys, hasty, migrant)
      BY <1>4, <1>6, <2>3, <3>2 DEF Holds
    <3> QED BY <1>4, <1>6, <2>3, <3>3 DEF TxHolds
  <2> QED BY <1>4, <2>1, <2>2, <2>3
<1>8. CountedInv'
  BY <1>3, <1>7 DEF CountedInv
<1>9. VoteInv'
  BY <1>3, <1>7 DEF VoteInv, VoteHolds
<1> QED BY <1>8, <1>9, WritesStay DEF HeldInvariant

\* Every step of the contract keeps what counts on disk.
LEMMA ChainStepHolds ==
  ASSUME KeysInvariant, HeldInvariant, ChainStep, UNCHANGED migrant
  PROVE  HeldInvariant'
<1>1. NodeUnchanged /\ NothingMoves /\ Chain
  BY DEF ChainStep, NodeUnchanged, NothingMoves, nodeVars
<1>2. KeysInvariant' /\ contract' \in StateType
  BY ChainStepKeeps DEF KeysInvariant, ChainInv
<1>3. VoteHolds(voted, contract, temporary)
  BY DEF HeldInvariant, VoteInv
<1>4. ~voted' => VoteHolds(voted', contract', temporary)
  BY DEF VoteHolds
<1>5. CASE /\ \/ AddDomain \/ StartInstance \/ FailInstance \/ CompleteKey \/ CancelKeyEvent
              \/ \E joins \in BOOLEAN : BeginResharing(joins)
           /\ UNCHANGED <<channels, txs>>
  <2>1. ASSUME AddDomain
        PROVE  HeldInvariant'
    <3>1. ~voted
      BY <1>3, <2>1 DEF VoteHolds, AddDomain, KeysInvariant, ChainInv, Shape
    <3>2. ~voted'
      BY <2>1, <3>1 DEF AddDomain
    <3> QED BY <1>1, <1>4, <1>5, <2>1, <3>2, AddDomainKeeps, QuietHolds
  <2>2. ASSUME NEW joins \in BOOLEAN, BeginResharing(joins)
        PROVE  HeldInvariant'
    <3>1. ~voted'
      BY <2>2 DEF BeginResharing
    <3> QED BY <1>1, <1>4, <1>5, <2>2, <3>1, BeginResharingKeeps, QuietHolds
  <2>3. ASSUME FailInstance
        PROVE  HeldInvariant'
    <3>1. ~voted'
      BY <2>3 DEF FailInstance
    <3> QED BY <1>1, <1>4, <1>5, <2>3, <3>1, FailInstanceKeeps, QuietHolds
  <2>4. ASSUME CompleteKey
        PROVE  HeldInvariant'
    <3>1. ~voted'
      BY <2>4 DEF CompleteKey, BecomeRunning
    <3> QED BY <1>1, <1>2, <1>5, <2>4, <3>1, CompleteKeyKeeps, CompleteKeyHolds
  <2>5. ASSUME CancelKeyEvent
        PROVE  HeldInvariant'
    <3>1. ~voted'
      BY <2>5 DEF CancelKeyEvent, BecomeRunning
    <3> QED BY <1>1, <1>4, <1>5, <2>5, <3>1, CancelKeeps, QuietHolds
  <2>6. ASSUME StartInstance
        PROVE  HeldInvariant'
    <3>1. ~voted'
      BY <2>6 DEF StartInstance
    <3> QED BY <1>1, <1>4, <1>5, <2>6, <3>1, StartInstanceKeeps, QuietHolds
  <2> QED BY <1>5, <2>1, <2>2, <2>3, <2>4, <2>5, <2>6
<1>6. CASE (KeygenLeader \/ ResharingLeader) /\ UNCHANGED txs
  <2>1. OpenChannel
    BY <1>6 DEF KeygenLeader, ResharingLeader
  <2>2. VoteHolds(voted', contract', temporary)
    BY <1>3, <2>1 DEF OpenChannel
  <2> QED BY <1>1, <1>6, <2>1, <2>2, OpenChannelKeeps, QuietHolds
<1>7. ASSUME NEW tx \in txs, ReceiveVote(tx) \/ ReceiveConclude(tx), txs' = txs \ {tx},
             UNCHANGED channels
      PROVE  HeldInvariant'
  BY <1>1, <1>7, ReceiveVoteKeeps, ReceiveVoteHolds, ReceiveConcludeHolds
<1> QED BY <1>1, <1>5, <1>6, <1>7 DEF Chain

(***************************************************************************)
(* The files that count stay when the node moves.                          *)
(***************************************************************************)

\* Every file with a share of epoch e or later is in h as it was in g.
FilesKept(g, h, e) ==
  \A id \in DOMAIN g : e <= id.epoch_id /\ g[id] # <<>> => id \in DOMAIN h /\ h[id] = g[id]

\* Every copy that has been written is in q as it was in p.
CopiesKept(p, q) == \A f \in DOMAIN p : p[f] # <<>> => f \in DOMAIN q /\ q[f] = p[f]

\* Files that do not change are kept.
LEMMA KeptReflexive ==
  ASSUME NEW g, NEW e
  PROVE  FilesKept(g, g, e) /\ CopiesKept(g, g)
  BY DEF FilesKept, CopiesKept

\* A key of a current epoch keeps its file.
LEMMA InFileKept ==
  ASSUME NEW g, NEW h, NEW e \in Int, NEW a \in Int, NEW k \in KeyType, FilesKept(g, h, e), e <= a,
         InFile(g, a, k)
  PROVE  InFile(h, a, k)
<1>1. IdOf(a, k).epoch_id = a
  BY DEF IdOf, KeyEventId
<1>2. <<BackupShare(a, k)>> # <<>>
  OBVIOUS
<1> QED BY <1>1, <1>2 DEF InFile, FilesKept

\* A share keeps its numbered copy.
LEMMA CopiedKept ==
  ASSUME NEW p, NEW q, NEW s, CopiesKept(p, q), Copied(p, s)
  PROVE  Copied(q, s)
<1>1. PICK f \in DOMAIN p : \E i \in DOMAIN p[f] : p[f][i] = s
  BY DEF Copied
<1>2. p[f] # <<>>
  BY <1>1
<1> QED BY <1>1, <1>2 DEF Copied, CopiesKept

\* Keys of a current epoch keep their files.
LEMMA AllInFilesKept ==
  ASSUME NEW g, NEW h, NEW e \in Int, NEW a \in Int, NEW keys \in Seq(KeyType),
         FilesKept(g, h, e), e <= a, AllInFiles(g, a, keys)
  PROVE  AllInFiles(h, a, keys)
  BY InFileKept DEF AllInFiles

\* A keyset stays on disk when its files and the copies are kept.
LEMMA AllOnDiskKept ==
  ASSUME NEW g, NEW h, NEW p, NEW q, NEW ks \in KeysetType,
         FilesKept(g, h, ks.epoch_id), CopiesKept(p, q), AllOnDisk(g, p, ks)
  PROVE  AllOnDisk(h, q, ks)
<1>1. ASSUME NEW i \in DOMAIN ks.keys
      PROVE  \/ InFile(h, ks.epoch_id, ks.keys[i])
             \/ Copied(q, BackupShare(ks.epoch_id, ks.keys[i]))
  <2>1. ks.epoch_id \in Int /\ ks.keys[i] \in KeyType
    BY KeyAt DEF KeysetType
  <2>2. ks.epoch_id <= ks.epoch_id
    BY <2>1
  <2> QED BY <2>1, <2>2, InFileKept, CopiedKept DEF AllOnDisk
<1> QED BY <1>1 DEF AllOnDisk

\* An id of a current epoch keeps its file.
LEMMA HasFileKept ==
  ASSUME NEW g, NEW h, NEW e, NEW id, FilesKept(g, h, e), e <= id.epoch_id, HasFile(g, id)
  PROVE  HasFile(h, id)
  BY DEF HasFile, FilesKept

\* What counts is kept; the transactions that are sent have to be looked at.
LEMMA FilesMove ==
  ASSUME KeysInvariant, HeldInvariant, UNCHANGED <<chainVars, migrant>>, hasty => hasty',
         FilesKept(temporary, temporary', contract.keyset.epoch_id),
         CopiesKept(permanent_keys, permanent_keys'),
         \A tx \in txs' \ txs : TxHolds(tx, contract, temporary', permanent_keys', hasty')
  PROVE  CountedInv' /\ VoteInv'
<1> USE DEF chainVars
<1>1. /\ contract \in StateType /\ Shape(contract) /\ contract.keyset.epoch_id \in Int
      /\ contract.completed \in Seq(KeyType) /\ contract.keyset \in KeysetType
      /\ contract.keyset.keys \in Seq(KeyType) /\ contract.id.epoch_id \in Int
  BY StateFields DEF KeysInvariant, ChainInv
<1>2. PICK g : g = temporary'
  OBVIOUS
<1>3. PICK p : p = permanent_keys'
  OBVIOUS
<1>4. PICK h : h = hasty'
  OBVIOUS
<1>5. /\ FilesKept(temporary, g, contract.keyset.epoch_id) /\ CopiesKept(permanent_keys, p)
      /\ ~h => ~hasty
  BY <1>2, <1>3, <1>4
<1>6. contract.phase = "Resharing" => contract.keyset.epoch_id <= contract.id.epoch_id
  BY <1>1 DEF Shape
<1>7. /\ AllInFiles(temporary, contract.keyset.epoch_id, contract.keyset.keys)
           => AllInFiles(g, contract.keyset.epoch_id, contract.keyset.keys)
      /\ AllOnDisk(temporary, permanent_keys, contract.keyset) => AllOnDisk(g, p, contract.keyset)
  BY <1>1, <1>5, contract.keyset.epoch_id <= contract.keyset.epoch_id, AllInFilesKept,
     AllOnDiskKept
<1>8. /\ contract.phase = "Resharing"
      /\ AllInFiles(temporary, contract.id.epoch_id, contract.completed)
      => AllInFiles(g, contract.id.epoch_id, contract.completed)
  BY <1>1, <1>5, <1>6, AllInFilesKept
<1>9. Holds(contract, g, p, h, migrant)
  BY <1>5, <1>7, <1>8 DEF HeldInvariant, CountedInv, Holds
<1>10. CountedInv'
  BY <1>2, <1>3, <1>4, <1>9 DEF CountedInv
<1>11. VoteHolds(voted, contract, g)
  BY <1>5, StartedEpoch, HasFileKept DEF HeldInvariant, VoteInv, VoteHolds
<1>12. ASSUME NEW tx \in txs
       PROVE  TxHolds(tx, contract, g, p, h)
  <2>1. TxHolds(tx, contract, temporary, permanent_keys, hasty)
    BY DEF HeldInvariant, VoteInv
  <2>2. CASE /\ tx.kind = "vote" /\ tx.id \in IdType
             /\ HasFile(temporary, tx.id) \/ tx.id.epoch_id < contract.keyset.epoch_id
    <3>1. tx.id.epoch_id \in Int
      BY <2>2 DEF IdType
    <3>2. HasFile(g, tx.id) \/ tx.id.epoch_id < contract.keyset.epoch_id
      BY <1>1, <1>5, <2>2, <3>1, HasFileKept
    <3> QED BY <2>2, <3>2 DEF TxHolds
  <2>3. CASE /\ tx.kind = "conclude" /\ tx.keyset \in KeysetType
             /\ Grown(tx.keyset, contract.keyset)
             /\ ~hasty /\ contract.migrating /\ tx.keyset = contract.keyset =>
                  AllOnDisk(temporary, permanent_keys, contract.keyset)
    BY <1>5, <1>7, <2>3 DEF TxHolds
  <2> QED BY <2>1, <2>2, <2>3 DEF TxHolds
<1>13. VoteInv'
  BY <1>2, <1>3, <1>4, <1>11, <1>12 DEF VoteInv
<1> QED BY <1>10, <1>13

(***************************************************************************)
(* Steps of the node that write no file.                                   *)
(***************************************************************************)

\* The store in progress goes on for the same keyset, or there is none.
LEMMA DiskStays ==
  ASSUME KeysInvariant, HeldInvariant, UNCHANGED <<chainVars, migrant, disk>>, hasty => hasty',
         \A tx \in txs' \ txs : TxHolds(tx, contract, temporary, permanent_keys, hasty'),
         OwnFiles(tasks', temporary),
         \/ storing' = storing /\ job'.keyset = job.keyset
         \/ storing'.pc = "idle",
         job'.kind = "Onboarding" /\ job'.status = "ready" =>
           job' = job \/ CanLoadKeyset(job'.keyset)
  PROVE  HeldInvariant'
<1>1. /\ temporary' = temporary /\ permanent_keys' = permanent_keys /\ permanent' = permanent
  BY DEF disk
<1>2. /\ FilesKept(temporary, temporary', contract.keyset.epoch_id)
      /\ CopiesKept(permanent_keys, permanent_keys')
  BY <1>1, KeptReflexive
<1>3. CountedInv' /\ VoteInv'
  BY <1>1, <1>2, FilesMove
<1>4. WriteInv'
  BY <1>1 DEF WriteInv
<1>5. CopyInv'
  <2>1. Copies(permanent, permanent_keys, storing', job')
    <3>1. Copies(permanent, permanent_keys, storing, job)
      BY DEF HeldInvariant, CopyInv
    <3> QED BY <3>1 DEF Copies
  <2>2. job'.kind = "Onboarding" /\ job'.status = "ready" => CanLoadKeyset(job'.keyset)
    BY DEF HeldInvariant, CopyInv
  <2>3. \A ks : CanLoadKeyset(ks) => CanLoadKeyset(ks)'
    BY <1>1 DEF CanLoadKeyset, StoredPrefix, CanLoad
  <2> QED BY <1>1, <2>1, <2>2, <2>3 DEF CopyInv
<1> QED BY <1>3, <1>4, <1>5 DEF HeldInvariant

\* The node has the shares of the keyset that it concludes the migration with.
LEMMA LoadableOnDisk ==
  ASSUME KeysInvariant, HeldInvariant, job.kind = "Onboarding", CanLoadKeyset(job.keyset),
         contract.migrating, job.keyset = contract.keyset
  PROVE  AllOnDisk(temporary, permanent_keys, contract.keyset)
<1> DEFINE ks == job.keyset
           d == PromotedData(ks)
<1>1. /\ ks \in KeysetType /\ Grown(ks, view.keyset) /\ view.keyset \in KeysetType
      /\ Len(ks.keys) \in Nat /\ DOMAIN ks.keys = 1 .. Len(ks.keys) /\ ks.epoch_id \in Int
      /\ permanent.keyshares \in Seq(ShareType)
      /\ DOMAIN permanent.keyshares = 1 .. Len(permanent.keyshares)
  BY JobKeyset
<1>2. view.migrating /\ ran = {} /\ Counted(view) /\ Grown(view.keyset, ks)
  BY DEF KeysInvariant, ViewInv, RanInv, Lags, Counted
<1>3. ks.epoch_id = view.keyset.epoch_id
  <2>1. view.keyset.epoch_id \in Int
    BY <1>1 DEF KeysetType
  <2> QED BY <1>1, <1>2, <2>1 DEF Grown
<1>4. Certified(permanent, view.keyset)
  BY <1>2 DEF KeysInvariant, PermanentInv
<1>5. ASSUME NEW i \in DOMAIN ks.keys
      PROVE  Copied(permanent_keys, BackupShare(ks.epoch_id, ks.keys[i]))
  <2>1. d.keyshares \in Seq(ShareType) /\ Len(d.keyshares) = Len(ks.keys)
    BY Loaded DEF DataType
  <2>2. i \in DOMAIN d.keyshares
    BY <1>1, <2>1
  <2>3. i <= Len(StoredPrefix(ks))
    BY <1>2, <2>2, Loaded
  <2>4. permanent.epoch_id = ks.epoch_id /\ StoredPrefix(ks) = permanent.keyshares
    BY <1>1, <2>3 DEF StoredPrefix
  <2>5. i \in DOMAIN permanent.keyshares
    BY <1>1, <2>3, <2>4
  <2>6. permanent.keyshares[i] = BackupShare(view.keyset.epoch_id, view.keyset.keys[i])
    BY <1>3, <1>4, <2>4, <2>5 DEF Certified
  <2>7. ks.keys[i] = view.keyset.keys[i]
    BY <1>1, <1>3, GrownKey
  <2>8. permanent.keyshares # <<>>
    BY <2>5
  <2>9. /\ Identifier(permanent) \in DOMAIN permanent_keys
        /\ permanent_keys[Identifier(permanent)] = permanent.keyshares
    BY <2>8 DEF HeldInvariant, CopyInv, Copies
  <2> QED BY <1>3, <2>5, <2>6, <2>7, <2>9 DEF Copied
<1> QED BY <1>5 DEF AllOnDisk

\* The transaction that concludes the onboarding.
LEMMA ConcludeTxHolds ==
  ASSUME KeysInvariant, HeldInvariant, job.kind = "Onboarding", NEW h,
         ~h => CanLoadKeyset(job.keyset)
  PROVE  TxHolds(ConcludeTx, contract, temporary, permanent_keys, h)
<1>1. PICK tx : tx = ConcludeTx
  OBVIOUS
<1>2. tx.kind = "conclude" /\ tx.keyset = job.keyset
  BY <1>1 DEF ConcludeTx
<1>3. /\ job.keyset \in KeysetType /\ Grown(job.keyset, view.keyset)
      /\ Grown(view.keyset, contract.keyset)
      /\ view.keyset \in KeysetType /\ contract.keyset \in KeysetType
  BY JobKeyset, StateFields DEF KeysInvariant, ViewInv, Lags, ChainInv
<1>4. Grown(job.keyset, contract.keyset)
  BY <1>3, GrownTransitive
<1>5. ~h /\ contract.migrating /\ tx.keyset = contract.keyset =>
        AllOnDisk(temporary, permanent_keys, contract.keyset)
  BY <1>2, LoadableOnDisk
<1> QED BY <1>1, <1>2, <1>3, <1>4, <1>5 DEF TxHolds

\* The job changes, or what it is waiting for.
LEMMA JobMoves ==
  ASSUME KeysInvariant, HeldInvariant, UNCHANGED <<chainVars, migrant, hasty, txs>>,
         \/ OnboardingDone \/ StartOnboarding \/ StartJob
         \/ ReturnPromotion \/ BeginServing \/ SkipImport
  PROVE  HeldInvariant'
<1>1. UNCHANGED <<tasks, disk, storing>>
  BY DEF OnboardingDone, StartOnboarding, StartJob, ReturnPromotion, BeginServing, SkipImport,
     storageVars
<1>2. OwnFiles(tasks', temporary)
  BY <1>1 DEF HeldInvariant, WriteInv
<1>3. job \in JobType /\ storing \in StoringType
  BY DEF KeysInvariant, JobInv, StoringInv
<1>4. CASE OnboardingDone
  BY <1>1, <1>2, <1>4, DiskStays DEF OnboardingDone
<1>5. CASE StartOnboarding \/ StartJob
  <2>1. storing.pc = "idle"
    BY <1>3, <1>5 DEF StartOnboarding, StartJob, KeysInvariant, StoringInv, StoreFits
  <2>2. ~(job'.kind = "Onboarding" /\ job'.status = "ready")
    <3>1. CASE StartOnboarding
      <4>1. PICK keyset : job' = [NoJob EXCEPT !.kind = "Onboarding", !.keyset = keyset]
        BY <3>1 DEF StartOnboarding
      <4>2. job'.status = "new"
        BY <4>1 DEF NoJob
      <4> QED BY <4>2
    <3>2. CASE StartJob
      <4>1. job'.kind = view.phase
        BY <3>2 DEF StartJob
      <4> QED BY <4>1 DEF KeysInvariant, ViewInv, StateType
    <3> QED BY <1>5, <3>1, <3>2
  <2> QED BY <1>1, <1>2, <2>1, <2>2, DiskStays
<1>6. ASSUME NEW s \in {"new", "ready", "serving", "concluded", "failed", "halted"}, Status(s),
             job.kind = "Onboarding" /\ s = "ready" => CanLoadKeyset(job.keyset)
      PROVE  HeldInvariant'
  <2>1. job'.keyset = job.keyset /\ job'.kind = job.kind /\ job'.status = s
    BY <1>3, <1>6 DEF Status, JobType
  <2> QED BY <1>1, <1>2, <1>6, <2>1, DiskStays
<1>7. CASE ReturnPromotion
  <2>1. job.kind # "Onboarding"
    BY <1>7 DEF ReturnPromotion, Promoting
  <2>2. Status("ready") \/ Status("failed")
    BY <1>7 DEF ReturnPromotion
  <2> QED BY <1>6, <2>1, <2>2
<1>8. CASE BeginServing
  <2>1. job.kind # "Onboarding" /\ (Status("halted") \/ Status("serving"))
    BY <1>8 DEF BeginServing
  <2> QED BY <1>6, <2>1
<1>9. CASE SkipImport
  BY <1>6, <1>9 DEF SkipImport
<1> QED BY <1>4, <1>5, <1>7, <1>8, <1>9

\* The onboarding sends its transaction: the keyset can be loaded.
LEMMA ConcludeHolds ==
  ASSUME KeysInvariant, HeldInvariant, Conclude, UNCHANGED <<chainVars, migrant, hasty>>
  PROVE  HeldInvariant'
<1>1. /\ job.kind = "Onboarding" /\ job.status = "ready" /\ txs' = txs \union {ConcludeTx}
      /\ Status("concluded") /\ UNCHANGED <<tasks, disk, storing>>
  BY DEF Conclude, storageVars
<1>2. CanLoadKeyset(job.keyset) /\ OwnFiles(tasks', temporary)
  BY <1>1 DEF HeldInvariant, CopyInv, WriteInv
<1>3. TxHolds(ConcludeTx, contract, temporary, permanent_keys, hasty)
  BY <1>1, <1>2, ConcludeTxHolds
<1>4. job'.keyset = job.keyset /\ job'.status = "concluded"
  BY <1>1 DEF Status, KeysInvariant, JobInv, JobType
<1> QED BY <1>1, <1>2, <1>3, <1>4, DiskStays

\* The onboarding is cancelled.
LEMMA CancelOnboardingHolds ==
  ASSUME KeysInvariant, HeldInvariant, CancelOnboarding, UNCHANGED <<chainVars, migrant>>
  PROVE  HeldInvariant'
<1>1. /\ job.kind = "Onboarding" /\ storing.pc = "idle" /\ job' = NoJob
      /\ UNCHANGED <<tasks, disk, storing>>
  BY DEF CancelOnboarding, storageVars
<1>2. OwnFiles(tasks', temporary) /\ storing'.pc = "idle" /\ job'.kind = "None"
  BY <1>1 DEF HeldInvariant, WriteInv, NoJob
<1>3. CASE UNCHANGED <<txs, hasty>>
  BY <1>1, <1>2, <1>3, DiskStays
<1>4. CASE txs' = txs \union {ConcludeTx} /\ hasty' = (hasty \/ ~CanLoadKeyset(job.keyset))
  <2>1. TxHolds(ConcludeTx, contract, temporary, permanent_keys, hasty')
    BY <1>1, <1>4, ConcludeTxHolds
  <2> QED BY <1>1, <1>2, <1>4, <2>1, DiskStays
<1> QED BY <1>3, <1>4 DEF CancelOnboarding

\* The node sees a newer state of the contract.
LEMMA SeeContractHolds ==
  ASSUME KeysInvariant, HeldInvariant, SeeContract,
         UNCHANGED <<chainVars, migrant, hasty, txs>>
  PROVE  HeldInvariant'
<1>1. CASE job' = NoJob /\ tasks' = {} /\ DropStore
  <2>1. UNCHANGED disk /\ storing'.pc = "idle" /\ job'.kind = "None" /\ OwnFiles(tasks', temporary)
    BY <1>1 DEF DropStore, NotStoring, NoJob, OwnFiles
  <2> QED BY <2>1, DiskStays
<1>2. CASE UNCHANGED <<job, tasks, storageVars>>
  <2>1. UNCHANGED <<disk, storing>> /\ OwnFiles(tasks', temporary)
    BY <1>2 DEF HeldInvariant, WriteInv, storageVars
  <2> QED BY <1>2, <2>1, DiskStays
<1> QED BY <1>1, <1>2 DEF SeeContract

\* The process dies.
LEMMA CrashHolds ==
  ASSUME KeysInvariant, HeldInvariant, Crash, UNCHANGED migrant
  PROVE  HeldInvariant'
<1>1. /\ UNCHANGED <<chainVars, disk, txs, hasty>> /\ storing'.pc = "idle" /\ job'.kind = "None"
      /\ OwnFiles(tasks', temporary)
  BY DEF Crash, DropStore, NotStoring, NoJob, OwnFiles
<1> QED BY <1>1, DiskStays

(***************************************************************************)
(* Stores.                                                                 *)
(***************************************************************************)

\* Writing a new file, or over an empty one, loses no other.
LEMMA WriteKept ==
  ASSUME NEW p, NEW f, NEW x, f \in DOMAIN p => p[f] = <<>>, NEW e
  PROVE  /\ CopiesKept(p, Write(p, f, x)) /\ FilesKept(p, Write(p, f, x), e)
         /\ f \in DOMAIN Write(p, f, x) /\ Write(p, f, x)[f] = x
         /\ \A g \in DOMAIN p : g # f => g \in DOMAIN Write(p, f, x) /\ Write(p, f, x)[g] = p[g]
  BY DEF CopiesKept, FilesKept, Write

\* A store begins with a file of its own.
LEMMA BeginStoreHolds ==
  ASSUME KeysInvariant, HeldInvariant, NEW d, BeginStore(d),
         \A i \in DOMAIN d.keyshares :
           d.keyshares[i].key_id = IdOf(job.keyset.epoch_id, job.keyset.keys[i]),
         job.status = "new", UNCHANGED <<chainVars, nodeVars, migrant, hasty, txs>>
  PROVE  HeldInvariant'
<1>1. /\ UNCHANGED <<job, tasks, temporary, permanent>> /\ storing' = [pc |-> "created", data |-> d]
      /\ Identifier(d) \notin DOMAIN permanent_keys
      /\ permanent_keys' = Write(permanent_keys, Identifier(d), <<>>)
  BY DEF nodeVars, BeginStore, CanStore
<1>2. PICK p : p = permanent_keys'
  OBVIOUS
<1>3. /\ CopiesKept(permanent_keys, p)
      /\ Identifier(d) \in DOMAIN p /\ p[Identifier(d)] = <<>>
      /\ \A f \in DOMAIN permanent_keys : f # Identifier(d) => f \in DOMAIN p /\ p[f] = permanent_keys[f]
  BY <1>1, <1>2, WriteKept
<1>4. CountedInv' /\ VoteInv'
  BY <1>1, <1>2, <1>3, KeptReflexive, FilesMove
<1>5. WriteInv'
  BY <1>1 DEF HeldInvariant, WriteInv
<1>6. CopyInv'
  <2>1. PICK st : st = storing'
    OBVIOUS
  <2>2. st.pc = "created" /\ st.data = d
    BY <1>1, <2>1
  <2>3. permanent.keyshares # <<>> =>
          Identifier(permanent) \in DOMAIN p /\ p[Identifier(permanent)] = permanent.keyshares
    BY <1>1, <1>3 DEF HeldInvariant, CopyInv, Copies
  <2>4. Copies(permanent, p, st, job)
    BY <1>3, <2>2, <2>3 DEF Copies
  <2> QED BY <1>1, <1>2, <2>1, <2>4 DEF CopyInv
<1> QED BY <1>4, <1>5, <1>6 DEF HeldInvariant

\* update_permanent_keyshares begins.
LEMMA BeginPromotionHolds ==
  ASSUME KeysInvariant, HeldInvariant, BeginPromotion,
         UNCHANGED <<chainVars, migrant, hasty, txs>>
  PROVE  HeldInvariant'
<1>1. /\ job.kind # "None" /\ job.status = "new" /\ CanLoadKeyset(job.keyset)
      /\ BeginStore(PromotedData(job.keyset)) /\ UNCHANGED nodeVars
  BY DEF BeginPromotion, Promoting
<1>2. PICK d : d = PromotedData(job.keyset)
  OBVIOUS
<1>3. \A i \in DOMAIN d.keyshares :
        d.keyshares[i].key_id = IdOf(job.keyset.epoch_id, job.keyset.keys[i])
  BY <1>1, <1>2, Loaded
<1> QED BY <1>1, <1>2, <1>3, BeginStoreHolds

\* import_backup begins.
LEMMA ImportBackupHolds ==
  ASSUME KeysInvariant, HeldInvariant, ImportBackup,
         UNCHANGED <<chainVars, migrant, hasty, txs>>
  PROVE  HeldInvariant'
<1> DEFINE epoch == job.keyset.epoch_id
           keys == job.keyset.keys
           backup == [i \in 1 .. Len(keys) |-> BackupShare(epoch, keys[i])]
<1>1. /\ job.status = "new" /\ UNCHANGED nodeVars
      /\ BeginStore([epoch_id |-> epoch, keyshares |-> backup])
  BY DEF ImportBackup
<1>2. PICK d : d = [epoch_id |-> epoch, keyshares |-> backup]
  OBVIOUS
<1>3. \A i \in DOMAIN d.keyshares : d.keyshares[i].key_id = IdOf(epoch, keys[i])
  BY <1>2 DEF BackupShare, Keyshare
<1>4. BeginStore(d)
  BY <1>1, <1>2
<1> QED BY <1>1, <1>3, <1>4, BeginStoreHolds

\* What a store deletes is older than the keyset of the contract.
LEMMA StoreEpoch ==
  ASSUME KeysInvariant, storing.pc # "idle"
  PROVE  /\ storing.data \in DataType /\ storing \in StoringType
         /\ storing.data.epoch_id <= contract.keyset.epoch_id
         /\ storing.data.epoch_id \in Int /\ contract.keyset.epoch_id \in Int
         /\ storing.data.epoch_id = job.keyset.epoch_id
         /\ Len(storing.data.keyshares) = Len(job.keyset.keys)
         /\ StoredOf(storing.data, job.keyset)
         /\ job.kind # "None" /\ job.status = "new"
<1>1. /\ storing \in StoringType /\ storing.data.epoch_id = job.keyset.epoch_id
      /\ Len(storing.data.keyshares) = Len(job.keyset.keys)
      /\ StoredOf(storing.data, job.keyset)
      /\ job.kind # "None" /\ job.status = "new"
  BY DEF KeysInvariant, StoringInv, StoreFits
<1>2. Grown(job.keyset, view.keyset) /\ Grown(view.keyset, contract.keyset)
  BY DEF KeysInvariant, JobInv, JobFits, ViewInv, Lags
<1>3. view.keyset.epoch_id \in Int /\ contract.keyset.epoch_id \in Int
      /\ job.keyset.epoch_id \in Int
  BY <1>1, JobKeyset, StateFields DEF KeysInvariant, ViewInv, ChainInv
<1>4. storing.data.epoch_id <= contract.keyset.epoch_id
  BY <1>1, <1>2, <1>3 DEF Grown
<1>5. storing.data \in DataType
  BY <1>1 DEF StoringType
<1> QED BY <1>1, <1>3, <1>4, <1>5

\* The store takes its next step; it deletes files of earlier epochs only.
LEMMA StoreHolds ==
  ASSUME KeysInvariant, HeldInvariant, Store, UNCHANGED <<chainVars, nodeVars, migrant, hasty, txs>>
  PROVE  HeldInvariant'
<1>1. UNCHANGED <<job, tasks>> /\ storing.pc # "idle"
  BY DEF nodeVars, Store, StoreWrite, StoreRemoveKey, StoreLink, StoreDelete
<1>2. /\ storing \in StoringType /\ job.status = "new"
      /\ storing.data.epoch_id <= contract.keyset.epoch_id
      /\ storing.data.epoch_id \in Int /\ contract.keyset.epoch_id \in Int
      /\ job.kind # "None"
  BY <1>1, StoreEpoch
<1>3. tasks = {}
  BY <1>2 DEF KeysInvariant, TaskInv
<1>4. WriteInv'
  BY <1>1, <1>3 DEF WriteInv, OwnFiles
<1>5. /\ Copies(permanent, permanent_keys, storing, job)
      /\ ~(job'.kind = "Onboarding" /\ job'.status = "ready")
  BY <1>1, <1>2 DEF HeldInvariant, CopyInv
<1>6. PICK st : st = storing'
  OBVIOUS
<1>7. CASE StoreWrite
  <2>1. /\ UNCHANGED <<temporary, permanent>> /\ storing.pc = "created"
        /\ permanent_keys' = Write(permanent_keys, Identifier(storing.data), storing.data.keyshares)
        /\ storing' = [storing EXCEPT !.pc = "written"]
    BY <1>7 DEF StoreWrite
  <2>2. PICK p : p = permanent_keys'
    OBVIOUS
  <2>3. permanent_keys[Identifier(storing.data)] = <<>>
    BY <1>5, <2>1 DEF Copies
  <2>4. /\ CopiesKept(permanent_keys, p)
        /\ Identifier(storing.data) \in DOMAIN p
        /\ p[Identifier(storing.data)] = storing.data.keyshares
    BY <2>1, <2>2, <2>3, WriteKept
  <2>5. CountedInv' /\ VoteInv'
    BY <2>1, <2>2, <2>4, KeptReflexive, FilesMove
  <2>6. st.pc = "written" /\ st.data = storing.data
    BY <1>2, <1>6, <2>1 DEF StoringType
  <2>7. Copies(permanent, p, st, job)
    BY <1>5, <2>4, <2>6, <2>1 DEF Copies, CopiesKept
  <2>8. CopyInv'
    BY <1>1, <1>5, <1>6, <2>1, <2>2, <2>7 DEF CopyInv
  <2> QED BY <1>4, <2>5, <2>8 DEF HeldInvariant
<1>8. CASE StoreRemoveKey
  <2>1. /\ UNCHANGED <<temporary, permanent_keys>> /\ storing.pc = "written"
        /\ permanent' = NoPermanent /\ storing' = [storing EXCEPT !.pc = "removed"]
    BY <1>8 DEF StoreRemoveKey
  <2>2. CountedInv' /\ VoteInv'
    BY <2>1, KeptReflexive, FilesMove
  <2>3. st.pc = "removed" /\ st.data = storing.data
    BY <1>2, <1>6, <2>1 DEF StoringType
  <2>4. Copies(NoPermanent, permanent_keys, st, job)
    BY <1>5, <2>1, <2>3 DEF Copies, NoPermanent
  <2>5. CopyInv'
    BY <1>1, <1>5, <1>6, <2>1, <2>4 DEF CopyInv
  <2> QED BY <1>4, <2>2, <2>5 DEF HeldInvariant
<1>9. CASE StoreLink
  <2>1. /\ UNCHANGED <<temporary, permanent_keys>> /\ storing.pc = "removed"
        /\ permanent' = storing.data /\ storing' = [storing EXCEPT !.pc = "linked"]
    BY <1>9 DEF StoreLink
  <2>2. CountedInv' /\ VoteInv'
    BY <2>1, KeptReflexive, FilesMove
  <2>3. st.pc = "linked" /\ st.data = storing.data
    BY <1>2, <1>6, <2>1 DEF StoringType
  <2>4. Copies(storing.data, permanent_keys, st, job)
    BY <1>5, <2>1, <2>3 DEF Copies
  <2>5. CopyInv'
    BY <1>1, <1>5, <1>6, <2>1, <2>4 DEF CopyInv
  <2> QED BY <1>4, <2>2, <2>5 DEF HeldInvariant
<1>10. CASE StoreDelete
  <2>1. UNCHANGED <<permanent, permanent_keys, storing>>
    BY <1>10 DEF StoreDelete
  <2>2. FilesKept(temporary, temporary', contract.keyset.epoch_id)
    <3>1. CASE temporary' = temporary
      BY <3>1, KeptReflexive
    <3>2. ASSUME NEW id \in DOMAIN temporary, IsOld(id), temporary' = RemoveFile(temporary, id)
          PROVE  FilesKept(temporary, temporary', contract.keyset.epoch_id)
      <4>1. id.epoch_id \in Int
        BY <3>2 DEF KeysInvariant, TemporaryInv, IdType
      <4>2. ~(contract.keyset.epoch_id <= id.epoch_id)
        BY <1>2, <3>2, <4>1 DEF IsOld
      <4> QED BY <3>2, <4>2 DEF FilesKept, RemoveFile
    <3> QED BY <1>10, <3>1, <3>2 DEF StoreDelete
  <2>3. CountedInv' /\ VoteInv'
    BY <2>1, <2>2, KeptReflexive, FilesMove
  <2>4. CopyInv'
    BY <1>1, <1>5, <2>1 DEF CopyInv
  <2> QED BY <1>4, <2>3, <2>4 DEF HeldInvariant
<1> QED BY <1>7, <1>8, <1>9, <1>10 DEF Store

\* The store returns: the whole keyset is in permanent storage.
LEMMA StoreReturnHolds ==
  ASSUME KeysInvariant, HeldInvariant, StoreReturn, Status("ready"), UNCHANGED tasks,
         UNCHANGED <<chainVars, migrant, hasty, txs>>
  PROVE  HeldInvariant'
<1>1. storing.pc = "linked" /\ UNCHANGED disk /\ storing' = NotStoring
  BY DEF StoreReturn
<1>2. job \in JobType /\ job'.keyset = job.keyset /\ storing'.pc = "idle"
      /\ OwnFiles(tasks', temporary)
  BY <1>1 DEF Status, KeysInvariant, JobInv, JobType, NotStoring, HeldInvariant, WriteInv
<1>3. /\ storing.data.epoch_id = job.keyset.epoch_id
      /\ Len(storing.data.keyshares) = Len(job.keyset.keys)
      /\ StoredOf(storing.data, job.keyset) /\ permanent = storing.data
      /\ \A i \in DOMAIN storing.data.keyshares :
           storing.data.keyshares[i].key_id = IdOf(job.keyset.epoch_id, job.keyset.keys[i])
      /\ storing.data \in DataType
  BY <1>1, StoreEpoch DEF KeysInvariant, StoringInv, StoreFits, HeldInvariant, CopyInv, Copies
<1>4. CanLoadKeyset(job.keyset)
  <2>1. PICK d \in DataType : d = permanent
    BY <1>3
  <2>2. /\ d.epoch_id = job.keyset.epoch_id /\ d.keyshares \in Seq(ShareType)
        /\ Len(d.keyshares) = Len(job.keyset.keys) /\ Len(d.keyshares) \in Nat
        /\ DOMAIN d.keyshares = 1 .. Len(d.keyshares)
        /\ \A i \in DOMAIN d.keyshares :
             /\ d.keyshares[i].key_id = IdOf(job.keyset.epoch_id, job.keyset.keys[i])
             /\ d.keyshares[i].public_key = job.keyset.keys[i].key
    BY <1>3, <2>1 DEF DataType, StoredOf
  <2>3. StoredPrefix(job.keyset) = d.keyshares
    BY <2>1, <2>2 DEF StoredPrefix
  <2>4. IsPrefixOfKeyset(d.keyshares, job.keyset.epoch_id, job.keyset.keys)
    BY <2>2 DEF IsPrefixOfKeyset, CheckConsistency
  <2>5. \A i \in Len(d.keyshares) + 1 .. Len(job.keyset.keys) : FALSE
    BY <2>2
  <2> QED BY <2>3, <2>4, <2>5 DEF CanLoadKeyset
<1> QED BY <1>1, <1>2, <1>4, DiskStays

(***************************************************************************)
(* Computations.                                                           *)
(***************************************************************************)

\* The tasks that are left have their files.
LEMMA FewerTasks ==
  ASSUME HeldInvariant, NEW T, T \subseteq tasks
  PROVE  OwnFiles(T, temporary)
  BY DEF HeldInvariant, WriteInv, OwnFiles

\* The tasks change and no file does.
LEMMA TasksHold ==
  ASSUME KeysInvariant, HeldInvariant, OwnFiles(tasks', temporary),
         UNCHANGED <<chainVars, migrant, hasty, job, temporary, permanent, permanent_keys, storing>>,
         \A tx \in txs' \ txs : TxHolds(tx, contract, temporary, permanent_keys, hasty)
  PROVE  HeldInvariant'
<1>1. CountedInv' /\ VoteInv'
  BY KeptReflexive, FilesMove
<1>2. WriteInv'
  BY DEF WriteInv
<1>3. CopyInv'
  <2>1. \A ks : CanLoadKeyset(ks) => CanLoadKeyset(ks)'
    BY DEF CanLoadKeyset, StoredPrefix, CanLoad
  <2> QED BY <2>1 DEF HeldInvariant, CopyInv
<1> QED BY <1>1, <1>2, <1>3 DEF HeldInvariant

\* A follower takes a channel.
LEMMA ReceiveChannelHolds ==
  ASSUME KeysInvariant, HeldInvariant, NEW c \in channels, ReceiveChannel(c),
         UNCHANGED <<chainVars, migrant, hasty, txs>>
  PROVE  HeldInvariant'
<1>1. PICK t : t = [id |-> c.id, instance |-> c.instance, pc |-> "waiting"]
  OBVIOUS
<1>2. tasks' = tasks \union {t} /\ t.pc = "waiting" /\ UNCHANGED <<job, disk, storing>>
  BY <1>1 DEF ReceiveChannel, storageVars
<1>3. OwnFiles(tasks', temporary)
  BY <1>2 DEF HeldInvariant, WriteInv, OwnFiles
<1> QED BY <1>2, <1>3, TasksHold DEF disk

\* A task that goes on; the others have files of their own.
LEMMA OneTaskGoesOn ==
  ASSUME HeldInvariant, NEW t \in tasks, NEW u, u.id = t.id, u.pc # "waiting", NEW g,
         \A id \in DOMAIN temporary : id # t.id => id \in DOMAIN g /\ g[id] = temporary[id],
         \A v \in tasks \ {t} : v.pc # "waiting" => v.id # t.id,
         u.pc = "created" => t.id \in DOMAIN g /\ g[t.id] = <<>>,
         u.pc = "committed" => HasFile(g, t.id)
  PROVE  OwnFiles((tasks \ {t}) \union {u}, g)
<1> DEFINE T == (tasks \ {t}) \union {u}
<1>1. OwnFiles(tasks, temporary)
  BY DEF HeldInvariant, WriteInv
<1>2. ASSUME NEW v \in tasks \ {t}
      PROVE  /\ v.pc = "created" => v.id \in DOMAIN g /\ g[v.id] = <<>>
             /\ v.pc = "committed" => HasFile(g, v.id)
  BY <1>1 DEF OwnFiles, HasFile
<1>3. \A v, w \in T : v.id = w.id /\ v.pc # "waiting" /\ w.pc # "waiting" => v = w
  BY <1>1 DEF OwnFiles
<1> QED BY <1>2, <1>3 DEF OwnFiles

\* Nobody else has begun a run of the id before it is marked.
LEMMA StartsFirst ==
  ASSUME KeysInvariant, NEW t \in tasks, t.id \notin markers, NEW v \in tasks, v.pc # "waiting"
  PROVE  v.id # t.id
<1>1. SUFFICES ASSUME v.id = t.id PROVE FALSE
  OBVIOUS
<1>2. /\ TaskFits(v, ran, contract, view, job) /\ t.id.epoch_id = job.epoch_id
      /\ job.kind \in {"Initializing", "Resharing"}
  BY DEF KeysInvariant, TaskInv
<1>3. PICK x \in ran : x = <<v.id, v.instance>>
  BY <1>2 DEF TaskFits, OwnShare, ShareOf, Keyshare
<1>4. t.id.epoch_id < view.keyset.epoch_id
  BY <1>1, <1>3 DEF KeysInvariant, RanInv, RunsMarked
<1>5. /\ view.id.epoch_id = t.id.epoch_id /\ view.phase \in {"Initializing", "Resharing"}
      /\ Shape(view) /\ view \in StateType
  BY <1>2 DEF KeysInvariant, JobInv, JobFits, ViewInv
<1>6. view.keyset.epoch_id <= view.id.epoch_id /\ view.keyset.epoch_id \in Int
      /\ view.id.epoch_id \in Int
  BY <1>5, StateFields DEF Shape
<1> QED BY <1>4, <1>5, <1>6

\* The computation begins.
LEMMA StartTaskHolds ==
  ASSUME KeysInvariant, HeldInvariant, NEW t \in tasks, StartTask(t),
         UNCHANGED <<chainVars, migrant, hasty, txs>>
  PROVE  HeldInvariant'
<1>1. UNCHANGED <<job, temporary, permanent, permanent_keys, storing>>
  BY DEF StartTask, CreateStartedMarker, storageVars, disk
<1>2. CASE tasks' = tasks \ {t}
  BY <1>1, <1>2, FewerTasks, TasksHold
<1>3. CASE t.id \notin markers /\ ReplaceTask(t, "running")
  <2>1. PICK u : u = [t EXCEPT !.pc = "running"]
    OBVIOUS
  <2>2. u.id = t.id /\ u.pc = "running"
    <3>1. t \in TaskType
      BY DEF KeysInvariant, TaskInv
    <3> QED BY <2>1, <3>1 DEF TaskType
  <2>3. tasks' = (tasks \ {t}) \union {u}
    BY <1>3, <2>1 DEF ReplaceTask
  <2>4. \A v \in tasks \ {t} : v.pc # "waiting" => v.id # t.id
    BY <1>3, StartsFirst
  <2>5. OwnFiles((tasks \ {t}) \union {u}, temporary)
    BY <2>2, <2>4, OneTaskGoesOn
  <2> QED BY <1>1, <2>3, <2>5, TasksHold
<1>4. tasks' = tasks \ {t} \/ (t.id \notin markers /\ ReplaceTask(t, "running"))
  BY DEF StartTask, CanStartGenerating, CanStartResharing, StartedMarkerIsFree
<1> QED BY <1>2, <1>3, <1>4

\* A task writes the file of its id, which has no share yet.
LEMMA TaskWrites ==
  ASSUME KeysInvariant, HeldInvariant, NEW t \in tasks, t.pc # "waiting", NEW u, u.id = t.id,
         u.pc # "waiting", tasks' = (tasks \ {t}) \union {u},
         NEW f, temporary' = Write(temporary, t.id, f),
         t.id \in DOMAIN temporary => temporary[t.id] = <<>>,
         u.pc = "created" => f = <<>>, u.pc = "committed" => f # <<>>,
         UNCHANGED <<chainVars, migrant, hasty, txs, job, permanent, permanent_keys, storing>>
  PROVE  HeldInvariant'
<1>1. PICK g : g = temporary'
  OBVIOUS
<1>2. /\ FilesKept(temporary, g, contract.keyset.epoch_id)
      /\ t.id \in DOMAIN g /\ g[t.id] = f
      /\ \A id \in DOMAIN temporary : id # t.id => id \in DOMAIN g /\ g[id] = temporary[id]
  BY <1>1, WriteKept
<1>3. CountedInv' /\ VoteInv'
  BY <1>1, <1>2, KeptReflexive, FilesMove
<1>4. \A v \in tasks \ {t} : v.pc # "waiting" => v.id # t.id
  BY DEF HeldInvariant, WriteInv, OwnFiles
<1>5. OwnFiles((tasks \ {t}) \union {u}, g)
  BY <1>2, <1>4, OneTaskGoesOn DEF HasFile
<1>6. WriteInv'
  BY <1>1, <1>5 DEF WriteInv
<1>7. job.kind # "Onboarding"
  BY DEF KeysInvariant, TaskInv
<1>8. CopyInv'
  BY <1>7 DEF HeldInvariant, CopyInv
<1> QED BY <1>3, <1>6, <1>8 DEF HeldInvariant

\* The computation is done and its file created, empty.
LEMMA FinishTaskHolds ==
  ASSUME KeysInvariant, HeldInvariant, NEW t \in tasks, FinishTask(t),
         UNCHANGED <<chainVars, migrant, hasty, txs>>
  PROVE  HeldInvariant'
<1>1. t.pc = "running" /\ UNCHANGED job /\ t \in TaskType
  BY DEF FinishTask, KeysInvariant, TaskInv
<1>2. CASE tasks' = tasks \ {t} /\ UNCHANGED storageVars
  BY <1>1, <1>2, FewerTasks, TasksHold DEF storageVars, disk
<1>3. CASE t.id \notin DOMAIN temporary /\ ReplaceTask(t, "created") /\ CreateKeyshareFile(t.id)
  <2>1. PICK u : u = [t EXCEPT !.pc = "created"]
    OBVIOUS
  <2>2. u.id = t.id /\ u.pc = "created"
    BY <1>1, <2>1 DEF TaskType
  <2>3. /\ tasks' = (tasks \ {t}) \union {u}
        /\ UNCHANGED <<permanent, permanent_keys, storing>>
    BY <1>3, <2>1 DEF ReplaceTask, CreateKeyshareFile
  <2>4. PICK f : f = <<>>
    OBVIOUS
  <2>5. temporary' = Write(temporary, t.id, f)
    BY <1>3, <2>4 DEF CreateKeyshareFile
  <2> QED BY <1>1, <1>3, <2>2, <2>3, <2>4, <2>5, TaskWrites
<1> QED BY <1>2, <1>3 DEF FinishTask

\* The share is written and its file committed.
LEMMA CommitTaskHolds ==
  ASSUME KeysInvariant, HeldInvariant, NEW t \in tasks, CommitTask(t),
         UNCHANGED <<chainVars, migrant, hasty, txs>>
  PROVE  HeldInvariant'
<1>1. /\ t.pc = "created" /\ UNCHANGED job /\ t \in TaskType /\ ReplaceTask(t, "committed")
      /\ WriteKeyshareFile(Keyshare(t.id, PublicKeyOf(t), t.instance))
  BY DEF CommitTask, KeysInvariant, TaskInv
<1>2. PICK s : s = Keyshare(t.id, PublicKeyOf(t), t.instance)
  OBVIOUS
<1>3. s.key_id = t.id
  BY <1>2 DEF Keyshare
<1>4. WriteKeyshareFile(s)
  BY <1>1, <1>2
<1>5. PICK u : u = [t EXCEPT !.pc = "committed"]
  OBVIOUS
<1>6. u.id = t.id /\ u.pc = "committed"
  BY <1>1, <1>5 DEF TaskType
<1>7. tasks' = (tasks \ {t}) \union {u}
  BY <1>1, <1>5 DEF ReplaceTask
<1>8. PICK f : f = <<s>>
  OBVIOUS
<1>9. f # <<>>
  BY <1>8
<1>10. temporary' = Write(temporary, t.id, f) /\ UNCHANGED <<permanent, permanent_keys, storing>>
  BY <1>3, <1>4, <1>8 DEF WriteKeyshareFile
<1>11. temporary[t.id] = <<>>
  BY <1>1 DEF HeldInvariant, WriteInv, OwnFiles
<1> QED BY <1>1, <1>6, <1>7, <1>9, <1>10, <1>11, TaskWrites

\* The node votes once its file is committed.
LEMMA VoteHoldsFile ==
  ASSUME KeysInvariant, HeldInvariant, NEW t \in tasks, Vote(t),
         UNCHANGED <<chainVars, migrant, hasty>>
  PROVE  HeldInvariant'
<1>1. /\ t.pc = "committed" /\ tasks' = tasks \ {t}
      /\ UNCHANGED <<job, temporary, permanent, permanent_keys, storing>>
  BY DEF Vote, storageVars, disk
<1>2. PICK tx : tx = [kind |-> "vote", id |-> t.id]
  OBVIOUS
<1>3. tx.kind = "vote" /\ tx.id = t.id /\ txs' = txs \union {tx}
  BY <1>2 DEF Vote
<1>4. t.id \in IdType /\ HasFile(temporary, t.id)
  BY <1>1 DEF KeysInvariant, TaskInv, TaskType, HeldInvariant, WriteInv, OwnFiles
<1>5. TxHolds(tx, contract, temporary, permanent_keys, hasty)
  BY <1>3, <1>4 DEF TxHolds
<1> QED BY <1>1, <1>3, <1>5, FewerTasks, TasksHold

\* A task is dropped.
LEMMA DropTaskHolds ==
  ASSUME KeysInvariant, HeldInvariant, NEW t \in tasks, DropTask(t),
         UNCHANGED <<chainVars, migrant, hasty, txs>>
  PROVE  HeldInvariant'
<1>1. tasks' = tasks \ {t} /\ UNCHANGED <<job, temporary, permanent, permanent_keys, storing>>
  BY DEF DropTask, storageVars, disk
<1> QED BY <1>1, FewerTasks, TasksHold

\* Every step of the node keeps what counts on disk.
LEMMA NodeStepHolds ==
  ASSUME KeysInvariant, HeldInvariant, NodeStep, UNCHANGED migrant
  PROVE  HeldInvariant'
<1>1. UNCHANGED chainVars /\ Node
  BY DEF NodeStep
<1>2. ASSUME UNCHANGED <<txs, hasty>>,
             \/ OnboardingDone \/ StartOnboarding \/ StartJob \/ SeeContract
             \/ BeginPromotion \/ ReturnPromotion \/ BeginServing \/ SkipImport \/ ImportBackup
      PROVE  HeldInvariant'
  BY <1>1, <1>2, JobMoves, SeeContractHolds, BeginPromotionHolds, ImportBackupHolds
<1>3. ASSUME UNCHANGED <<txs, hasty>>, ContinueStore
      PROVE  HeldInvariant'
  BY <1>1, <1>3, StoreHolds, StoreReturnHolds DEF ContinueStore, nodeVars
<1>4. ASSUME UNCHANGED <<txs, hasty>>, NEW t \in tasks,
             StartTask(t) \/ FinishTask(t) \/ CommitTask(t) \/ KeygenFails(t) \/ ResharingFails(t)
      PROVE  HeldInvariant'
  BY <1>1, <1>4, StartTaskHolds, FinishTaskHolds, CommitTaskHolds, DropTaskHolds
     DEF KeygenFails, ResharingFails
<1>5. ASSUME NEW t \in tasks, VotePk(t) \/ VoteReshared(t), UNCHANGED hasty
      PROVE  HeldInvariant'
  BY <1>1, <1>5, VoteHoldsFile DEF VotePk, VoteReshared
<1>6. ASSUME NEW c \in channels, KeygenFollower(c) \/ ResharingFollower(c), UNCHANGED <<txs, hasty>>
      PROVE  HeldInvariant'
  BY <1>1, <1>6, ReceiveChannelHolds DEF KeygenFollower, ResharingFollower
<1>7. CASE CancelOnboarding \/ (Conclude /\ UNCHANGED hasty)
  BY <1>1, <1>7, CancelOnboardingHolds, ConcludeHolds
<1> QED BY <1>1, <1>2, <1>3, <1>4, <1>5, <1>6, <1>7 DEF Node

\* The invariant about files holds at the start.
LEMMA HeldInitially ==
  ASSUME KeysInit
  PROVE  HeldInvariant
<1>1. PICK migrating \in {FALSE, Migrates} :
        contract = [phase |-> "Running", keyset |-> [epoch_id |-> 0, keys |-> <<>>],
                    completed |-> <<>>, id |-> KeyEventId(NoEpoch, 0, 0), started |-> FALSE,
                    member |-> ~migrating, joins |-> FALSE, migrating |-> migrating]
  BY DEF KeysInit
<1>2. contract.phase = "Running" /\ contract.keyset.keys = <<>>
  BY <1>1
<1>3. CountedInv
  BY <1>2 DEF KeysInit, CountedInv, Holds, AllInFiles, AllOnDisk
<1>4. VoteInv
  BY DEF KeysInit, VoteInv, VoteHolds
<1>5. WriteInv
  BY DEF KeysInit, WriteInv, OwnFiles
<1>6. CopyInv
  BY DEF KeysInit, StorageInit, CopyInv, Copies, NoJob, NotStoring, NoPermanent
<1> QED BY <1>3, <1>4, <1>5, <1>6 DEF HeldInvariant

\* Every step preserves the invariant about files.
LEMMA HeldStep ==
  ASSUME KeysInvariant, HeldInvariant, [KeysNext]_keysVars
  PROVE  HeldInvariant'
<1>1. CASE UNCHANGED keysVars
  <2>1. UNCHANGED <<chainVars, migrant, hasty, txs, job, tasks, temporary, permanent, permanent_keys, storing>>
    BY <1>1 DEF keysVars, nodeVars, storageVars, disk
  <2> QED BY <2>1, FewerTasks, TasksHold
<1> QED BY <1>1, ChainStepHolds, NodeStepHolds, CrashHolds DEF KeysNext

(***************************************************************************)
(* The bounds.                                                             *)
(***************************************************************************)

\* The id that stands for none is in bounds.
LEMMA NoIdBounded == IsKeyId(KeyEventId(NoEpoch, 0, 0))
  BY NodeAssumption DEF IsKeyId, KeyEventId, NoEpoch

\* The empty keyset is in bounds.
LEMMA NoKeysBounded == AreKeys(<<>>)
  BY DEF AreKeys

\* The next state of the contract is within the bounds.
LEMMA ContractBounds ==
  ASSUME KeysInvariant, BoundInv, Chain, UNCHANGED <<nodeVars, ran, hasty, crashes, storageVars>>
  PROVE  Bounded(contract', next_domain_id', instance')
<1> USE NodeAssumption
<1>0. NodeUnchanged
  BY DEF NodeUnchanged, nodeVars
<1>1. /\ contract \in StateType /\ Shape(contract) /\ next_domain_id \in Nat /\ instance \in Nat
      /\ Bounded(contract, next_domain_id, instance)
      /\ contract.keyset.epoch_id \in Nat /\ contract.keyset.epoch_id <= MaxEpoch
  BY DEF KeysInvariant, ChainInv, BoundInv, Bounded, Shape
<1>2. PICK c : c = contract
  OBVIOUS
<1>3. PICK d : d = contract'
  OBVIOUS
<1>4. CASE AddDomain
  <2>1. /\ d.keyset = c.keyset /\ d.completed = c.keyset.keys /\ d.started = c.started
        /\ d.id = KeyEventId(c.keyset.epoch_id, next_domain_id, 0)
        /\ next_domain_id < MaxDomains
        /\ next_domain_id' = next_domain_id + 1 /\ instance' = instance
    BY <1>1, <1>2, <1>3, <1>4 DEF AddDomain, StateType
  <2>2. IsKeyId(d.id)
    BY <1>1, <1>2, <2>1 DEF IsKeyId, KeyEventId
  <2> QED BY <1>1, <1>2, <1>3, <2>1, <2>2 DEF Bounded
<1>5. ASSUME NEW joins \in BOOLEAN, BeginResharing(joins)
      PROVE  Bounded(contract', next_domain_id', instance')
  <2>1. PICK epoch : /\ epoch = 1 + IF contract.phase = "Resharing" THEN contract.id.epoch_id
                                    ELSE IF previously_cancelled # NoEpoch THEN previously_cancelled
                                    ELSE contract.keyset.epoch_id
                     /\ epoch <= MaxEpoch /\ contract.keyset.keys # <<>>
                     /\ contract' = [contract EXCEPT !.phase = "Resharing", !.completed = <<>>,
                          !.joins = joins, !.started = FALSE,
                          !.id = KeyEventId(epoch, contract.keyset.keys[1].domain_id, 0)]
    BY <1>5 DEF BeginResharing
  <2>2. epoch \in Int /\ 0 <= epoch /\ epoch <= MaxEpoch
    <3>1. /\ contract.phase = "Resharing" => contract.keyset.epoch_id < contract.id.epoch_id
          /\ contract.id.epoch_id \in Int /\ previously_cancelled \in Int
          /\ previously_cancelled = NoEpoch \/ contract.keyset.epoch_id < previously_cancelled
      BY <1>1, StateFields DEF KeysInvariant, ChainInv, Shape
    <3>2. CASE contract.phase = "Resharing"
      BY <1>1, <2>1, <3>1, <3>2
    <3>3. CASE contract.phase # "Resharing" /\ previously_cancelled # NoEpoch
      BY <1>1, <2>1, <3>1, <3>3
    <3>4. CASE contract.phase # "Resharing" /\ previously_cancelled = NoEpoch
      BY <1>1, <2>1, <3>4
    <3> QED BY <3>2, <3>3, <3>4
  <2>3. PICK m : m = contract.keyset.keys[1].domain_id
    OBVIOUS
  <2>4. m \in 0 .. MaxDomains
    <3>1. 1 \in DOMAIN contract.keyset.keys
      BY <1>1, <2>1, StateFields
    <3> QED BY <1>1, <2>3, <3>1 DEF Bounded, AreKeys, IsKey
  <2>5. /\ d.keyset = c.keyset /\ d.completed = <<>> /\ d.started = FALSE
        /\ d.id = KeyEventId(epoch, m, 0)
        /\ next_domain_id' = next_domain_id /\ instance' = instance
    <3>1. d = [contract EXCEPT !.phase = "Resharing", !.completed = <<>>,
                 !.joins = joins, !.started = FALSE, !.id = KeyEventId(epoch, m, 0)]
      BY <1>3, <2>1, <2>3
    <3>2. next_domain_id' = next_domain_id /\ instance' = instance
      BY <1>5 DEF BeginResharing
    <3> QED BY <1>1, <1>2, <3>1, <3>2 DEF StateType
  <2>6. IsKeyId(d.id)
    BY <2>2, <2>4, <2>5 DEF IsKeyId, KeyEventId
  <2> QED BY <1>1, <1>2, <1>3, <2>5, <2>6, NoKeysBounded DEF Bounded
<1>6. CASE StartInstance
  <2>1. /\ d.keyset = c.keyset /\ d.completed = c.completed /\ d.id = c.id
        /\ next_domain_id' = next_domain_id /\ instance' = instance + 1 /\ instance < MaxInstances
    BY <1>1, <1>2, <1>3, <1>6 DEF StartInstance, StateType
  <2> QED BY <1>1, <1>2, <1>3, <2>1 DEF Bounded
<1>7. CASE FailInstance
  <2>1. PICK i : i = [contract.id EXCEPT !.attempt_id = @ + 1]
    OBVIOUS
  <2>2. contract.id \in IdType /\ contract.id.attempt_id < MaxAttempt /\ IsKeyId(contract.id)
    BY <1>1, <1>7, StateFields DEF FailInstance, Bounded
  <2>3. IsKeyId(i)
    BY <2>1, <2>2 DEF IsKeyId, IdType
  <2>4. d = [contract EXCEPT !.started = FALSE, !.id = i]
    BY <1>1, <1>3, <1>7, <2>1 DEF FailInstance, StateType
  <2>5. /\ d.keyset = c.keyset /\ d.completed = c.completed /\ d.id = i /\ ~d.started
        /\ next_domain_id' = next_domain_id /\ instance' = instance
    BY <1>1, <1>2, <1>7, <2>4 DEF FailInstance, StateType
  <2> QED BY <1>1, <1>2, <1>3, <2>3, <2>5 DEF Bounded
<1>8. CASE CancelKeyEvent
  <2>1. contract.keyset \in KeysetType /\ contract.member \in BOOLEAN
        /\ BecomeRunning(contract.keyset, contract.member)
        /\ next_domain_id' = next_domain_id /\ instance' = instance
    BY <1>1, <1>8 DEF StateType, CancelKeyEvent
  <2>2. d.keyset = c.keyset /\ d.completed = <<>> /\ d.id = KeyEventId(NoEpoch, 0, 0) /\ ~d.started
    BY <1>1, <1>2, <1>3, <2>1, BecomesRunning
  <2> QED BY <1>1, <1>2, <1>3, <2>1, <2>2, NoIdBounded, NoKeysBounded DEF Bounded
<1>9. CASE CompleteKey /\ UNCHANGED channels
  <2>1. /\ Completes(contract, contract', instance) /\ contract.started
        /\ next_domain_id' = next_domain_id /\ instance' = instance
    BY <1>0, <1>9, CompleteKeyKeeps DEF CompleteKey, MayComplete
  <2>2. PICK k \in KeyType :
          /\ k.domain_id = c.id.domain_id /\ k.attempt = c.id.attempt_id /\ k.instance = instance
          /\ k.key = IF c.phase = "Initializing" THEN instance
                     ELSE c.keyset.keys[Len(c.completed) + 1].key
          /\ ~d.started
          /\ d.phase = "Running" => d.id = KeyEventId(NoEpoch, 0, 0)
          /\ \/ /\ c.phase = "Initializing" /\ d.phase = "Running"
                /\ d.keyset = [epoch_id |-> c.id.epoch_id, keys |-> Append(c.keyset.keys, k)]
                /\ d.completed = <<>>
             \/ /\ c.phase = "Resharing" /\ d.phase = "Running"
                /\ d.keyset = [epoch_id |-> c.id.epoch_id, keys |-> Append(c.completed, k)]
                /\ d.completed = <<>>
             \/ /\ c.phase = "Resharing" /\ d.phase = "Resharing" /\ d.keyset = c.keyset
                /\ d.completed = Append(c.completed, k) /\ d.id.epoch_id = c.id.epoch_id
                /\ d.id.attempt_id = 0
                /\ \E i \in DOMAIN c.keyset.keys : d.id.domain_id = c.keyset.keys[i].domain_id
    BY <1>2, <1>3, <2>1 DEF Completes
  <2>3. /\ AreKeys(c.keyset.keys) /\ AreKeys(c.completed) /\ IsKeyId(c.id)
        /\ c.keyset.keys \in Seq(KeyType) /\ c.completed \in Seq(KeyType)
        /\ instance \in 1 .. MaxInstances
    BY <1>1, <1>2, <2>1, StateFields DEF Bounded
  <2>4. IsKey(k)
    <3>1. CASE c.phase = "Initializing"
      BY <2>2, <2>3, <3>1 DEF IsKey, IsKeyId
    <3>2. CASE c.phase = "Resharing"
      <4>1. Len(c.completed) + 1 \in DOMAIN c.keyset.keys
        BY <1>1, <1>2, <3>2, StateFields DEF Shape
      <4>2. k.key \in 1 .. MaxInstances
        BY <2>2, <2>3, <3>2, <4>1 DEF AreKeys, IsKey
      <4> QED BY <2>2, <2>3, <4>2 DEF IsKey, IsKeyId
    <3> QED BY <2>2, <3>1, <3>2
  <2>5. AreKeys(Append(c.keyset.keys, k)) /\ AreKeys(Append(c.completed, k))
    <3>1. ASSUME NEW q \in Seq(KeyType), AreKeys(q)
          PROVE  AreKeys(Append(q, k))
      <4>1. PICK w : w = Append(q, k)
        OBVIOUS
      <4>2. \A i \in DOMAIN w : (i \in DOMAIN q /\ w[i] = q[i]) \/ w[i] = k
        BY <4>1
      <4>3. AreKeys(w)
        BY <2>4, <3>1, <4>2 DEF AreKeys
      <4> QED BY <4>1, <4>3
    <3> QED BY <2>3, <3>1
  <2>6. Bounded(d, next_domain_id, instance)
    <3>1. CASE d.phase = "Running"
      <4>1. /\ d.keyset.epoch_id = c.id.epoch_id /\ AreKeys(d.keyset.keys) /\ d.completed = <<>>
            /\ d.id = KeyEventId(NoEpoch, 0, 0)
        <5>1. CASE d.keyset = [epoch_id |-> c.id.epoch_id, keys |-> Append(c.keyset.keys, k)]
          <6>1. PICK w : w = Append(c.keyset.keys, k)
            OBVIOUS
          <6>2. d.keyset = [epoch_id |-> c.id.epoch_id, keys |-> w] /\ AreKeys(w)
            BY <2>5, <5>1, <6>1
          <6> QED BY <2>2, <3>1, <6>2
        <5>2. CASE d.keyset = [epoch_id |-> c.id.epoch_id, keys |-> Append(c.completed, k)]
          <6>1. PICK w : w = Append(c.completed, k)
            OBVIOUS
          <6>2. d.keyset = [epoch_id |-> c.id.epoch_id, keys |-> w] /\ AreKeys(w)
            BY <2>5, <5>2, <6>1
          <6> QED BY <2>2, <3>1, <6>2
        <5> QED BY <2>2, <3>1, <5>1, <5>2
      <4>2. c.id.epoch_id \in -1 .. MaxEpoch
        BY <2>3 DEF IsKeyId
      <4> QED BY <1>1, <1>2, <2>2, <4>1, <4>2, NoIdBounded, NoKeysBounded DEF Bounded
    <3>2. CASE d.phase = "Resharing"
      <4>1. /\ d.keyset = c.keyset /\ d.completed = Append(c.completed, k)
            /\ d.id.epoch_id = c.id.epoch_id /\ d.id.attempt_id = 0
            /\ \E i \in DOMAIN c.keyset.keys : d.id.domain_id = c.keyset.keys[i].domain_id
        BY <2>2, <3>2
      <4>2. IsKeyId(d.id)
        BY <2>3, <4>1 DEF IsKeyId, AreKeys, IsKey
      <4> QED BY <1>1, <1>2, <2>2, <2>5, <4>1, <4>2 DEF Bounded
    <3> QED BY <2>2, <3>1, <3>2
  <2> QED BY <1>3, <2>1, <2>6
<1>10. CASE UNCHANGED <<contract, next_domain_id, instance>>
  BY <1>1, <1>10
<1>11. ASSUME NEW tx, ReceiveConclude(tx)
       PROVE  Bounded(contract', next_domain_id', instance')
  <2>1. next_domain_id' = next_domain_id /\ instance' = instance
    BY <1>11 DEF ReceiveConclude
  <2>2. CASE contract' = contract
    BY <1>1, <2>1, <2>2
  <2>3. CASE contract' = [contract EXCEPT !.migrating = FALSE, !.member = TRUE]
    <3>1. /\ d.keyset = c.keyset /\ d.completed = c.completed /\ d.id = c.id
          /\ d.started = c.started
      BY <1>1, <1>2, <1>3, <2>3 DEF StateType
    <3> QED BY <1>1, <1>2, <1>3, <2>1, <3>1 DEF Bounded
  <2> QED BY <1>11, <2>2, <2>3 DEF ReceiveConclude
<1> QED BY <1>4, <1>5, <1>6, <1>7, <1>8, <1>9, <1>10, <1>11
    DEF Chain, KeygenLeader, ResharingLeader, OpenChannel, ReceiveVote

\* The contract stays within the bounds.
LEMMA ChainStepBounds ==
  ASSUME KeysInvariant, BoundInv, FilesInv, ChainStep
  PROVE  BoundInv' /\ FilesInv'
<1>1. Chain /\ UNCHANGED <<nodeVars, ran, hasty, crashes, storageVars>>
  BY DEF ChainStep
<1>2. UNCHANGED <<view, job, tasks, ran, markers, temporary, permanent, permanent_keys, storing>>
  BY <1>1 DEF nodeVars, storageVars, disk
<1>3. \A c \in channels' : IsKeyId(c.id) /\ InstanceOK(c.instance)
  <2>1. CASE UNCHANGED channels
    BY <2>1 DEF BoundInv
  <2>2. CASE OpenChannel
    <3>1. PICK c : c = [kind |-> contract.phase, id |-> contract.id, instance |-> instance]
      OBVIOUS
    <3>2. channels' = channels \union {c} /\ c.id = contract.id /\ c.instance = instance
      BY <2>2, <3>1 DEF OpenChannel
    <3>3. IsKeyId(contract.id) /\ InstanceOK(instance)
      BY <2>2, NodeAssumption DEF OpenChannel, BoundInv, Bounded, InstanceOK, KeysInvariant, ChainInv
    <3> QED BY <3>2, <3>3 DEF BoundInv
  <2> QED BY <1>1, <2>1, <2>2 DEF Chain, KeygenLeader, ResharingLeader
<1>4. BoundInv'
  BY <1>1, <1>2, <1>3, ContractBounds DEF BoundInv
<1>5. FilesInv'
  BY <1>2 DEF FilesInv
<1> QED BY <1>4, <1>5

\* A step of the node changes its keysets only to ones that it has seen.
LEMMA NodeKeysets ==
  ASSUME KeysInvariant, NodeStep \/ Crash
  PROVE  /\ view' = view \/ view' = contract
         /\ job'.keyset = job.keyset \/ job'.keyset = view.keyset \/ job'.keyset.keys = <<>>
<1>0. job \in JobType
  BY DEF KeysInvariant, JobInv
<1>1. ASSUME NEW s, Status(s)
      PROVE  job'.keyset = job.keyset
  BY <1>0, <1>1 DEF Status, JobType
<1>2. ASSUME job' = NoJob
      PROVE  job'.keyset.keys = <<>>
  BY <1>2 DEF NoJob
<1>3. CASE Crash
  BY <1>2, <1>3 DEF Crash
<1>4. CASE StartOnboarding
  <2>1. PICK keyset \in OnboardingKeyset(view) :
          job' = [NoJob EXCEPT !.kind = "Onboarding", !.keyset = keyset]
    BY <1>4 DEF StartOnboarding
  <2>2. keyset = view.keyset
    BY <2>1 DEF OnboardingKeyset
  <2>3. job'.keyset = keyset
    BY <2>1 DEF NoJob
  <2> QED BY <1>4, <2>2, <2>3 DEF StartOnboarding
<1>5. CASE StartJob
  BY <1>5 DEF StartJob
<1>6. CASE OnboardingDone \/ BeginPromotion \/ ImportBackup
  BY <1>6 DEF OnboardingDone, BeginPromotion, ImportBackup, nodeVars
<1>7. CASE SeeContract
  BY <1>2, <1>7 DEF SeeContract, MonitorContractState
<1>8. CASE ReturnPromotion \/ BeginServing \/ SkipImport \/ ContinueStore \/ Conclude
  BY <1>1, <1>8 DEF ReturnPromotion, BeginServing, SkipImport, ContinueStore, Conclude
<1>9. CASE CancelOnboarding
  BY <1>2, <1>9 DEF CancelOnboarding
<1>10. CASE \E t \in tasks : \/ StartTask(t) \/ FinishTask(t) \/ CommitTask(t) \/ Vote(t) \/ DropTask(t)
  BY <1>10 DEF StartTask, FinishTask, CommitTask, Vote, DropTask
<1>11. CASE \E c \in channels : ReceiveChannel(c)
  BY <1>11 DEF ReceiveChannel
<1> QED BY <1>3, <1>4, <1>5, <1>6, <1>7, <1>8, <1>9, <1>10, <1>11
    DEF NodeStep, Node, VotePk, VoteReshared, KeygenFails, ResharingFails, KeygenFollower,
    ResharingFollower

\* The tasks and runs of the node are of instances that the contract started.
LEMMA NodeTasks ==
  ASSUME KeysInvariant, BoundInv, NodeStep \/ Crash
  PROVE  /\ \A t \in tasks' : IsKeyId(t.id) /\ InstanceOK(t.instance)
         /\ \A x \in ran' : InstanceOK(x[2])
         /\ channels' \subseteq channels
<1>1. ASSUME UNCHANGED <<tasks, ran, channels>>
      PROVE  /\ \A t \in tasks' : IsKeyId(t.id) /\ InstanceOK(t.instance)
             /\ \A x \in ran' : InstanceOK(x[2])
             /\ channels' \subseteq channels
  BY <1>1 DEF BoundInv
<1>2. CASE /\ UNCHANGED channels
           /\ \/ OnboardingDone \/ StartOnboarding \/ StartJob \/ BeginPromotion \/ ReturnPromotion
              \/ BeginServing \/ SkipImport \/ ImportBackup \/ ContinueStore \/ CancelOnboarding
              \/ Conclude
  BY <1>1, <1>2 DEF OnboardingDone, StartOnboarding, StartJob, BeginPromotion, ReturnPromotion,
     BeginServing, SkipImport, ImportBackup, ContinueStore, CancelOnboarding, Conclude, nodeVars
<1>3. ASSUME tasks' \subseteq tasks, UNCHANGED <<ran, channels>>
      PROVE  /\ \A t \in tasks' : IsKeyId(t.id) /\ InstanceOK(t.instance)
             /\ \A x \in ran' : InstanceOK(x[2])
             /\ channels' \subseteq channels
  BY <1>3 DEF BoundInv
<1>4. CASE Crash \/ (SeeContract /\ UNCHANGED channels)
  BY <1>3, <1>4 DEF Crash, SeeContract
<1>5. ASSUME NEW t \in tasks, NEW p \in {"waiting", "running", "created", "committed"},
             ReplaceTask(t, p), UNCHANGED channels, ran' = ran \/ ran' = ran \union {<<t.id, t.instance>>}
      PROVE  /\ \A u \in tasks' : IsKeyId(u.id) /\ InstanceOK(u.instance)
             /\ \A x \in ran' : InstanceOK(x[2])
             /\ channels' \subseteq channels
  <2>1. PICK u : u = [t EXCEPT !.pc = p]
    OBVIOUS
  <2>2. t \in TaskType
    BY DEF KeysInvariant, TaskInv
  <2>3. u.id = t.id /\ u.instance = t.instance
    BY <2>1, <2>2, ReplacedTask
  <2>4. tasks' = (tasks \ {t}) \union {u}
    BY <1>5, <2>1 DEF ReplaceTask
  <2>5. \A x \in ran' : InstanceOK(x[2])
    BY <1>5 DEF BoundInv
  <2> QED BY <1>5, <2>3, <2>4, <2>5 DEF BoundInv
<1>6. ASSUME NEW t \in tasks, UNCHANGED channels,
             StartTask(t) \/ FinishTask(t) \/ CommitTask(t) \/ Vote(t) \/ DropTask(t)
      PROVE  /\ \A u \in tasks' : IsKeyId(u.id) /\ InstanceOK(u.instance)
             /\ \A x \in ran' : InstanceOK(x[2])
             /\ channels' \subseteq channels
  <2>1. CASE tasks' = tasks \ {t} /\ UNCHANGED ran
    BY <1>3, <1>6, <2>1
  <2>2. CASE /\ ReplaceTask(t, "running") \/ ReplaceTask(t, "created") \/ ReplaceTask(t, "committed")
             /\ ran' = ran \/ ran' = ran \union {<<t.id, t.instance>>}
    BY <1>5, <1>6, <2>2
  <2> QED BY <1>6, <2>1, <2>2 DEF StartTask, FinishTask, CommitTask, Vote, DropTask
<1>7. ASSUME NEW c \in channels, ReceiveChannel(c)
      PROVE  /\ \A t \in tasks' : IsKeyId(t.id) /\ InstanceOK(t.instance)
             /\ \A x \in ran' : InstanceOK(x[2])
             /\ channels' \subseteq channels
  <2>1. PICK t : t = [id |-> c.id, instance |-> c.instance, pc |-> "waiting"]
    OBVIOUS
  <2>2. tasks' = tasks \union {t} /\ t.id = c.id /\ t.instance = c.instance
    BY <1>7, <2>1 DEF ReceiveChannel
  <2> QED BY <1>7, <2>2 DEF ReceiveChannel, BoundInv
<1> QED BY <1>2, <1>4, <1>6, <1>7
    DEF NodeStep, Node, VotePk, VoteReshared, KeygenFails, ResharingFails, KeygenFollower,
    ResharingFollower

\* The node stays within the bounds.
LEMMA NodeBounds ==
  ASSUME KeysInvariant, BoundInv, NodeStep \/ Crash
  PROVE  BoundInv'
<1>1. UNCHANGED <<contract, next_domain_id, instance>>
  BY DEF NodeStep, Crash, chainVars
<1>2. AreKeys(view'.keyset.keys)
  BY NodeKeysets DEF BoundInv, Bounded
<1>3. AreKeys(job'.keyset.keys)
  BY NodeKeysets, NoKeysBounded DEF BoundInv
<1>4. \A c \in channels' : IsKeyId(c.id) /\ InstanceOK(c.instance)
  BY NodeTasks DEF BoundInv
<1> QED BY <1>1, <1>2, <1>3, <1>4, NodeTasks DEF BoundInv

\* A share under the id of a key of the job's keyset.
LEMMA ShareBounded ==
  ASSUME KeysInvariant, BoundInv, job.kind # "None", NEW i \in DOMAIN job.keyset.keys, NEW s,
         s.key_id = IdOf(job.keyset.epoch_id, job.keyset.keys[i]),
         s.public_key = job.keyset.keys[i].key, InstanceOK(s.instance)
  PROVE  IsShare(s)
<1>1. /\ Grown(job.keyset, view.keyset) /\ Grown(view.keyset, contract.keyset)
      /\ NoEpoch <= job.keyset.epoch_id
  BY DEF KeysInvariant, JobInv, JobFits, ViewInv, Lags
<1>2. view.keyset.epoch_id \in Int /\ contract.keyset.epoch_id \in -1 .. MaxEpoch
      /\ job.keyset.epoch_id \in Int
  BY JobKeyset, StateFields DEF KeysInvariant, ViewInv, BoundInv, Bounded
<1>3. job.keyset.epoch_id \in -1 .. MaxEpoch
  BY <1>1, <1>2, NodeAssumption DEF Grown, NoEpoch
<1>4. IsKey(job.keyset.keys[i])
  BY DEF BoundInv, AreKeys
<1>5. IsKeyId(s.key_id)
  BY <1>3, <1>4 DEF IsKeyId, IsKey, IdOf, KeyEventId
<1> QED BY <1>4, <1>5 DEF IsShare, IsKey, InstanceOK

\* The store in progress, if one begins, is of shares within the bounds.
LEMMA BeginStoreBounds ==
  ASSUME FilesInv, NEW d, BeginStore(d), d.keyshares \in Seq(ShareType), AreShares(d.keyshares)
  PROVE  FilesInv'
<1>1. /\ UNCHANGED <<markers, temporary, permanent>> /\ storing' = [pc |-> "created", data |-> d]
      /\ permanent_keys' = Write(permanent_keys, Identifier(d), <<>>) /\ IsConsistent(d)
  BY DEF BeginStore, CanStore
<1>2. PICK st : st = storing'
  OBVIOUS
<1>3. st.data = d
  BY <1>1, <1>2
<1>4. \A i \in DOMAIN d.keyshares : d.keyshares[i].key_id.epoch_id = d.epoch_id
  BY <1>1 DEF IsConsistent
<1>5. StoreBounded(st)
  BY <1>3, <1>4 DEF StoreBounded, AreShares
<1>6. ASSUME NEW f \in DOMAIN permanent_keys'
      PROVE  CopyBounded(permanent_keys', f)
  <2>1. PICK p : p = permanent_keys'
    OBVIOUS
  <2>2. p[f] = <<>> \/ (f \in DOMAIN permanent_keys /\ p[f] = permanent_keys[f])
    BY <1>1, <1>6, <2>1 DEF Write
  <2>3. CopyBounded(p, f)
    BY <2>2 DEF FilesInv, CopyBounded
  <2> QED BY <2>1, <2>3
<1> QED BY <1>1, <1>2, <1>5, <1>6 DEF FilesInv

\* What is promoted is in bounds.
LEMMA BeginPromotionBounds ==
  ASSUME KeysInvariant, BoundInv, FilesInv, BeginPromotion
  PROVE  FilesInv'
<1>1. /\ job.kind # "None" /\ CanLoadKeyset(job.keyset) /\ BeginStore(PromotedData(job.keyset))
  BY DEF BeginPromotion, Promoting
<1>2. PICK d : d = PromotedData(job.keyset)
  OBVIOUS
<1>3. /\ d \in DataType /\ Len(d.keyshares) = Len(job.keyset.keys)
      /\ \A i \in DOMAIN d.keyshares :
           /\ d.keyshares[i].key_id = IdOf(job.keyset.epoch_id, job.keyset.keys[i])
           /\ d.keyshares[i].public_key = job.keyset.keys[i].key
           /\ \/ i <= Len(StoredPrefix(job.keyset)) /\ d.keyshares[i] = StoredPrefix(job.keyset)[i]
              \/ <<d.keyshares[i].key_id, d.keyshares[i].instance>> \in ran
  BY <1>1, <1>2, Loaded
<1>4. /\ d.keyshares \in Seq(ShareType) /\ DOMAIN d.keyshares = DOMAIN job.keyset.keys
      /\ DOMAIN d.keyshares = 1 .. Len(d.keyshares) /\ Len(d.keyshares) \in Nat
  BY <1>1, <1>3, JobKeyset DEF DataType
<1>5. ASSUME NEW i \in DOMAIN d.keyshares
      PROVE  IsShare(d.keyshares[i])
  <2>1. CASE i <= Len(StoredPrefix(job.keyset)) /\ d.keyshares[i] = StoredPrefix(job.keyset)[i]
    <3>1. i \in Nat /\ 1 <= i
      BY <1>4
    <3>2. StoredPrefix(job.keyset) = permanent.keyshares
      BY <2>1, <3>1 DEF StoredPrefix
    <3>3. i \in DOMAIN permanent.keyshares
      BY <1>1, <2>1, <3>1, <3>2, JobKeyset
    <3> QED BY <2>1, <3>2, <3>3 DEF FilesInv, AreShares
  <2>2. CASE <<d.keyshares[i].key_id, d.keyshares[i].instance>> \in ran
    <3>1. PICK x \in ran : x = <<d.keyshares[i].key_id, d.keyshares[i].instance>>
      BY <2>2
    <3>2. x[2] = d.keyshares[i].instance
      BY <3>1
    <3>3. InstanceOK(d.keyshares[i].instance)
      BY <3>2 DEF BoundInv
    <3>4. /\ d.keyshares[i].key_id = IdOf(job.keyset.epoch_id, job.keyset.keys[i])
          /\ d.keyshares[i].public_key = job.keyset.keys[i].key
      BY <1>3
    <3> QED BY <1>1, <1>4, <3>3, <3>4, ShareBounded
  <2> QED BY <1>3, <2>1, <2>2
<1>6. AreShares(d.keyshares)
  BY <1>5 DEF AreShares
<1> QED BY <1>1, <1>2, <1>4, <1>6, BeginStoreBounds

\* What is imported is in bounds.
LEMMA ImportBackupBounds ==
  ASSUME KeysInvariant, BoundInv, FilesInv, ImportBackup
  PROVE  FilesInv'
<1> DEFINE epoch == job.keyset.epoch_id
           keys == job.keyset.keys
           backup == [i \in 1 .. Len(keys) |-> BackupShare(epoch, keys[i])]
<1>1. job.kind # "None" /\ BeginStore([epoch_id |-> epoch, keyshares |-> backup])
  BY DEF ImportBackup
<1>2. /\ job.keyset \in KeysetType /\ Len(keys) \in Nat /\ epoch \in Int
      /\ DOMAIN keys = 1 .. Len(keys)
  BY <1>1, JobKeyset
<1>3. ASSUME NEW i \in 1 .. Len(keys)
      PROVE  BackupShare(epoch, keys[i]) \in ShareType /\ IsShare(BackupShare(epoch, keys[i]))
  <2>1. keys[i].domain_id \in Nat /\ keys[i].attempt \in Nat /\ keys[i].key \in Nat
        /\ keys[i].instance \in Nat
    BY <1>2, KeyAt
  <2>2. BackupShare(epoch, keys[i]) \in ShareType
    BY <1>2, <2>1 DEF BackupShare, Keyshare, IdOf, KeyEventId, ShareType, IdType
  <2>3. PICK s : s = BackupShare(epoch, keys[i])
    OBVIOUS
  <2>4. s.key_id = IdOf(epoch, keys[i]) /\ s.public_key = keys[i].key /\ s.instance = keys[i].instance
    BY <2>3 DEF BackupShare, Keyshare
  <2>5. InstanceOK(keys[i].instance)
    BY <1>2 DEF BoundInv, AreKeys, IsKey, InstanceOK
  <2>6. IsShare(s)
    BY <1>1, <1>2, <2>4, <2>5, ShareBounded
  <2> QED BY <2>2, <2>3, <2>6
<1>4. backup \in [1 .. Len(keys) -> ShareType]
  BY <1>3
<1>5. PICK b \in Seq(ShareType) : b = backup /\ DOMAIN b = 1 .. Len(keys)
  BY <1>2, <1>4, FunctionIsSequence
<1>6. \A i \in 1 .. Len(keys) : b[i] = BackupShare(epoch, keys[i])
  BY <1>5
<1>7. PICK d : d = [epoch_id |-> epoch, keyshares |-> b]
  OBVIOUS
<1>8. d.keyshares = b /\ BeginStore(d)
  BY <1>1, <1>5, <1>7
<1> HIDE DEF epoch, keys, backup
<1>9. AreShares(b)
  BY <1>3, <1>5, <1>6 DEF AreShares
<1> QED BY <1>8, <1>9, BeginStoreBounds

\* What the store writes is in bounds.
LEMMA StoreBounds ==
  ASSUME KeysInvariant, FilesInv, Store
  PROVE  FilesInv'
<1>1. storing \in StoringType /\ storing.pc # "idle" /\ storing.data \in DataType
      /\ storing.data.keyshares \in Seq(ShareType)
  BY DEF Store, StoreWrite, StoreRemoveKey, StoreLink, StoreDelete, KeysInvariant, StoringInv,
     StoringType, DataType
<1>2. AreShares(storing.data.keyshares)
  BY <1>1 DEF FilesInv, StoreBounded, AreShares
<1>3. ASSUME NEW p, storing' = [storing EXCEPT !.pc = p]
      PROVE  StoreBounded(storing')
  <2>1. PICK st : st = storing'
    OBVIOUS
  <2>2. st.data = storing.data
    BY <1>1, <1>3, <2>1 DEF StoringType
  <2>3. StoreBounded(st)
    BY <1>1, <2>2 DEF FilesInv, StoreBounded
  <2> QED BY <2>1, <2>3
<1>4. CASE StoreWrite
  <2>1. /\ UNCHANGED <<markers, temporary, permanent>> /\ StoreBounded(storing')
        /\ permanent_keys' = Write(permanent_keys, Identifier(storing.data), storing.data.keyshares)
    BY <1>3, <1>4 DEF StoreWrite
  <2>2. ASSUME NEW f \in DOMAIN permanent_keys'
        PROVE  CopyBounded(permanent_keys', f)
    <3>1. PICK p : p = permanent_keys'
      OBVIOUS
    <3>2. CASE f = Identifier(storing.data)
      <4>1. /\ p[f] = storing.data.keyshares
            /\ f[1] = storing.data.epoch_id /\ f[2] = Len(storing.data.keyshares)
        BY <2>1, <3>1, <3>2 DEF Write, Identifier
      <4>2. CopyBounded(p, f)
        BY <1>1, <1>2, <4>1 DEF FilesInv, StoreBounded, CopyBounded
      <4> QED BY <3>1, <4>2
    <3>3. CASE f # Identifier(storing.data)
      <4>1. f \in DOMAIN permanent_keys /\ p[f] = permanent_keys[f]
        BY <2>1, <2>2, <3>1, <3>3 DEF Write
      <4>2. CopyBounded(p, f)
        BY <4>1 DEF FilesInv, CopyBounded
      <4> QED BY <3>1, <4>2
    <3> QED BY <3>2, <3>3
  <2> QED BY <2>1, <2>2 DEF FilesInv
<1>5. CASE StoreRemoveKey
  <2>1. /\ UNCHANGED <<markers, temporary, permanent_keys>> /\ StoreBounded(storing')
        /\ permanent' = NoPermanent
    BY <1>3, <1>5 DEF StoreRemoveKey
  <2>2. AreShares(NoPermanent.keyshares)
    BY DEF AreShares, NoPermanent
  <2> QED BY <2>1, <2>2 DEF FilesInv
<1>6. CASE StoreLink
  <2>1. /\ UNCHANGED <<markers, temporary, permanent_keys>> /\ StoreBounded(storing')
        /\ permanent' = storing.data
    BY <1>3, <1>6 DEF StoreLink
  <2> QED BY <1>2, <2>1 DEF FilesInv
<1>7. CASE StoreDelete
  <2>1. UNCHANGED <<permanent, permanent_keys, storing>> /\ markers' \subseteq markers
    BY <1>7 DEF StoreDelete
  <2>2. FilesBounded(temporary')
    <3>1. CASE temporary' = temporary
      BY <3>1 DEF FilesInv
    <3>2. ASSUME NEW id \in DOMAIN temporary, temporary' = RemoveFile(temporary, id)
          PROVE  FilesBounded(temporary')
      BY <3>2 DEF FilesInv, FilesBounded, RemoveFile
    <3> QED BY <1>7, <3>1, <3>2 DEF StoreDelete
  <2> QED BY <2>1, <2>2 DEF FilesInv
<1> QED BY <1>4, <1>5, <1>6, <1>7 DEF Store

\* What a task writes is in bounds.
LEMMA TaskFileBounds ==
  ASSUME KeysInvariant, BoundInv, FilesInv, NEW t \in tasks,
         StartTask(t) \/ FinishTask(t) \/ CommitTask(t)
  PROVE  FilesInv'
<1>1. IsKeyId(t.id) /\ InstanceOK(t.instance) /\ t \in TaskType
  BY DEF BoundInv, KeysInvariant, TaskInv
<1>2. CASE UNCHANGED storageVars
  BY <1>2 DEF FilesInv, storageVars, disk
<1>3. CASE CreateStartedMarker(t.id)
  BY <1>1, <1>3 DEF CreateStartedMarker, FilesInv
<1>4. ASSUME NEW f, AreShares(f), temporary' = Write(temporary, t.id, f),
             UNCHANGED <<markers, permanent, permanent_keys, storing>>
      PROVE  FilesInv'
  <2>1. FilesBounded(temporary')
    BY <1>1, <1>4 DEF FilesInv, FilesBounded, Write
  <2> QED BY <1>4, <2>1 DEF FilesInv
<1>5. CASE CreateKeyshareFile(t.id)
  <2>1. PICK f : f = <<>>
    OBVIOUS
  <2>2. AreShares(f)
    BY <2>1 DEF AreShares
  <2> QED BY <1>4, <1>5, <2>1, <2>2 DEF CreateKeyshareFile
<1>6. CASE CommitTask(t)
  <2>1. PICK s : s = Keyshare(t.id, PublicKeyOf(t), t.instance)
    OBVIOUS
  <2>2. s.key_id = t.id /\ s.public_key = PublicKeyOf(t) /\ s.instance = t.instance
    BY <2>1 DEF Keyshare
  <2>3. PublicKeyOf(t) \in 1 .. MaxInstances
    <3>1. /\ t.pc # "waiting" /\ TaskFits(t, ran, contract, view, job)
          /\ job.kind \in {"Initializing", "Resharing"}
      BY <1>6 DEF CommitTask, KeysInvariant, TaskInv
    <3>2. CASE job.kind = "Initializing"
      BY <1>1, <3>2 DEF PublicKeyOf, InstanceOK
    <3>3. CASE job.kind = "Resharing"
      <4>1. \E i \in DOMAIN job.keyset.keys : job.keyset.keys[i].domain_id = t.id.domain_id
        BY <3>1, <3>3 DEF TaskFits
      <4> DEFINE at == CHOOSE i \in DOMAIN job.keyset.keys :
                         job.keyset.keys[i].domain_id = t.id.domain_id
      <4>2. at \in DOMAIN job.keyset.keys
        BY <4>1
      <4>3. job.keyset.keys[at].key \in 1 .. MaxInstances
        <5> HIDE DEF at
        <5> QED BY <4>2 DEF BoundInv, AreKeys, IsKey
      <4> QED BY <3>3, <4>3 DEF PublicKeyOf
    <3> QED BY <3>1, <3>2, <3>3
  <2>4. IsShare(s)
    BY <1>1, <2>2, <2>3 DEF IsShare, InstanceOK
  <2>5. PICK f : f = <<s>>
    OBVIOUS
  <2>6. AreShares(f)
    BY <2>4, <2>5 DEF AreShares
  <2>7. WriteKeyshareFile(s)
    BY <1>6, <2>1 DEF CommitTask
  <2>8. temporary' = Write(temporary, t.id, f) /\ UNCHANGED <<markers, permanent, permanent_keys, storing>>
    BY <2>2, <2>5, <2>7 DEF WriteKeyshareFile
  <2> QED BY <1>4, <2>6, <2>8
<1> QED BY <1>2, <1>3, <1>5, <1>6 DEF StartTask, FinishTask

\* A step that writes nothing and may drop the store under way.
LEMMA FilesDrop ==
  ASSUME FilesInv, UNCHANGED disk, storing' = storing \/ storing' = NotStoring
  PROVE  FilesInv'
<1>1. StoreBounded(storing')
  BY DEF FilesInv, StoreBounded, NotStoring
<1> QED BY <1>1 DEF FilesInv, disk

\* Every step of the node keeps the files in bounds.
LEMMA NodeFiles ==
  ASSUME KeysInvariant, BoundInv, FilesInv, NodeStep \/ Crash
  PROVE  FilesInv'
<1>1. CASE UNCHANGED storageVars
  BY <1>1, FilesDrop DEF storageVars
<1>2. CASE BeginPromotion \/ ImportBackup
  BY <1>2, BeginPromotionBounds, ImportBackupBounds
<1>3. CASE ContinueStore
  BY <1>3, StoreBounds, FilesDrop DEF ContinueStore, StoreReturn
<1>4. CASE SeeContract \/ Crash
  BY <1>1, <1>4, FilesDrop DEF SeeContract, Crash, DropStore, storageVars
<1>5. CASE \E t \in tasks : StartTask(t) \/ FinishTask(t) \/ CommitTask(t)
  BY <1>5, TaskFileBounds
<1> QED BY <1>1, <1>2, <1>3, <1>4, <1>5
    DEF NodeStep, Node, OnboardingDone, StartOnboarding, StartJob, ReturnPromotion, BeginServing,
    SkipImport, KeygenFails, ResharingFails, DropTask, CancelOnboarding, Conclude, VotePk,
    VoteReshared, Vote, KeygenFollower, ResharingFollower, ReceiveChannel

\* The bounds hold at the start.
LEMMA BoundsInitially ==
  ASSUME KeysInit
  PROVE  BoundInv /\ FilesInv
<1>1. PICK migrating \in {FALSE, Migrates} :
        contract = [phase |-> "Running", keyset |-> [epoch_id |-> 0, keys |-> <<>>],
                    completed |-> <<>>, id |-> KeyEventId(NoEpoch, 0, 0), started |-> FALSE,
                    member |-> ~migrating, joins |-> FALSE, migrating |-> migrating]
  BY DEF KeysInit
<1>2. /\ contract.keyset.epoch_id = 0 /\ contract.keyset.keys = <<>> /\ contract.completed = <<>>
      /\ contract.id = KeyEventId(NoEpoch, 0, 0) /\ ~contract.started
  BY <1>1
<1>3. Bounded(contract, 0, 0)
  BY <1>2, NoIdBounded, NoKeysBounded, NodeAssumption DEF Bounded
<1>4. BoundInv
  BY <1>2, <1>3, NoKeysBounded DEF KeysInit, BoundInv, NoJob
<1>5. FilesInv
  BY DEF KeysInit, StorageInit, FilesInv, FilesBounded, AreShares, StoreBounded, NotStoring,
     NoPermanent
<1> QED BY <1>4, <1>5

\* Every step stays within the bounds.
LEMMA BoundsStep ==
  ASSUME KeysInvariant, BoundInv, FilesInv, [KeysNext]_keysVars
  PROVE  BoundInv' /\ FilesInv'
<1>1. CASE UNCHANGED keysVars
  BY <1>1 DEF keysVars, chainVars, nodeVars, storageVars, disk, BoundInv, FilesInv
<1> QED BY <1>1, ChainStepBounds, NodeBounds, NodeFiles DEF KeysNext

(***************************************************************************)
(* The shares are safe.                                                    *)
(***************************************************************************)

\* The share is in the file with its id, or in a numbered copy.
LEMMA InFileRead ==
  ASSUME NEW e, NEW k, InFile(temporary, e, k)
  PROVE  BackupShare(e, k) \in SharesRead /\ BackupShare(e, k) \in SharesOnDisk
<1>1. PICK id \in DOMAIN temporary : temporary[id] = <<BackupShare(e, k)>>
  BY DEF InFile
<1>2. 1 \in DOMAIN temporary[id] /\ temporary[id][1] = BackupShare(e, k)
  BY <1>1
<1>3. BackupShare(e, k) \in SharesRead
  BY <1>2 DEF SharesRead
<1> QED BY <1>3 DEF SharesOnDisk

\* A share with a numbered copy is on disk.
LEMMA CopiedOnDisk ==
  ASSUME NEW s, Copied(permanent_keys, s)
  PROVE  s \in SharesOnDisk
  BY DEF Copied, SharesOnDisk

\* What the contract counts on, key by key.
LEMMA CountedOn ==
  ASSUME KeysInvariant, NEW s \in SharesCountedOn
  PROVE  \/ /\ contract.member
            /\ \E i \in DOMAIN contract.keyset.keys :
                 s = BackupShare(contract.keyset.epoch_id, contract.keyset.keys[i])
         \/ /\ contract.phase = "Resharing" /\ contract.joins
            /\ \E i \in DOMAIN contract.completed :
                 s = BackupShare(contract.id.epoch_id, contract.completed[i])
<1>1. /\ DOMAIN contract.keyset.keys = 1 .. Len(contract.keyset.keys)
      /\ DOMAIN contract.completed = 1 .. Len(contract.completed)
  BY StateFields DEF KeysInvariant, ChainInv
<1> QED BY <1>1 DEF SharesCountedOn

\* The invariants contain what is claimed of the shares.
LEMMA NoneIsLost ==
  ASSUME KeysInvariant, HeldInvariant
  PROVE  (NoShareLost \/ hasty) /\ (migrant \/ SharesLoadable)
<1>1. Holds(contract, temporary, permanent_keys, hasty, migrant)
  BY DEF HeldInvariant, CountedInv
<1>2. ASSUME ~hasty, NEW s \in SharesCountedOn
      PROVE  s \in SharesOnDisk
  <2>1. CASE contract.member
    <3>1. ASSUME NEW i \in DOMAIN contract.keyset.keys,
                 s = BackupShare(contract.keyset.epoch_id, contract.keyset.keys[i])
          PROVE  s \in SharesOnDisk
      BY <1>1, <1>2, <2>1, <3>1, InFileRead, CopiedOnDisk DEF Holds, AllOnDisk
    <3>2. ASSUME contract.phase = "Resharing", contract.joins, NEW i \in DOMAIN contract.completed,
                 s = BackupShare(contract.id.epoch_id, contract.completed[i])
          PROVE  s \in SharesOnDisk
      BY <1>1, <3>2, InFileRead DEF Holds, AllInFiles
    <3> QED BY <3>1, <3>2, CountedOn
  <2>2. CASE ~contract.member
    <3>1. /\ contract.phase = "Resharing" /\ contract.joins
          /\ \E i \in DOMAIN contract.completed :
               s = BackupShare(contract.id.epoch_id, contract.completed[i])
      BY <2>2, CountedOn
    <3> QED BY <1>1, <3>1, InFileRead DEF Holds, AllInFiles
  <2> QED BY <2>1, <2>2
<1>3. ASSUME ~migrant, NEW s \in SharesCountedOn
      PROVE  s \in SharesRead
  <2>1. ASSUME contract.member, NEW i \in DOMAIN contract.keyset.keys,
               s = BackupShare(contract.keyset.epoch_id, contract.keyset.keys[i])
        PROVE  s \in SharesRead
    BY <1>1, <1>3, <2>1, InFileRead DEF Holds, AllInFiles
  <2>2. ASSUME contract.phase = "Resharing", contract.joins, NEW i \in DOMAIN contract.completed,
               s = BackupShare(contract.id.epoch_id, contract.completed[i])
        PROVE  s \in SharesRead
    BY <1>1, <2>2, InFileRead DEF Holds, AllInFiles
  <2> QED BY <2>1, <2>2, CountedOn
<1> QED BY <1>2, <1>3 DEF NoShareLost, SharesLoadable

\* The invariants contain the types.
LEMMA KeysTyped ==
  ASSUME KeysInvariant, FilesInv
  PROVE  KeysTypeOK
<1>1. contract.phase \in {"Running", "Initializing", "Resharing"}
  BY DEF KeysInvariant, ChainInv, StateType
<1>2. ASSUME NEW id \in DOMAIN temporary, NEW i \in DOMAIN temporary[id]
      PROVE  i = 1 /\ IsShare(temporary[id][i]) /\ temporary[id][i].key_id = id
  <2>1. PICK f : f = temporary[id]
    OBVIOUS
  <2>2. f # <<>> /\ FileFits(f, id, ran, contract, view, job)
    BY <1>2, <2>1 DEF KeysInvariant, TemporaryInv
  <2>3. f \in Seq(ShareType) /\ Len(f) = 1 /\ f[1].key_id = id
    BY <2>2 DEF FileFits
  <2>4. i = 1
    BY <1>2, <2>1, <2>3
  <2>5. IsShare(temporary[id][i])
    BY <1>2 DEF FilesInv, FilesBounded, AreShares
  <2> QED BY <2>1, <2>3, <2>4, <2>5
<1>3. ASSUME NEW f \in DOMAIN permanent_keys, permanent_keys[f] # <<>>
      PROVE  /\ Len(permanent_keys[f]) = f[2]
             /\ \A i \in 1 .. f[2] : IsShare(permanent_keys[f][i])
                                     /\ permanent_keys[f][i].key_id.epoch_id = f[1]
  <2>1. PICK q : q = permanent_keys[f]
    OBVIOUS
  <2>2. /\ q \in Seq(ShareType) /\ Len(q) = f[2]
        /\ \A i \in DOMAIN q : IsShare(q[i]) /\ q[i].key_id.epoch_id = f[1]
    BY <1>3, <2>1 DEF FilesInv, CopyBounded
  <2>3. DOMAIN q = 1 .. Len(q)
    BY <2>2
  <2> QED BY <2>1, <2>2, <2>3
<1>4. /\ job.kind \in {"None", "Onboarding", "Running", "Initializing", "Resharing"}
      /\ job.status \in {"new", "ready", "serving", "concluded", "failed", "halted"}
  BY DEF KeysInvariant, JobInv, JobType
<1>5. storing.pc \in {"idle", "created", "written", "removed", "linked"}
  BY DEF KeysInvariant, StoringInv, StoringType
<1>6. \A t \in tasks : t.pc \in {"waiting", "running", "created", "committed"}
  BY DEF KeysInvariant, TaskInv, TaskType
<1>7. /\ \A id \in markers : IsKeyId(id)
      /\ \A id \in DOMAIN temporary : IsKeyId(id)
  BY DEF FilesInv, FilesBounded
<1> QED BY <1>1, <1>2, <1>3, <1>4, <1>5, <1>6, <1>7 DEF KeysTypeOK

\* No share that the contract counts on is lost: not by a crash at any step of
\* a computation or a store, a job that is dropped, a promotion that deletes
\* temporary files, an epoch id that is used again or a migration that waited
\* for its backup; and a node that did not enter by a migration has each of
\* them in a file that it reads.
THEOREM SharesSafeAlways == KeysSpec => []SharesSafe
<1>1. KeysInit => KeysInvariant /\ HeldInvariant /\ BoundInv /\ FilesInv
  BY KeysInitially, HeldInitially, BoundsInitially
<1>2. KeysInvariant /\ HeldInvariant /\ BoundInv /\ FilesInv /\ [KeysNext]_keysVars
      => KeysInvariant' /\ HeldInvariant' /\ BoundInv' /\ FilesInv'
  BY KeysStep, HeldStep, BoundsStep
<1>3. KeysInvariant /\ HeldInvariant /\ BoundInv /\ FilesInv => SharesSafe
  BY NoneIsLost, KeysTyped DEF SharesSafe
<1> QED BY <1>1, <1>2, <1>3, PTL DEF KeysSpec
=============================================================================
