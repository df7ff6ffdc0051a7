---------------------------- MODULE Connectivity ----------------------------
(***************************************************************************)
(* The connection of one node to another: the dialer's PersistentConnection *)
(* loop, the listener's connection handlers, the handshake with connection *)
(* ids, and the NodeConnectivity objects of both ends with their versions. *)
(* A connection carries messages from the dialer to the listener only; the *)
(* path may be cut at any time, either end may notice late, and either     *)
(* side may build its mesh network anew.                                   *)
(***************************************************************************)
EXTENDS Integers, Sequences, SequencesExt, FiniteSets

CONSTANTS
  Slots,           \* bound: connections that exist at the same time
  DialerVersions,  \* protocol versions the dialer may run
  CidModulus,      \* 2^32 in the code: connection ids wrap
  MaxFaults,       \* bound: cuts, handshake timeouts and restarts
  MaxSends,        \* bound: MPC messages
  MaxHeight        \* bound: indexer heights

ASSUME ConnectivityAssumption ==
  /\ Slots \subseteq Nat \ {0}
  /\ DialerVersions \subseteq {"Unsupported", "Dec2025", "Jan2026"}
  /\ CidModulus \in Nat \ {0, 1}
  /\ MaxFaults \in Nat /\ MaxSends \in Nat /\ MaxHeight \in Nat

VARIABLES
  peer_version,  \* protocol version of the dialer
  conns,         \* connections: slot -> record, with the mesh that dialed it (ghost)
  dialer,        \* [pc, slot, attempt]: the loop of PersistentConnection
  outgoing,      \* [version, slot]: ConnectionWithVersion of the dialer; slot 0 when dropped
  incoming,      \* [version, slot]: ConnectionWithVersion of the listener
  mesh,          \* number of restarts of the dialer's mesh
  sent,          \* ghost: mesh and version of the MPC messages that send returned Ok for
  log,           \* MPC messages the listener received, by their number in sent
  height,        \* the dialer's indexer height
  peer_height,   \* the listener's IndexerHeightTracker entry
  faults

vars == <<peer_version, conns, dialer, outgoing, incoming, mesh, log, sent, height,
          peer_height, faults>>

Free == [d |-> "closed", l |-> "closed", cid |-> 0, min |-> 0, mesh |-> 0, cut |-> FALSE,
         pipe |-> <<>>]

WrappingAdd(c) == (c + 1) % CidModulus

-----------------------------------------------------------------------------
(* NodeConnectivity. *)

(* The handler of the incoming connection holds it while it runs. *)
IncomingConnected == incoming.slot # 0 /\ conns[incoming.slot].l = "open"
OutgoingConnected == outgoing.slot # 0

MayReplaceAny(cid) == TRUE

(* set_incoming_connection: only a strictly newer connection replaces a live one. *)
MayReplace(cid) == IncomingConnected => conns[incoming.slot].cid < cid

SetOutgoingSameVersion(s) == [version |-> IF outgoing.version = 0 THEN 1 ELSE outgoing.version,
                              slot |-> s]

SetOutgoing(s) == [version |-> outgoing.version + 1, slot |-> s]

(* outgoing_connection_asserting. *)
OutgoingAsserting(version) == outgoing.version = version /\ OutgoingConnected

-----------------------------------------------------------------------------
(* Handshake. *)

(* min_expected_connection_id of a new incoming connection. *)
MinExpected == IF IncomingConnected THEN WrappingAdd(conns[incoming.slot].cid) ELSE 0

(* p2p_handshake_listener: whether it ends with an accepted connection, and its id. *)
ListenerAccepts(c) ==
  \/ peer_version = "Dec2025" /\ c.min = 0
  \/ peer_version = "Jan2026" /\ c.min <= c.cid
SenderConnectionId(c) == IF peer_version = "Dec2025" THEN 1 ELSE c.cid

(* p2p_handshake_dialer: an old dialer gets an answer only if it is accepted. *)
DialerAccepted(c) ==
  \/ peer_version = "Dec2025" /\ c.min = 0
  \/ peer_version = "Jan2026" /\ c.min <= c.cid

-----------------------------------------------------------------------------
Init ==
  /\ peer_version \in DialerVersions
  /\ conns = [s \in Slots |-> Free]
  /\ dialer = [pc |-> "dial", slot |-> 0, attempt |-> 0]
  /\ outgoing = [version |-> 0, slot |-> 0]
  /\ incoming = [version |-> 0, slot |-> 0]
  /\ mesh = 0 /\ log = <<>> /\ sent = <<>> /\ height = 0 /\ peer_height = 0 /\ faults = 0

IsFree(s) == conns[s].d = "closed" /\ conns[s].l = "closed" /\ incoming.slot # s

(* OutgoingConnection::new: TCP and TLS connect; the handler at the other end reads the
   connection it has now and starts its side of the handshake. *)
Dial ==
  /\ dialer.pc = "dial"
  /\ \E s \in Slots :
       /\ IsFree(s) /\ \A u \in Slots : IsFree(u) => s <= u
       /\ conns' = [conns EXCEPT ![s] = [Free EXCEPT !.d = "handshake", !.l = "handshake",
                                         !.cid = dialer.attempt, !.min = MinExpected,
                                         !.mesh = mesh]]
       /\ dialer' = [dialer EXCEPT !.pc = "handshake", !.slot = s]
  /\ UNCHANGED <<peer_version, outgoing, incoming, mesh, log, sent, height, peer_height,
                 faults>>

(* The dialer's side of the handshake ends; after an error it retries with the same id. *)
DialerHandshake ==
  /\ dialer.pc = "handshake"
  /\ LET s == dialer.slot IN
     \/ /\ DialerAccepted(conns[s])
        /\ conns' = [conns EXCEPT ![s].d = "open"]
        /\ outgoing' = SetOutgoing(s)
        /\ dialer' = [dialer EXCEPT !.pc = "connected"]
     \/ /\ ~DialerAccepted(conns[s])
        /\ conns' = [conns EXCEPT ![s].d = "closed"]
        /\ dialer' = [dialer EXCEPT !.pc = "dial", !.slot = 0]
        /\ UNCHANGED outgoing
  /\ UNCHANGED <<peer_version, incoming, mesh, log, sent, height, peer_height, faults>>

DialerHandshakeTimeout ==
  /\ dialer.pc = "handshake" /\ faults < MaxFaults /\ faults' = faults + 1
  /\ conns' = [conns EXCEPT ![dialer.slot].d = "closed"]
  /\ dialer' = [dialer EXCEPT !.pc = "dial", !.slot = 0]
  /\ UNCHANGED <<peer_version, outgoing, incoming, mesh, log, sent, height, peer_height>>

(* incoming_connection_handler after the handshake: the connection is registered, or shut
   down if a connection that is not older has been registered in the meantime. *)
ListenerHandshake(s) ==
  /\ conns[s].l = "handshake"
  /\ LET id == SenderConnectionId(conns[s])
         registers == ListenerAccepts(conns[s]) /\ MayReplace(id)
     IN  IF registers
         THEN /\ conns' = [conns EXCEPT ![s].l = "open", ![s].cid = id]
              /\ incoming' = [version |-> incoming.version + 1, slot |-> s]
         ELSE conns' = [conns EXCEPT ![s].l = "closed"] /\ UNCHANGED incoming
  /\ UNCHANGED <<peer_version, dialer, outgoing, mesh, log, sent, height, peer_height, faults>>

ListenerHandshakeTimeout(s) ==
  /\ conns[s].l = "handshake" /\ faults < MaxFaults /\ faults' = faults + 1
  /\ conns' = [conns EXCEPT ![s].l = "closed"]
  /\ UNCHANGED <<peer_version, dialer, outgoing, incoming, mesh, log, sent, height,
                 peer_height>>

-----------------------------------------------------------------------------
(* Sending and receiving. *)

(* A task that took the version `version` sends: refused unless the connection of that
   version is still the one in use and its sender task runs. *)
Send(version) ==
  /\ Len(sent) < MaxSends
  /\ OutgoingAsserting(version) /\ conns[outgoing.slot].d = "open"
  /\ sent' = Append(sent, <<mesh, version>>)
  /\ conns' = [conns EXCEPT ![outgoing.slot].pipe =
                 Append(@, [kind |-> "Mpc", number |-> Len(sent')])]
  /\ UNCHANGED <<peer_version, dialer, outgoing, incoming, mesh, log, height, peer_height,
                 faults>>

(* send_indexer_height: over any connection, best effort. *)
SendIndexerHeight ==
  /\ height < MaxHeight /\ height' = height + 1
  /\ conns' = IF OutgoingConnected /\ conns[outgoing.slot].d = "open"
              THEN [conns EXCEPT ![outgoing.slot].pipe =
                      Append(@, [kind |-> "IndexerHeight", height |-> height'])]
              ELSE conns
  /\ UNCHANGED <<peer_version, dialer, outgoing, incoming, mesh, log, sent, peer_height,
                 faults>>

(* set_height keeps the highest. *)
SetHeight(h) == IF h > peer_height THEN h ELSE peer_height

(* A handler forwards the next message of its connection, also when a newer connection
   has replaced it. *)
Receive(s) ==
  /\ conns[s].l = "open" /\ ~conns[s].cut /\ conns[s].pipe # <<>>
  /\ LET m == Head(conns[s].pipe) IN
       IF m.kind = "Mpc" THEN log' = Append(log, m.number) /\ UNCHANGED peer_height
                         ELSE peer_height' = SetHeight(m.height) /\ UNCHANGED log
  /\ conns' = [conns EXCEPT ![s].pipe = Tail(@)]
  /\ UNCHANGED <<peer_version, dialer, outgoing, incoming, mesh, sent, height, faults>>

-----------------------------------------------------------------------------
(* The end of a connection. *)

Cut(s) ==
  /\ ~IsFree(s) /\ ~conns[s].cut /\ faults < MaxFaults /\ faults' = faults + 1
  /\ conns' = [conns EXCEPT ![s].cut = TRUE]
  /\ UNCHANGED <<peer_version, dialer, outgoing, incoming, mesh, log, sent, height,
                 peer_height>>

(* The sender task ends: the other end closed, or keepalive, write or user timeout.  What
   it had not written yet is lost. *)
SenderTaskEnds ==
  /\ dialer.pc = "connected" /\ conns[dialer.slot].d = "open"
  /\ conns[dialer.slot].cut \/ conns[dialer.slot].l = "closed"
  /\ \E i \in 0..Len(conns[dialer.slot].pipe) :
       conns' = [conns EXCEPT ![dialer.slot].d = "closed", ![dialer.slot].pipe = SubSeq(@, 1, i)]
  /\ UNCHANGED <<peer_version, dialer, outgoing, incoming, mesh, log, sent, height,
                 peer_height, faults>>

(* A write that takes too long ends the task although nothing is wrong with the path: what
   it has written is still delivered. *)
WriteTimeout ==
  /\ dialer.pc = "connected" /\ conns[dialer.slot].d = "open"
  /\ faults < MaxFaults /\ faults' = faults + 1
  /\ \E i \in 0..Len(conns[dialer.slot].pipe) :
       conns' = [conns EXCEPT ![dialer.slot].d = "closed", ![dialer.slot].pipe = SubSeq(@, 1, i)]
  /\ UNCHANGED <<peer_version, dialer, outgoing, incoming, mesh, log, sent, height,
                 peer_height>>

(* wait_for_close returns: the connection object is dropped and the next attempt starts. *)
ConnectionClosed ==
  /\ dialer.pc = "connected" /\ conns[dialer.slot].d = "closed"
  /\ outgoing' = [outgoing EXCEPT !.slot = 0]
  /\ dialer' = [pc |-> "dial", slot |-> 0, attempt |-> WrappingAdd(dialer.attempt)]
  /\ UNCHANGED <<peer_version, conns, incoming, mesh, log, sent, height, peer_height, faults>>

HandlerEndsAtEof(s) ==
  /\ conns[s].l = "open" /\ conns[s].d = "closed" /\ conns[s].pipe = <<>> /\ ~conns[s].cut
  /\ conns' = [conns EXCEPT ![s].l = "closed"]
  /\ incoming' = IF incoming.slot = s THEN [incoming EXCEPT !.slot = 0] ELSE incoming
  /\ UNCHANGED <<peer_version, dialer, outgoing, mesh, log, sent, height, peer_height, faults>>

(* The handler ends: end of stream, or no message, not even a ping, for the read timeout. *)
HandlerEnds(s) ==
  /\ conns[s].l = "open"
  /\ conns[s].cut \/ (conns[s].d = "closed" /\ conns[s].pipe = <<>>)
  /\ conns' = [conns EXCEPT ![s].l = "closed", ![s].pipe = <<>>]
  /\ incoming' = IF incoming.slot = s THEN [incoming EXCEPT !.slot = 0] ELSE incoming
  /\ UNCHANGED <<peer_version, dialer, outgoing, mesh, log, sent, height, peer_height, faults>>

(* new_tls_mesh_network again, on a new run of the coordinator or of the process: attempts
   and versions start from zero, whatever the listener still does with the connections of
   the mesh before. *)
DialerRestart ==
  /\ faults < MaxFaults /\ faults' = faults + 1
  /\ dialer' = [pc |-> "dial", slot |-> 0, attempt |-> 0]
  /\ outgoing' = [version |-> 0, slot |-> 0]
  /\ mesh' = mesh + 1
  /\ conns' = [s \in Slots |-> [conns[s] EXCEPT !.d = "closed"]]
  /\ UNCHANGED <<peer_version, incoming, log, sent, height, peer_height>>

ListenerRestart ==
  /\ faults < MaxFaults /\ faults' = faults + 1
  /\ incoming' = [version |-> 0, slot |-> 0]
  /\ conns' = [s \in Slots |-> [conns[s] EXCEPT !.l = "closed", !.pipe = <<>>]]
  /\ peer_height' = 0
  /\ UNCHANGED <<peer_version, dialer, outgoing, mesh, log, sent, height>>

Next ==
  \/ Dial \/ DialerHandshake \/ DialerHandshakeTimeout
  \/ \E s \in Slots : ListenerHandshake(s) \/ ListenerHandshakeTimeout(s) \/ Receive(s)
                      \/ Cut(s) \/ HandlerEnds(s)
  \/ \E version \in 1..(MaxFaults + 2) : Send(version)
  \/ SendIndexerHeight \/ SenderTaskEnds \/ WriteTimeout \/ ConnectionClosed
  \/ DialerRestart \/ ListenerRestart

(* Timeouts and closed streams are noticed, retries happen and handlers run; faults need
   not happen. *)
Fairness ==
  /\ WF_vars(Dial) /\ WF_vars(DialerHandshake) /\ WF_vars(SenderTaskEnds)
  /\ WF_vars(ConnectionClosed)
  /\ \A s \in Slots : WF_vars(ListenerHandshake(s)) /\ WF_vars(HandlerEnds(s))
                      /\ WF_vars(Receive(s))

Spec == Init /\ [][Next]_vars /\ Fairness

-----------------------------------------------------------------------------
(* Properties. *)

TypeOK ==
  /\ \A s \in Slots : /\ conns[s].d \in {"handshake", "open", "closed"}
                      /\ conns[s].l \in {"handshake", "open", "closed"}
                      /\ conns[s].cid \in 0..(CidModulus - 1)
  /\ dialer.pc \in {"dial", "handshake", "connected"}
  /\ outgoing.slot \in Slots \cup {0} /\ incoming.slot \in Slots \cup {0}
  /\ outgoing.slot # 0 => dialer.pc = "connected" /\ outgoing.slot = dialer.slot
  /\ incoming.slot # 0 => conns[incoming.slot].l = "open"

(* What send promises ("the recipient will receive M[0..i] for some i"): of the messages
   sent under one connection version the listener receives a prefix, in order, whatever
   connections fail and are made anew. *)
PrefixDelivered ==
  \A i \in 1..Len(log) :
    /\ \A n \in 1..(log[i] - 1) : sent[n] = sent[log[i]] => \E j \in 1..(i - 1) : log[j] = n
    /\ \A j \in 1..(i - 1) : log[j] # log[i]

(* An incoming connection replaces a live one only after the dialer has given that one up
   (the race of issue 1759).  The exception is a handshake left over from the mesh before a
   restart: the ids of the new mesh start from zero, so the older connection looks newer. *)
ReplacesAbandonedStep ==
  (incoming'.slot # incoming.slot /\ incoming'.slot # 0 /\ IncomingConnected)
    => conns[incoming.slot].d # "open" \/ conns[incoming'.slot].mesh < mesh
ReplacesAbandoned == [][ReplacesAbandonedStep]_vars

(* The height of a peer never goes back, although a replaced connection still delivers,
   except when the listener starts anew. *)
HeightMonotoneStep == peer_height' < peer_height => incoming' = [version |-> 0, slot |-> 0]
HeightMonotone == [][HeightMonotoneStep]_vars

(* Both ends use the same connection. *)
BothConnected ==
  /\ OutgoingConnected /\ IncomingConnected /\ outgoing.slot = incoming.slot
  /\ conns[outgoing.slot].d = "open"

(* After a restart, a leftover connection with a greater id took the place of the live one
   and ended: the dialer holds an open connection that it has no reason to close, while
   the listener, whose handler still reads from it, counts as not connected. *)
Overtaken ==
  /\ mesh > 0 /\ OutgoingConnected /\ ~IncomingConnected
  /\ conns[outgoing.slot].d = "open" /\ conns[outgoing.slot].l = "open"
  /\ ~conns[outgoing.slot].cut

(* When faults stop, the two nodes are connected for good, unless the dialer's protocol
   version is not supported: half-open connections and rejected attempts do not keep them
   apart.  Ids that start again from zero can, in one way: Overtaken, for which
   PersistentConnection has no timeout. *)
Reconnects == peer_version # "Unsupported" => <>[]BothConnected \/ <>[]Overtaken

(* Messages of one connection version arrive in order and without a gap. *)
DeliverySound == TypeOK /\ PrefixDelivered

(* The listener never goes back: neither to a connection it has replaced, nor to an older
   height of its peer. *)
ListenerSteps == ReplacesAbandoned /\ HeightMonotone
=============================================================================
