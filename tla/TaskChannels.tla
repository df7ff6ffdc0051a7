---------------------------- MODULE TaskChannels ----------------------------
(***************************************************************************)
(* The channels of MPC tasks over the mesh network, and the leader-centric *)
(* computations that run on them: the manager that routes messages to      *)
(* channels and buffers those that come before the Start message, Abort    *)
(* and Success messages, timeouts, and connections that break.  A protocol *)
(* is one round: a message to every other participant and one from each.   *)
(* A link keeps the order of its messages and loses a suffix of them when  *)
(* it breaks, which is what module Connectivity shows of send.             *)
(***************************************************************************)
EXTENDS Integers, Sequences, SequencesExt, FiniteSets

CONSTANTS
  Node,           \* the participants, numbers
  Channel,        \* channel ids
  Leader,         \* leader of a channel
  Participants,   \* sequence of the participants of a channel
  Waits,          \* channels whose computation has leader_waits_for_success
  LruCapacity,    \* LRU_CAPACITY, 10000 in the code
  MaxEvents       \* bound: tasks started, broken links and timeouts together

ASSUME TaskChannelsAssumption ==
  /\ \A c \in Channel : /\ Participants[c] \in Seq(Node) /\ IsInjective(Participants[c])
                         /\ Leader[c] \in ToSet(Participants[c])
  /\ Waits \subseteq Channel
  /\ LruCapacity \in Nat \ {0} /\ MaxEvents \in Nat

VARIABLES
  link,        \* link[p][q]: [version, up, pipe]
  senders,     \* senders[n]: channel ids with an entry in the senders map
  waiting,     \* waiting[n]: channels_waiting_for_start, oldest first
  inbox,       \* inbox[n][c]: what the sender of the entry has put into the receiver
  chan,        \* chan[n][c]: the NetworkTaskChannel and the computation on it
  interrupts, timeouts,
  evicted      \* ghost: <<n, c>> whose buffered messages were dropped

vars == <<link, senders, waiting, inbox, chan, interrupts, timeouts, evicted>>

Others(c, n) == ToSet(Participants[c]) \ {n}

NoChannel == [pc |-> "none", got |-> {}, successful |-> {}, versions |-> [p \in {} |-> 0]]
Active == {"connecting", "computing", "waiting"}
HasObject(n, c) == chan[n][c].pc \in Active \cup {"created"}

Events == interrupts + timeouts + Cardinality({c \in Channel : chan[Leader[c]][c].pc # "none"})

Msg(c, from, kind) == [channel |-> c, from |-> from, kind |-> kind]

-----------------------------------------------------------------------------
(* Links as NodeConnectivity shows them. *)

Version(l) == IF l.up THEN l.version ELSE l.version + 1

(* connection_version of node n for the other participants. *)
ConnectionVersions(n, c) ==
  [p \in Others(c, n) |-> [outgoing |-> Version(link[n][p]), incoming |-> Version(link[p][n])]]

WasInterrupted(n, c) ==
  \E p \in Others(c, n) : \/ Version(link[n][p]) # chan[n][c].versions[p].outgoing
                          \/ Version(link[p][n]) # chan[n][c].versions[p].incoming

(* send_raw over links ls succeeds: the connection of the version the channel took. *)
CanSend(ls, n, p, versions) == ls[n][p].up /\ ls[n][p].version = versions[p].outgoing

SentTo(ls, n, ps, versions, m) ==
  [ls EXCEPT ![n] = [p \in DOMAIN ls[n] |->
     IF p \in ps /\ CanSend(ls, n, p, versions)
     THEN [ls[n][p] EXCEPT !.pipe = Append(@, m)] ELSE ls[n][p]]]

-----------------------------------------------------------------------------
(* NetworkTaskChannelManager. *)

(* sender_for on a channel id without an entry: it is pushed into the cache, and an entry
   that this evicts loses its sender too. *)
Entered(n, c) ==
  IF c \in senders[n] THEN [senders |-> senders[n], waiting |-> waiting[n], evicted |-> {}]
  ELSE IF Len(waiting[n]) < LruCapacity
  THEN [senders |-> senders[n] \cup {c}, waiting |-> Append(waiting[n], c), evicted |-> {}]
  ELSE [senders |-> (senders[n] \cup {c}) \ {Head(waiting[n])},
        waiting |-> Append(Tail(waiting[n]), c), evicted |-> {Head(waiting[n])}]

(* The cache without channel c. *)
Without(cache, c) ==
  IF c \in ToSet(cache) THEN RemoveAt(cache, CHOOSE i \in DOMAIN cache : cache[i] = c) ELSE cache

(* The drop function of a channel object. *)
Dropped(n, c) ==
  /\ senders' = [senders EXCEPT ![n] = @ \ {c}]
  /\ inbox' = [inbox EXCEPT ![n][c] = <<>>]

Init ==
  /\ link = [n \in Node |-> [p \in Node \ {n} |-> [version |-> 1, up |-> TRUE, pipe |-> <<>>]]]
  /\ senders = [n \in Node |-> {}] /\ waiting = [n \in Node |-> <<>>]
  /\ inbox = [n \in Node |-> [c \in Channel |-> <<>>]]
  /\ chan = [n \in Node |-> [c \in Channel |-> NoChannel]]
  /\ interrupts = 0 /\ timeouts = 0 /\ evicted = {}

-----------------------------------------------------------------------------
(* new_channel_for_task: Start goes to one participant after the other; the first that
   cannot be reached ends it with an error, and the channel is dropped without a word to
   those that were reached. *)
NewChannel(c) ==
  LET n == Leader[c]
      e == Entered(n, c)
      versions == ConnectionVersions(n, c)
      recipients == {i \in DOMAIN Participants[c] : Participants[c][i] # n}
      failing == {i \in recipients : ~CanSend(link, n, Participants[c][i], versions)}
      ok == failing = {}
      reached == {Participants[c][i] : i \in {j \in recipients : \A f \in failing : j < f}}
  IN  /\ chan[n][c].pc = "none" /\ Events < MaxEvents
      /\ link' = SentTo(link, n, reached, versions, Msg(c, n, "Start"))
      /\ waiting' = [waiting EXCEPT ![n] = Without(e.waiting, c)]
      /\ senders' = [senders EXCEPT ![n] = IF ok THEN e.senders ELSE e.senders \ {c}]
      /\ inbox' = [inbox EXCEPT ![n] = [x \in Channel |-> IF x \in e.evicted THEN <<>> ELSE @[x]]]
      /\ evicted' = evicted \cup {<<n, x>> : x \in e.evicted}
      /\ chan' = [chan EXCEPT ![n][c] =
                    [NoChannel EXCEPT !.pc = IF ok THEN "created" ELSE "failed",
                                      !.versions = versions]]
      /\ UNCHANGED <<interrupts, timeouts>>

(* A message for a channel is put into its receiver, whether or not it has started. *)
Deliver(n, m) == Append(inbox[n][m.channel], m)

(* run_receive_message: Start on an entry that waits for it makes the channel, with the
   messages buffered so far; any other message is passed on or buffered. *)
Receive(p, n) ==
  /\ link[p][n].pipe # <<>>
  /\ LET m == Head(link[p][n].pipe)
         c == m.channel
         e == Entered(n, c)
         starts == m.kind = "Start" /\ c \in ToSet(e.waiting)
         buffer == [x \in Channel |-> IF x \in e.evicted THEN <<>> ELSE inbox[n][x]]
     IN  /\ senders' = [senders EXCEPT ![n] = e.senders]
         /\ evicted' = evicted \cup {<<n, x>> : x \in e.evicted}
         /\ IF starts
            THEN /\ waiting' = [waiting EXCEPT ![n] = Without(e.waiting, c)]
                 /\ inbox' = [inbox EXCEPT ![n] = buffer]
                 /\ chan' = [chan EXCEPT ![n][c] =
                               [NoChannel EXCEPT !.pc = "connecting",
                                                 !.versions = ConnectionVersions(n, c)]]
            ELSE /\ waiting' = [waiting EXCEPT ![n] = e.waiting]
                 /\ inbox' = [inbox EXCEPT ![n] = [buffer EXCEPT ![c] = Deliver(n, m)]]
                 /\ UNCHANGED chan
  /\ link' = [link EXCEPT ![p][n].pipe = Tail(@)]
  /\ UNCHANGED <<interrupts, timeouts>>

-----------------------------------------------------------------------------
(* perform_leader_centric_computation. *)

(* Who learns of a failure: from the leader all followers, from a follower the leader. *)
Counterparts(n, c) == IF n = Leader[c] THEN Others(c, n) ELSE {Leader[c]}

(* communicate_failure and the end of the computation: the counterparts are told, as far as
   the links allow. *)
Fail(n, c) ==
  /\ chan' = [chan EXCEPT ![n][c].pc = "failed"]
  /\ link' = SentTo(link, n, Counterparts(n, c), chan[n][c].versions, Msg(c, n, "Abort"))
  /\ Dropped(n, c)

ConnectedNext(n, c) ==
  /\ chan[n][c].pc = "connecting"
  /\ \A p \in Others(c, n) : /\ link[n][p].version > chan[n][c].versions[p].outgoing
                             /\ link[p][n].version > chan[n][c].versions[p].incoming
  /\ chan' = [chan EXCEPT ![n][c].pc = "created"]
  /\ UNCHANGED <<link, senders, waiting, inbox, interrupts, timeouts, evicted>>

(* A follower waits until every link was once up in the version it took. *)
Connected(n, c) ==
  /\ chan[n][c].pc = "connecting"
  /\ \A p \in Others(c, n) : /\ link[n][p].version >= chan[n][c].versions[p].outgoing
                             /\ link[p][n].version >= chan[n][c].versions[p].incoming
  /\ chan' = [chan EXCEPT ![n][c].pc = "created"]
  /\ UNCHANGED <<link, senders, waiting, inbox, interrupts, timeouts, evicted>>

(* run_protocol sends the messages of the round; if one cannot be sent the computation
   fails, with some of the others sent. *)
StartComputation(n, c) ==
  LET versions == chan[n][c].versions
      reachable == {p \in Others(c, n) : CanSend(link, n, p, versions)}
      m == Msg(c, n, "Computation")
  IN  /\ chan[n][c].pc = "created"
      /\ \/ /\ reachable = Others(c, n)
            /\ link' = SentTo(link, n, reachable, versions, m)
            /\ chan' = [chan EXCEPT ![n][c].pc = "computing"]
            /\ UNCHANGED <<senders, inbox>>
         \/ /\ reachable # Others(c, n)
            /\ \E ps \in SUBSET reachable :
                 link' = SentTo(SentTo(link, n, ps, versions, m), n, Counterparts(n, c),
                                versions, Msg(c, n, "Abort"))
            /\ chan' = [chan EXCEPT ![n][c].pc = "failed"]
            /\ Dropped(n, c)
      /\ UNCHANGED <<waiting, interrupts, timeouts, evicted>>

(* receive_one: what the computation, or the leader waiting for its followers, does with
   the next message. *)
ReceiveOne(n, c) ==
  /\ chan[n][c].pc \in {"computing", "waiting"} /\ inbox[n][c] # <<>>
  /\ LET m == Head(inbox[n][c]) IN
     \/ /\ m.kind = "Computation"
        /\ chan' = [chan EXCEPT ![n][c].got = @ \cup {m.from}]
        /\ inbox' = [inbox EXCEPT ![n][c] = Tail(@)]
        /\ UNCHANGED <<link, senders>>
     \/ /\ m.kind = "Success" /\ n = Leader[c]
        /\ chan' = [chan EXCEPT ![n][c].successful = @ \cup {m.from}]
        /\ inbox' = [inbox EXCEPT ![n][c] = Tail(@)]
        /\ UNCHANGED <<link, senders>>
     \/ /\ m.kind = "Abort"
        /\ Fail(n, c)
  /\ UNCHANGED <<waiting, interrupts, timeouts, evicted>>

(* receive_raw finds after a second without messages that a connection was interrupted. *)
NoticeInterrupted(n, c) ==
  /\ chan[n][c].pc \in {"computing", "waiting"} /\ inbox[n][c] = <<>>
  /\ WasInterrupted(n, c)
  /\ Fail(n, c)
  /\ UNCHANGED <<waiting, interrupts, timeouts, evicted>>

FinishWithoutWaiting(n, c) ==
  /\ chan[n][c].pc = "computing" /\ chan[n][c].got = Others(c, n)
  /\ chan' = [chan EXCEPT ![n][c].pc = "succeeded"]
  /\ link' = IF n = Leader[c] THEN link
             ELSE SentTo(link, n, {Leader[c]}, chan[n][c].versions, Msg(c, n, "Success"))
  /\ Dropped(n, c)
  /\ UNCHANGED <<waiting, interrupts, timeouts, evicted>>

(* The protocol returns: a follower has stored its share and tells the leader if that one
   waits for it, and it is an error of the task if this cannot be sent; a leader that waits
   goes on receiving. *)
Finish(n, c) ==
  /\ chan[n][c].pc = "computing" /\ chan[n][c].got = Others(c, n)
  /\ \/ /\ n = Leader[c] /\ c \in Waits
        /\ chan' = [chan EXCEPT ![n][c].pc = "waiting"]
        /\ UNCHANGED <<link, senders, inbox>>
     \/ /\ n # Leader[c] /\ c \in Waits
        /\ ~CanSend(link, n, Leader[c], chan[n][c].versions)
        /\ chan' = [chan EXCEPT ![n][c].pc = "failed"]
        /\ link' = link /\ Dropped(n, c)
     \/ /\ n # Leader[c] => c \notin Waits \/ CanSend(link, n, Leader[c], chan[n][c].versions)
        /\ ~(n = Leader[c] /\ c \in Waits)
        /\ chan' = [chan EXCEPT ![n][c].pc = "succeeded"]
        /\ link' = IF n # Leader[c] /\ c \in Waits
                   THEN SentTo(link, n, {Leader[c]}, chan[n][c].versions, Msg(c, n, "Success"))
                   ELSE link
        /\ Dropped(n, c)
  /\ UNCHANGED <<waiting, interrupts, timeouts, evicted>>

(* wait_for_followers_to_succeed. *)
AllSucceeded(n, c) ==
  /\ chan[n][c].pc = "waiting"
  /\ Cardinality(chan[n][c].successful) >= Len(Participants[c]) - 1
  /\ chan' = [chan EXCEPT ![n][c].pc = "succeeded"]
  /\ Dropped(n, c)
  /\ UNCHANGED <<link, waiting, interrupts, timeouts, evicted>>

Timeout(n, c) ==
  /\ HasObject(n, c) /\ Events < MaxEvents /\ timeouts' = timeouts + 1
  /\ Fail(n, c)
  /\ UNCHANGED <<waiting, interrupts, evicted>>

-----------------------------------------------------------------------------
(* The network. *)

Interrupt(p, q) ==
  /\ link[p][q].up /\ Events < MaxEvents /\ interrupts' = interrupts + 1
  /\ \E i \in 0..Len(link[p][q].pipe) :
       link' = [link EXCEPT ![p][q].up = FALSE, ![p][q].pipe = SubSeq(@, 1, i)]
  /\ UNCHANGED <<senders, waiting, inbox, chan, timeouts, evicted>>

Reconnect(p, q) ==
  /\ ~link[p][q].up
  /\ link' = [link EXCEPT ![p][q].up = TRUE, ![p][q].version = @ + 1]
  /\ UNCHANGED <<senders, waiting, inbox, chan, interrupts, timeouts, evicted>>

Step ==
  \/ \E n \in Node, c \in Channel :
        \/ Connected(n, c) \/ StartComputation(n, c) \/ ReceiveOne(n, c)
        \/ NoticeInterrupted(n, c) \/ Finish(n, c) \/ AllSucceeded(n, c)
  \/ \E p \in Node : \E q \in Node \ {p} : Receive(p, q)

Next ==
  \/ Step
  \/ \E c \in Channel : NewChannel(c)
  \/ \E n \in Node, c \in Channel : Timeout(n, c)
  \/ \E p \in Node : \E q \in Node \ {p} : Interrupt(p, q) \/ Reconnect(p, q)

(* Some receive loop or task that can run does; links and clocks promise nothing. *)
Fairness == WF_vars(Step)

Spec == Init /\ [][Next]_vars /\ Fairness

-----------------------------------------------------------------------------
(* Properties. *)

TypeOK ==
  /\ \A n \in Node : /\ senders[n] \subseteq Channel
                     /\ Len(waiting[n]) <= LruCapacity /\ IsInjective(waiting[n])
                     /\ \A c \in Channel : /\ chan[n][c].pc \in Active \cup {"none", "created",
                                                            "succeeded", "failed"}
                                           /\ chan[n][c].got \subseteq Node
  /\ \A p \in Node : \A q \in Node \ {p} : link[p][q].version \in Nat /\ link[p][q].up \in BOOLEAN

(* The invariant written at sender_for: an entry of the senders map is in the cache of
   channels that wait for Start or belongs to a live channel object, never to both, and
   those two have no others. *)
SendersInvariant ==
  \A n \in Node, c \in Channel :
    /\ c \in senders[n] <=> (c \in ToSet(waiting[n]) \/ HasObject(n, c))
    /\ ~(c \in ToSet(waiting[n]) /\ HasObject(n, c))

(* The promise of leader_waits_for_success: a leader that succeeds has followers that all
   succeeded, and so stored their share, whatever links broke and whoever timed out. *)
LeaderSuccessIsGlobal ==
  \A c \in Waits : chan[Leader[c]][c].pc = "succeeded"
    => \A p \in ToSet(Participants[c]) : chan[p][c].pc = "succeeded"

(* Without broken links, timeouts and evictions every task that was started succeeds at
   every participant: no message is lost because it came before Start, and no one waits
   for someone who has gone. *)
CompletesWithoutFaults ==
  <>[](\/ interrupts > 0 \/ timeouts > 0 \/ evicted # {}
       \/ \A c \in Channel : chan[Leader[c]][c].pc # "none"
             => \A p \in ToSet(Participants[c]) : chan[p][c].pc = "succeeded")

(* The channel maps are consistent at every node, and a leader's success is everybody's. *)
ChannelsSound == TypeOK /\ SendersInvariant /\ LeaderSuccessIsGlobal
=============================================================================
