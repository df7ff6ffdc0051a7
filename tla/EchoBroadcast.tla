--------------------------- MODULE EchoBroadcast ---------------------------
(***************************************************************************)
(* The reliable broadcast of the threshold signature protocols             *)
(* (threshold-signatures/src/protocol/echo_broadcast.rs).  Every           *)
(* participant broadcasts one value, in n sessions side by side; one of    *)
(* them is modelled, with the participant that owns it chosen at the       *)
(* start.  A participant handles one message at a time together with the   *)
(* votes it simulates as its own, until it has the value or concludes that *)
(* the owner misbehaved.  The sessions touch disjoint state, but a         *)
(* participant that blames the owner of one returns from all of them: it   *)
(* may leave this one at any moment for what happens in another.  A faulty *)
(* participant may send anything to anybody.                               *)
(***************************************************************************)
EXTENDS Integers, FiniteSets

CONSTANTS
  Setups,    \* the sessions considered: [group, faulty, owner, sends]
  Values,    \* what can be broadcast
  NoValue

ASSUME ValueAssumption == NoValue \notin Values

VARIABLES
  setup,     \* the session; sends is what its owner sends to whom,
             \* the same to everybody when it is not faulty
  receivers,     \* the BroadcastProtocolState of each participant, and its end
  stopped        \* those that an alarm in another session ended

echoVars == <<setup, receivers, stopped>>

Members == setup.group
HonestMembers == Members \ setup.faulty

(***************************************************************************)
(* echo_ready_thresholds: to be exceeded, not only reached.                *)
(***************************************************************************)
BroadcastThreshold(n) == IF n <= 3 THEN 0 ELSE (n - 1) \div 3

\* At most as many participants are faulty as the thresholds are made for.
ASSUME SetupAssumption ==
  \A s \in Setups : /\ IsFiniteSet(s.group)
                    /\ s.faulty \subseteq s.group
                    /\ Cardinality(s.faulty) <= BroadcastThreshold(Cardinality(s.group))
                    /\ s.owner \in s.group
                    /\ s.sends \in [s.group -> Values]
                    /\ s.owner \notin s.faulty => \A p, q \in s.group : s.sends[p] = s.sends[q]

EchoThresholdLow(n) == IF n <= 3 THEN 0 ELSE (n - BroadcastThreshold(n)) \div 2  \* mutant
EchoThreshold(n) == IF n <= 3 THEN 0 ELSE (n + BroadcastThreshold(n)) \div 2

EchoQuorum(count) == count > EchoThreshold(Cardinality(Members))

AmplifiesLate(count) == count > 2 * BroadcastThreshold(Cardinality(Members))  \* mutant
Amplifies(count) == count > BroadcastThreshold(Cardinality(Members))

ReadyQuorum(count) == count > 2 * BroadcastThreshold(Cardinality(Members))

(***************************************************************************)
(* CounterList and ParticipantCounter: the first vote of each participant  *)
(* counts.  The votes of a phase that is over are never read again: the    *)
(* model forgets them.                                                     *)
(***************************************************************************)
NoVotes == [q \in Members |-> NoValue]
Votes(box, d) == Cardinality({q \in DOMAIN box : box[q] = d})
Counted(box) == {q \in DOMAIN box : box[q] # NoValue}

Running(l) == l.output = NoValue /\ ~l.alarmed

(***************************************************************************)
(* The arm for Ready of reliable_broadcast_receive_all.  OnReady is one    *)
(* pass of the loop; HandleReady is the pass and, when it amplified, the   *)
(* pass for the vote simulated as one's own.                               *)
(***************************************************************************)
Amplified(l, d) == [l EXCEPT !.finishAmplification = TRUE, !.sentReady = @ \union {d}]

OnReady(l, p, from, d) ==
  IF l.ready[from] # NoValue \/ l.finishReady THEN l
  ELSE LET box == [l.ready EXCEPT ![from] = d]
           votes == Votes(box, d)
           amplified == IF Amplifies(votes) /\ ~l.finishAmplification THEN Amplified(l, d) ELSE l
       IN IF ReadyQuorum(votes)
          THEN [amplified EXCEPT !.finishSend = TRUE, !.finishEcho = TRUE, !.finishReady = TRUE,
                                 !.echo = NoVotes, !.ready = NoVotes, !.output = d,
                                 !.alarmed = p = setup.owner /\ d # setup.sends[p]]
          ELSE [amplified EXCEPT !.ready = box]

HandleReady(l, p, from, d) ==
  LET once == OnReady(l, p, from, d)
  IN IF once.finishAmplification /\ ~l.finishAmplification /\ Running(once)
     THEN OnReady(once, p, p, d)
     ELSE once

(***************************************************************************)
(* The arm for Echo: a quorum makes the participant ready; when no value   *)
(* can reach a quorum any more the owner is blamed and the protocol ends.  *)
(***************************************************************************)
QuorumPossible(box) ==
  LET missing == Cardinality(Members) - Cardinality(Counted(box))
  IN \E q \in Counted(box) : EchoQuorum(Votes(box, box[q]) + missing)

HandleEcho(l, p, from, d) ==
  IF l.finishEcho THEN l
  ELSE LET box == [l.echo EXCEPT ![from] = d]
       IN IF EchoQuorum(Votes(box, d))
          THEN HandleReady([l EXCEPT !.echo = NoVotes, !.finishEcho = TRUE, !.sentReady = @ \union {d}],
                           p, p, d)
          ELSE [l EXCEPT !.echo = box,
                         !.alarmed = ~l.finishAmplification /\ ~QuorumPossible(box)]

(***************************************************************************)
(* The arm for Send: from the owner of the session, once.                  *)
(***************************************************************************)
HandleSend(l, p, d) ==
  HandleEcho([l EXCEPT !.finishSend = TRUE, !.sentEcho = @ \union {d}], p, p, d)

NewState ==
  [echo |-> NoVotes, ready |-> NoVotes,
   finishSend |-> FALSE, finishEcho |-> FALSE, finishAmplification |-> FALSE,
   finishReady |-> FALSE, sentEcho |-> {}, sentReady |-> {},
   output |-> NoValue, alarmed |-> FALSE]

(***************************************************************************)
(* reliable_broadcast_send: the owner sends its value and handles it as a  *)
(* vote received from itself.                                              *)
(***************************************************************************)
EchoInit ==
  /\ setup \in Setups
  /\ receivers = [p \in HonestMembers |->
                IF p = setup.owner THEN HandleSend(NewState, p, setup.sends[p]) ELSE NewState]
  /\ stopped = {}

(***************************************************************************)
(* What q has sent to p: an honest participant what its state says, a      *)
(* faulty one whatever it likes.  A message the loop skips has no action.  *)
(***************************************************************************)
SentSend(p, q, d) == q = setup.owner /\ d = setup.sends[p]
SentEcho(q, d) == q \in HonestMembers => d \in receivers[q].sentEcho
SentReady(q, d) == q \in HonestMembers => d \in receivers[q].sentReady

Handle(p, l) ==
  /\ receivers' = [receivers EXCEPT ![p] = l]
  /\ UNCHANGED <<setup, stopped>>

ReceiveSend(p, q, d) ==
  /\ ~receivers[p].finishSend
  /\ SentSend(p, q, d)
  /\ Handle(p, HandleSend(receivers[p], p, d))
ReceiveEcho(p, q, d) ==
  /\ receivers[p].echo[q] = NoValue /\ ~receivers[p].finishEcho
  /\ SentEcho(q, d)
  /\ Handle(p, HandleEcho(receivers[p], p, q, d))
ReceiveReady(p, q, d) ==
  /\ receivers[p].ready[q] = NoValue
  /\ SentReady(q, d)
  /\ Handle(p, HandleReady(receivers[p], p, q, d))

Receive(p, q) ==
  /\ Running(receivers[p]) /\ p \notin stopped
  /\ \E d \in Values : ReceiveSend(p, q, d) \/ ReceiveEcho(p, q, d) \/ ReceiveReady(p, q, d)

(***************************************************************************)
(* The alarm in the arm for Echo, raised by the session of another faulty  *)
(* owner (HonestOwnerTrusted: no other session raises one): the loop that  *)
(* serves all sessions returns.                                            *)
(***************************************************************************)
StopForOtherSession(p) ==
  /\ Running(receivers[p]) /\ p \notin stopped
  /\ setup.faulty \ {setup.owner} # {}
  /\ stopped' = stopped \union {p}
  /\ UNCHANGED <<setup, receivers>>

EchoNext ==
  \E p \in HonestMembers : \/ StopForOtherSession(p)
                           \/ \E q \in Members \ {p} : Receive(p, q)

EchoSpec == EchoInit /\ [][EchoNext]_echoVars

-----------------------------------------------------------------------------
LocalStates ==
  [echo : [Members -> Values \union {NoValue}], ready : [Members -> Values \union {NoValue}],
   finishSend : BOOLEAN, finishEcho : BOOLEAN, finishAmplification : BOOLEAN,
   finishReady : BOOLEAN, sentEcho : SUBSET Values, sentReady : SUBSET Values,
   output : Values \union {NoValue}, alarmed : BOOLEAN]

(* Type invariant: echoes and readies are sent for one value only, and a   *)
(* value that was delivered was echoed or made ready by this participant.  *)
EchoTypeOK ==
  /\ setup \in Setups
  /\ stopped \subseteq HonestMembers
  /\ \A p \in HonestMembers :
       /\ receivers[p] \in LocalStates
       /\ Cardinality(receivers[p].sentEcho) <= 1
       /\ receivers[p].output # NoValue => receivers[p].output \in receivers[p].sentReady

(* Two participants never take different values from one session, however  *)
(* the messages are ordered and whatever the faulty participant sends:     *)
(* reliable_broadcast_receive_all returns the same map everywhere.         *)
Consistency ==
  \A p, q \in HonestMembers :
    (receivers[p].output # NoValue /\ receivers[q].output # NoValue) => receivers[p].output = receivers[q].output

(* With an honest owner nobody blames it ("The original sender in session  *)
(* is malicious"), and what is taken is the value it sent.                 *)
HonestOwnerTrusted ==
  setup.owner \in HonestMembers =>
    \A p \in HonestMembers : ~receivers[p].alarmed /\ receivers[p].output \in {NoValue, setup.sends[p]}

(* Those who do not, or no longer, do their part: the faulty ones and those *)
(* that an alarm ended, in this session or in another.                     *)
Lost == setup.faulty \union stopped \union {p \in HonestMembers : receivers[p].alarmed}

(* What p has still to receive from q, both honest.                        *)
Outstanding(p, q) ==
  /\ Running(receivers[p])
  /\ \E d \in Values :
       \/ ~receivers[p].finishSend /\ SentSend(p, q, d)
       \/ receivers[p].echo[q] = NoValue /\ ~receivers[p].finishEcho /\ SentEcho(q, d)
       \/ receivers[p].ready[q] = NoValue /\ SentReady(q, d)

(* When the channels have delivered what honest participants sent to each  *)
(* other, which takes a bounded number of steps, the value of an honest    *)
(* owner has been taken by everybody who is not lost, and a value of a     *)
(* faulty owner that one honest participant took, too: as long as no more  *)
(* are lost, faulty ones and those that left with an alarm together, than  *)
(* the thresholds of echo_ready_thresholds are made for.  (With four       *)
(* participants one alarm beside the faulty one is too many: the others    *)
(* wait until the computation's time is up.)                               *)
Delivered ==
  \/ \E p \in Members \ Lost : \E q \in HonestMembers \ {p} : Outstanding(p, q)
  \/ Cardinality(Lost) > BroadcastThreshold(Cardinality(Members))
  \/ \A p \in Members \ Lost : receivers[p].output # NoValue
  \/ /\ setup.owner \notin HonestMembers
     /\ \A p \in HonestMembers : receivers[p].output = NoValue

(* A broadcast never splits the honest participants and never blames an    *)
(* honest owner.                                                           *)
BroadcastSound == EchoTypeOK /\ Consistency /\ HonestOwnerTrusted
=============================================================================
