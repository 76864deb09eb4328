----------------------------- MODULE StatusFeed -----------------------------
(***************************************************************************)
(* How the batcher's driver learns the derivation status: the poller       *)
(* (derivation_status_poller.rs) asks the rollup node of the sequencer     *)
(* that is the leader (rollup_node.rs, sequencers.rs) and passes changes   *)
(* on over a channel of capacity one, while another task looks for the     *)
(* leader (all in crates/batcher/service/src).  The driver accepts or      *)
(* ignores what arrives (on_derivation_status, crates/batcher/core).  A    *)
(* status is a number, with a safe head and a current L1 block; 0 stands   *)
(* for one that has neither.                                               *)
(***************************************************************************)
EXTENDS Naturals, Sequences

CONSTANTS
    N,          \* sequencers, in the order of their URLs
    MaxStatus,  \* statuses of a run
    SafeL2,     \* SafeL2[st]: the number of the safe head of status st
    CurrentL1,  \* CurrentL1[st]: the L1 block its node has read up to
    MaxEvents   \* changes of the nodes and failed requests of a run

Sequencer == 1 .. N

VARIABLES
    node,      \* node[s]: the status the rollup node of s would answer
    active,    \* the sequencers that answer admin_sequencerActive with true
    leader,    \* leader_index
    answers,   \* the answers refresh_leader has so far
    tracker,   \* "sleep", "asking" or "ended"
    poller,    \* "sleep", "asking", "sending" or "ended"
    asked,     \* the sequencer the poller asks
    status,    \* the status the poller wants to send
    last,      \* last_status
    channel,   \* the status channel
    driver,    \* "running" or "gone"
    current,   \* the status the driver acts on, the last it accepted
    cancelled,
    seen,      \* the statuses the poller was answered, without repetitions
    delivered, \* the statuses the driver received
    events

nodes == <<node, active>>
search == <<leader, answers, tracker>>
polls == <<poller, asked, status, last>>
feed == <<channel, current, delivered>>
vars == <<nodes, search, polls, feed, driver, cancelled, seen, events>>

Event == events < MaxEvents /\ events' = events + 1

Usable(st) == st # 0

\* The sequencer the batcher should follow.
RightLeader == {s \in active : \A t \in active : s <= t}

\* Setup found a leader and a usable status, which it gave to the poller and to the
\* driver.
Init ==
    /\ node \in [Sequencer -> 0 .. MaxStatus]
    /\ active \in SUBSET Sequencer /\ leader \in RightLeader /\ Usable(node[leader])
    /\ answers = <<>> /\ tracker = "sleep"
    /\ poller = "sleep" /\ asked = leader /\ status = 0 /\ last = node[leader]
    /\ channel = <<>> /\ current = node[leader] /\ driver = "running"
    /\ cancelled = FALSE
    /\ seen = <<node[leader]>> /\ delivered = <<node[leader]>>
    /\ events = 0

-----------------------------------------------------------------------------
(* The nodes. *)

\* A node derives further, is reset or restarts.
NodeMoves(s) ==
    /\ Event
    /\ \E st \in 0 .. MaxStatus : st # node[s] /\ node' = [node EXCEPT ![s] = st]
    /\ UNCHANGED <<active, search, polls, feed, driver, cancelled, seen>>

\* Another sequencer becomes active; for a while there may be none or several.
LeaderMoves(s) ==
    /\ Event
    /\ active' = IF s \in active THEN active \ {s} ELSE active \cup {s}
    /\ UNCHANGED <<node, search, polls, feed, driver, cancelled, seen>>

-----------------------------------------------------------------------------
(* track_leader and refresh_leader. *)

Refresh ==
    /\ tracker = "sleep" /\ ~cancelled /\ N > 1
    /\ tracker' = "asking"
    /\ answers' = [s \in Sequencer |-> "none"]
    /\ UNCHANGED <<nodes, leader, polls, feed, driver, cancelled, seen, events>>

\* A sequencer answers, at a moment of its own.
Answers(s) ==
    /\ tracker = "asking" /\ answers[s] = "none"
    /\ answers' = [answers EXCEPT ![s] = IF s \in active THEN "yes" ELSE "no"]
    /\ UNCHANGED <<nodes, leader, tracker, polls, feed, driver, cancelled, seen, events>>

\* A sequencer answers an error, or not in time.
NoAnswer(s) ==
    /\ tracker = "asking" /\ answers[s] = "none"
    /\ Event
    /\ answers' = [answers EXCEPT ![s] = "no"]
    /\ UNCHANGED <<nodes, leader, tracker, polls, feed, driver, cancelled, seen>>

FirstActive == {s \in Sequencer : answers[s] = "yes" /\ \A t \in 1 .. s - 1 : answers[t] # "yes"}

(* Mutant: the leader is only replaced when it is known not to be active any more. *)
DecideSticky ==
    /\ tracker = "asking" /\ \A s \in Sequencer : answers[s] # "none"
    /\ leader' \in IF FirstActive = {} \/ leader = 1 THEN {leader} ELSE FirstActive
    /\ tracker' = "sleep" /\ answers' = <<>>
    /\ UNCHANGED <<nodes, polls, feed, driver, cancelled, seen, events>>

\* All have answered: the first active one is the leader. Without one the
\* leader stays.
Decide ==
    /\ tracker = "asking" /\ \A s \in Sequencer : answers[s] # "none"
    /\ leader' \in IF FirstActive = {} THEN {leader} ELSE FirstActive
    /\ tracker' = "sleep" /\ answers' = <<>>
    /\ UNCHANGED <<nodes, polls, feed, driver, cancelled, seen, events>>

\* The tracker looks at the cancellation between two searches only.
TrackerStops ==
    /\ tracker = "sleep" /\ (cancelled \/ N = 1)
    /\ tracker' = "ended"
    /\ UNCHANGED <<nodes, leader, answers, polls, feed, driver, cancelled, seen, events>>

-----------------------------------------------------------------------------
(* The poller. *)

\* The request goes to the rollup node of the present leader.
Ask ==
    /\ poller = "sleep" /\ ~cancelled /\ driver = "running"
    /\ poller' = "asking" /\ asked' = leader
    /\ UNCHANGED <<nodes, search, status, last, feed, driver, cancelled, seen, events>>

Observe(st) == seen' = IF seen[Len(seen)] = st THEN seen ELSE Append(seen, st)

(* Mutant: a status without a safe head is a change like any other. *)
AnsweredUnchecked ==
    /\ poller = "asking"
    /\ \E st \in {node[asked]} :
         \/ /\ st = last
            /\ poller' = "sleep" /\ Observe(st) /\ UNCHANGED status
         \/ /\ st # last
            /\ poller' = "sending" /\ status' = st /\ Observe(st)
    /\ UNCHANGED <<nodes, search, asked, last, feed, driver, cancelled, events>>

\* The answer: unusable and unchanged statuses are dropped.
Answered ==
    /\ poller = "asking"
    /\ \E st \in {node[asked]} :
         \/ /\ ~Usable(st)
            /\ poller' = "sleep" /\ UNCHANGED <<status, seen>>
         \/ /\ Usable(st) /\ st = last
            /\ poller' = "sleep" /\ Observe(st) /\ UNCHANGED status
         \/ /\ Usable(st) /\ st # last
            /\ poller' = "sending" /\ status' = st /\ Observe(st)
    /\ UNCHANGED <<nodes, search, asked, last, feed, driver, cancelled, events>>

AskFails ==
    /\ poller = "asking"
    /\ Event
    /\ poller' = "sleep"
    /\ UNCHANGED <<nodes, search, asked, status, last, feed, driver, cancelled, seen>>

(* Mutant: a status that finds the channel full is dropped. *)
SendOrDrop ==
    /\ poller = "sending" /\ driver = "running"
    /\ channel' = IF channel = <<>> THEN <<status>> ELSE channel
    /\ last' = status /\ poller' = "sleep"
    /\ UNCHANGED <<nodes, search, asked, status, current, delivered, driver, cancelled, seen,
                   events>>

\* The channel has room. Until then the poller asks nobody.
Send ==
    /\ poller = "sending" /\ driver = "running" /\ channel = <<>>
    /\ channel' = <<status>>
    /\ last' = status /\ poller' = "sleep"
    /\ UNCHANGED <<nodes, search, asked, status, current, delivered, driver, cancelled, seen,
                   events>>

(* Mutant: a poller that waits for room does not look at anything else. *)
PollerStopsIdle ==
    /\ poller \in {"sleep", "asking"} /\ (cancelled \/ driver = "gone")
    /\ poller' = "ended"
    /\ UNCHANGED <<nodes, search, asked, status, last, feed, driver, cancelled, seen, events>>

\* Wherever it waits, the poller ends on a cancellation and when the receiver
\* is gone.
PollerStops ==
    /\ poller # "ended" /\ (cancelled \/ driver = "gone")
    /\ poller' = "ended"
    /\ UNCHANGED <<nodes, search, asked, status, last, feed, driver, cancelled, seen, events>>

-----------------------------------------------------------------------------
(* The driver. *)

(* Mutant: a lower safe head is never accepted. *)
BehindOnSafeL2(st, acted) == SafeL2[st] < SafeL2[acted]

\* A status with a lower safe head than the one acted on, of a node that has not read
\* L1 past that one's block.
BehindOnL1(st, acted) == SafeL2[st] < SafeL2[acted] /\ CurrentL1[st] <= CurrentL1[acted]

\* The driver takes a status from the channel, and ignores one that is behind on L1.
Receive ==
    /\ driver = "running" /\ ~cancelled /\ channel # <<>>
    /\ channel' = Tail(channel) /\ delivered' = Append(delivered, Head(channel))
    /\ current' = IF BehindOnL1(Head(channel), current) THEN current ELSE Head(channel)
    /\ UNCHANGED <<nodes, search, polls, driver, cancelled, seen, events>>

Cancel ==
    /\ ~cancelled /\ cancelled' = TRUE
    /\ UNCHANGED <<nodes, search, polls, feed, driver, seen, events>>

\* The driver fails, or has drained after a cancellation: it drops the receiver
\* and its end cancels the rest.
DriverEnds ==
    /\ driver = "running"
    /\ driver' = "gone" /\ cancelled' = TRUE
    /\ UNCHANGED <<nodes, search, polls, feed, seen, events>>

Tracker == Refresh \/ (\E s \in Sequencer : Answers(s)) \/ Decide \/ TrackerStops

Poller == Ask \/ Answered \/ Send \/ PollerStops

Next ==
    \/ \E s \in Sequencer : NodeMoves(s) \/ LeaderMoves(s) \/ NoAnswer(s)
    \/ Tracker \/ Poller \/ AskFails \/ Receive \/ Cancel \/ DriverEnds

\* The runtime runs both tasks and the driver, and requests are answered.
Spec == Init /\ [][Next]_vars /\ WF_vars(Tracker) /\ WF_vars(Poller) /\ WF_vars(Receive)

-----------------------------------------------------------------------------
(* Properties. *)

\* The types of the variables.
TypeOK ==
    /\ node \in [Sequencer -> 0 .. MaxStatus] /\ active \subseteq Sequencer
    /\ leader \in Sequencer
    /\ answers = <<>> \/ answers \in [Sequencer -> {"none", "yes", "no"}]
    /\ tracker \in {"sleep", "asking", "ended"}
    /\ poller \in {"sleep", "asking", "sending", "ended"}
    /\ asked \in Sequencer /\ status \in 0 .. MaxStatus /\ last \in 1 .. MaxStatus
    /\ Len(channel) <= 1 /\ channel \in Seq(1 .. MaxStatus)
    /\ driver \in {"running", "gone"} /\ current \in 1 .. MaxStatus

\* Every change the poller saw reaches the driver, in the order it was seen and
\* without repetition, although the poller stops looking while the channel is full
\* and its requests cross changes of the leader.
ChangesDelivered ==
    poller # "ended" =>
      seen = delivered \o channel \o (IF poller = "sending" THEN <<status>> ELSE <<>>)

\* Once the sequencers are quiet the last status the driver was given is that of the
\* active one, unless that one has no usable status, and the driver acts on it. It acts
\* on an earlier one only while the leader's safe head is lower and the leader has not
\* read L1 past the block of that one: a leader that has is followed even backwards.
FollowsLeader ==
    <>[](\/ cancelled
         \/ active = {}
         \/ \E s \in RightLeader :
              \/ ~Usable(node[s])
              \/ /\ delivered[Len(delivered)] = node[s]
                 /\ \/ current = node[s]
                    \/ /\ SafeL2[node[s]] < SafeL2[current]
                       /\ CurrentL1[node[s]] <= CurrentL1[current])

\* Cancelling ends both tasks, also when the poller waits for a driver that is gone.
TasksEnd == cancelled ~> (poller = "ended" /\ tracker = "ended")
=============================================================================
